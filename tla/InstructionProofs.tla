------------------------- MODULE InstructionProofs -------------------------
(***************************************************************************)
(* Theorems about Instruction, for any caps, bounds and names.             *)
(***************************************************************************)
EXTENDS Instruction, TLAPS

\* A tool runs for a call of the turn, the actor's beside none.
Pending ==
    /\ pc = "tool" => tool # "none" /\ (tool = "actor" <=> left = 0)
    /\ pc \in {"top", "ask", "calls", "tool"} => idle < 3
    /\ cap > 0

\* While it runs no report is accepted; what the first hold about values asked
\* is what was held back, until the other asks.
Holding ==
    /\ accepted => pc \in {"start", "done", "returned"}
    /\ {"naming", "sourcing"} \cap asked = {} => ever = {}
    /\ ~({"naming", "sourcing"} \subseteq asked) => ever \subseteq held

\* A model that only reports always has a turn left to be heard in.
Heard ==
    /\ steady => ~actor /\ pc # "tool"
    /\ steady /\ ~stop /\ ~late =>
         /\ pc \in {"top", "ask", "calls"} => turn <= cap
         /\ pc = "calls" /\ left = 0 => turn < cap

\* The types, the flags and the rest apart.
Flags ==
    /\ assert \in BOOLEAN /\ actor \in BOOLEAN /\ fallback \in BOOLEAN /\ steady \in BOOLEAN
    /\ warned \in BOOLEAN /\ retried \in BOOLEAN /\ nudged \in BOOLEAN /\ silent \in BOOLEAN
    /\ asserted \in BOOLEAN /\ stop \in BOOLEAN /\ late \in BOOLEAN /\ accepted \in BOOLEAN
Numbers ==
    /\ attempt \in 1..2 /\ turn \in Nat /\ cap \in Nat /\ idle \in 0..3 /\ acts \in 0..3
    /\ acted \in 0..MaxActs /\ left \in 0..MaxCalls /\ Answered
Places ==
    /\ pc \in {"start", "top", "ask", "calls", "tool", "done", "returned", "thrown"}
    /\ tool \in {"none", "act", "wait", "actor"}
    /\ asked \subseteq Holds /\ held \subseteq Names /\ sought \subseteq Names /\ ever \subseteq Names
    /\ status \in Reports \cup {"none"} /\ bail \in Bails \cup {"none"} /\ values \subseteq Names

InstructionInv == Flags /\ Numbers /\ Places /\ Pending /\ Holding /\ Heard /\ ReportMeans /\ ReportGetsThrough

LEMMA Types == InstructionOK <=> Flags /\ Numbers /\ Places
  BY DEF InstructionOK, Flags, Numbers, Places

LEMMA InitInv == Init => InstructionInv
<1> USE BoundsAssumption DEF Init
<1>1. Init => Flags
  BY DEF Flags
<1>2. Init => Numbers /\ Places /\ Pending
  BY DEF Numbers, Places, Pending, Answered
<1>3. Init => Holding /\ Heard /\ ReportMeans /\ ReportGetsThrough
  BY DEF Holding, Heard, ReportMeans, VerdictMeans, ValuesKept, ReportGetsThrough
<1> QED BY <1>1, <1>2, <1>3 DEF InstructionInv

\* The halves of a cap are whole.
LEMMA Raised == ASSUME NEW n \in Nat, n > 0 PROVE (3 * n + 1) \div 2 \in Nat /\ (3 * n + 1) \div 2 > 0
  OBVIOUS

\* The turns.
LEMMA TurnStep ==
  ASSUME InstructionInv, Start \/ Top \/ ActorActs \/ Complete \/ GivenUp \/ Throw \/ TurnEnds
  PROVE  InstructionInv'
<1> USE BoundsAssumption DEF InstructionInv, Goto, Finish, NextTurn, Unproductive, StubRest,
      given, turns, holding, gestures, acting, calls, signals, result
<1>1. CASE Start
  <2>1. Flags'
    BY <1>1 DEF Start, Flags
  <2>2. Numbers'
    BY <1>1 DEF Start, Flags, Numbers, Places, Pending, Answered
  <2>3. Places'
    BY <1>1 DEF Start, Places, Reports, Bails
  <2>4. Pending' /\ Heard'
    BY <1>1 DEF Start, Flags, Numbers, Places, Pending, Answered, Heard
  <2>5. Holding' /\ ReportMeans' /\ ReportGetsThrough'
    BY <1>1 DEF Start, Numbers, Heard, Holding, ReportMeans, VerdictMeans, ValuesKept, ReportGetsThrough
  <2> QED BY <2>1, <2>2, <2>3, <2>4, <2>5
<1>2. CASE Top
  <2>1. Flags'
    BY <1>2 DEF Top, Flags
  <2>2. Numbers'
    BY <1>2 DEF Top, Flags, Numbers, Places, Pending, Answered
  <2>3. Places'
    BY <1>2 DEF Top, Places, Reports, Bails
  <2>4. Pending' /\ Heard'
    BY <1>2 DEF Top, Flags, Numbers, Places, Pending, Answered, Heard
  <2>5. Holding' /\ ReportMeans' /\ ReportGetsThrough'
    BY <1>2 DEF Top, Numbers, Heard, Holding, ReportMeans, VerdictMeans, ValuesKept, ReportGetsThrough
  <2> QED BY <2>1, <2>2, <2>3, <2>4, <2>5
<1>3. CASE ActorActs
  <2>1. Flags'
    BY <1>3 DEF ActorActs, Flags
  <2>2. Numbers'
    BY <1>3 DEF ActorActs, Flags, Numbers, Places, Pending, Answered
  <2>3. Places'
    BY <1>3 DEF ActorActs, Places, Reports, Bails
  <2>4. Pending' /\ Heard'
    BY <1>3 DEF ActorActs, Flags, Numbers, Places, Pending, Answered, Heard
  <2>5. Holding' /\ ReportMeans' /\ ReportGetsThrough'
    BY <1>3 DEF ActorActs, Numbers, Heard, Holding, ReportMeans, VerdictMeans, ValuesKept, ReportGetsThrough
  <2> QED BY <2>1, <2>2, <2>3, <2>4, <2>5
<1>4. CASE Complete
  <2>1. Flags'
    BY <1>4 DEF Complete, Flags
  <2>2. Numbers'
    BY <1>4 DEF Complete, Flags, Numbers, Places, Pending, Answered
  <2>3. Places'
    BY <1>4 DEF Complete, Places, Reports, Bails
  <2>4. Pending' /\ Heard'
    BY <1>4 DEF Complete, Flags, Numbers, Places, Pending, Answered, Heard
  <2>5. Holding' /\ ReportMeans' /\ ReportGetsThrough'
    BY <1>4 DEF Complete, Numbers, Heard, Holding, ReportMeans, VerdictMeans, ValuesKept, ReportGetsThrough
  <2> QED BY <2>1, <2>2, <2>3, <2>4, <2>5
<1>5. CASE GivenUp
  <2>1. Flags'
    BY <1>5 DEF GivenUp, Flags
  <2>2. Numbers'
    BY <1>5 DEF GivenUp, Flags, Numbers, Places, Pending, Answered
  <2>3. Places'
    BY <1>5 DEF GivenUp, Places, Reports, Bails
  <2>4. Pending' /\ Heard'
    BY <1>5 DEF GivenUp, Flags, Numbers, Places, Pending, Answered, Heard
  <2>5. Holding' /\ ReportMeans' /\ ReportGetsThrough'
    BY <1>5 DEF GivenUp, Numbers, Heard, Holding, ReportMeans, VerdictMeans, ValuesKept, ReportGetsThrough
  <2> QED BY <2>1, <2>2, <2>3, <2>4, <2>5
<1>6. CASE Throw
  <2>1. Flags'
    BY <1>6 DEF Throw, Flags
  <2>2. Numbers'
    BY <1>6 DEF Throw, Flags, Numbers, Places, Pending, Answered
  <2>3. Places'
    BY <1>6 DEF Throw, Places, Reports, Bails
  <2>4. Pending' /\ Heard'
    BY <1>6 DEF Throw, Flags, Numbers, Places, Pending, Answered, Heard
  <2>5. Holding' /\ ReportMeans' /\ ReportGetsThrough'
    BY <1>6 DEF Throw, Numbers, Heard, Holding, ReportMeans, VerdictMeans, ValuesKept, ReportGetsThrough
  <2> QED BY <2>1, <2>2, <2>3, <2>4, <2>5
<1>7. CASE TurnEnds
  <2>1. Flags'
    BY <1>7 DEF TurnEnds, Flags
  <2>2. Numbers'
    BY <1>7 DEF TurnEnds, Flags, Numbers, Places, Pending, Answered
  <2>3. Places'
    BY <1>7 DEF TurnEnds, Places, Reports, Bails
  <2>4. Pending' /\ Heard'
    BY <1>7 DEF TurnEnds, Flags, Numbers, Places, Pending, Answered, Heard
  <2>5. Holding' /\ ReportMeans' /\ ReportGetsThrough'
    BY <1>7 DEF TurnEnds, Numbers, Heard, Holding, ReportMeans, VerdictMeans, ValuesKept, ReportGetsThrough
  <2> QED BY <2>1, <2>2, <2>3, <2>4, <2>5
<1> QED BY <1>1, <1>2, <1>3, <1>4, <1>5, <1>6, <1>7

\* The calls of a turn.
LEMMA CallStep ==
  ASSUME InstructionInv, Malformed \/ Call("act") \/ Call("wait") \/ ActorReturns \/ Return \/ Invalid
  PROVE  InstructionInv'
<1> USE BoundsAssumption DEF InstructionInv, Goto, Finish, Handling, StubRest,
      given, turns, holding, gestures, acting, calls, signals, result
<1>1. CASE Malformed
  <2>1. Flags'
    BY <1>1 DEF Malformed, Flags
  <2>2. Numbers'
    BY <1>1 DEF Malformed, Flags, Numbers, Places, Pending, Answered
  <2>3. Places'
    BY <1>1 DEF Malformed, Places, Reports, Bails
  <2>4. Pending' /\ Heard'
    BY <1>1 DEF Malformed, Flags, Numbers, Places, Pending, Answered, Heard
  <2>5. Holding' /\ ReportMeans' /\ ReportGetsThrough'
    BY <1>1 DEF Malformed, Numbers, Heard, Holding, ReportMeans, VerdictMeans, ValuesKept, ReportGetsThrough
  <2> QED BY <2>1, <2>2, <2>3, <2>4, <2>5
<1>2. ASSUME NEW kind \in {"act", "wait"}, Call(kind) PROVE InstructionInv'
  <2>1. Flags'
    BY <1>2 DEF Call, Flags
  <2>2. Numbers'
    BY <1>2 DEF Call, Flags, Numbers, Places, Pending, Answered
  <2>3. Places'
    BY <1>2 DEF Call, Places, Reports, Bails
  <2>4. Pending' /\ Heard'
    BY <1>2 DEF Call, Flags, Numbers, Places, Pending, Answered, Heard
  <2>5. Holding' /\ ReportMeans' /\ ReportGetsThrough'
    BY <1>2 DEF Call, Numbers, Heard, Holding, ReportMeans, VerdictMeans, ValuesKept, ReportGetsThrough
  <2> QED BY <2>1, <2>2, <2>3, <2>4, <2>5
<1>3. CASE ActorReturns
  <2>1. Flags'
    BY <1>3 DEF ActorReturns, Flags
  <2>2. Numbers'
    BY <1>3 DEF ActorReturns, Flags, Numbers, Places, Pending, Answered
  <2>3. Places'
    BY <1>3 DEF ActorReturns, Places, Reports, Bails
  <2>4. Pending' /\ Heard'
    BY <1>3 DEF ActorReturns, Flags, Numbers, Places, Pending, Answered, Heard
  <2>5. Holding' /\ ReportMeans' /\ ReportGetsThrough'
    BY <1>3 DEF ActorReturns, Numbers, Heard, Holding, ReportMeans, VerdictMeans, ValuesKept, ReportGetsThrough
  <2> QED BY <2>1, <2>2, <2>3, <2>4, <2>5
<1>4. CASE Return
  <2>1. Flags'
    BY <1>4 DEF Return, Counts, Looping, Gestures, Flags
  <2>2. Numbers'
    BY <1>4 DEF Return, Counts, Looping, Gestures, Flags, Numbers, Places, Pending, Answered
  <2>3. Places'
    BY <1>4 DEF Return, Counts, Looping, Gestures, Places, Reports, Bails
  <2>4. Pending' /\ Heard'
    BY <1>4 DEF Return, Counts, Looping, Gestures, Flags, Numbers, Places, Pending, Answered, Heard
  <2>5. Holding' /\ ReportMeans' /\ ReportGetsThrough'
    BY <1>4 DEF Return, Counts, Looping, Gestures, Numbers, Heard, Holding, ReportMeans, VerdictMeans, ValuesKept, ReportGetsThrough
  <2> QED BY <2>1, <2>2, <2>3, <2>4, <2>5
<1>5. CASE Invalid
  <2>1. Flags'
    BY <1>5 DEF Invalid, Flags
  <2>2. Numbers'
    BY <1>5 DEF Invalid, Flags, Numbers, Places, Pending, Answered
  <2>3. Places'
    BY <1>5 DEF Invalid, Places, Reports, Bails
  <2>4. Pending' /\ Heard'
    BY <1>5 DEF Invalid, Flags, Numbers, Places, Pending, Answered, Heard
  <2>5. Holding' /\ ReportMeans' /\ ReportGetsThrough'
    BY <1>5 DEF Invalid, Numbers, Heard, Holding, ReportMeans, VerdictMeans, ValuesKept, ReportGetsThrough
  <2> QED BY <2>1, <2>2, <2>3, <2>4, <2>5
<1> QED BY <1>1, <1>2, <1>3, <1>4, <1>5

\* A report is held back or taken.
LEMMA ReportStep ==
  ASSUME InstructionInv, NEW what \in Reports, NEW names \in SUBSET Names, Report(what, names)
  PROVE  InstructionInv'
<1> USE BoundsAssumption DEF InstructionInv, Goto, Finish, Handling, StubRest,
      given, turns, holding, gestures, acting, calls, signals, result
<1>1. CASE Hold(what, names)
  <2> PICK h \in Holds :
        /\ Asks(h, what)
        /\ asked' = asked \cup {h}
        /\ held' = IF h \in {"naming", "sourcing"} THEN names ELSE held
        /\ ever' = IF h \in {"naming", "sourcing"} THEN ever \cup names ELSE ever
        /\ IF h = "sourcing" THEN sought' \in SUBSET names ELSE UNCHANGED sought
    BY <1>1 DEF Hold
  <2>1. Flags'
    BY <1>1 DEF Hold, Flags
  <2>2. Numbers'
    BY <1>1 DEF Hold, Numbers, Pending, Answered
  <2>3. Places'
    BY <1>1 DEF Hold, Places
  <2>4. Pending' /\ Heard'
    BY <1>1 DEF Hold, Flags, Numbers, Pending, Heard, RoomToHold
  <2>5. Holding'
    BY <1>1 DEF Hold, Holding, Holds, Asks
  <2>6. ReportMeans' /\ ReportGetsThrough'
    BY <1>1 DEF Hold, Holding, ReportMeans, VerdictMeans, ValuesKept, ReportGetsThrough
  <2> QED BY <2>1, <2>2, <2>3, <2>4, <2>5, <2>6
<1>2. CASE Accept(what, names)
  <2>1. PICK read \in SUBSET sought : values' = names \cup (held \ read)
    BY <1>2 DEF Accept, Merged
  <2>2. Filed(what) \in Reports
    BY DEF Filed, Reports
  <2>3. Flags'
    BY <1>2 DEF Accept, Flags
  <2>4. Numbers'
    BY <1>2 DEF Accept, Numbers, Pending, Answered
  <2>5. Places'
    BY <1>2, <2>1, <2>2 DEF Accept, Places, Bails
  <2>6. Pending' /\ Heard'
    BY <1>2 DEF Accept, Pending, Heard
  <2>7. Holding' /\ ValuesKept'
    BY <1>2, <2>1 DEF Accept, Holding, ValuesKept
  <2>8. VerdictMeans' /\ ReportGetsThrough'
    BY <1>2 DEF Report, Accept, VerdictMeans, ReportGetsThrough, Filed
  <2> QED BY <2>3, <2>4, <2>5, <2>6, <2>7, <2>8 DEF ReportMeans
<1> QED BY <1>1, <1>2 DEF Report

\* The second attempt, the end, and the signals.
LEMMA EndStep ==
  ASSUME InstructionInv, Escalate \/ HandBack \/ Stop \/ Deadline
  PROVE  InstructionInv'
<1> USE BoundsAssumption DEF InstructionInv, Goto, Finish,
      given, turns, holding, gestures, acting, calls, signals, result
<1>1. CASE Escalate
  <2>1. Flags'
    BY <1>1 DEF Escalate, Flags
  <2>2. Numbers'
    BY <1>1, Raised DEF Escalate, Flags, Numbers, Places, Pending, Answered
  <2>3. Places'
    BY <1>1 DEF Escalate, Places, Reports, Bails
  <2>4. Pending' /\ Heard'
    BY <1>1, Raised DEF Escalate, Flags, Numbers, Places, Pending, Answered, Heard
  <2>5. Holding' /\ ReportMeans' /\ ReportGetsThrough'
    BY <1>1 DEF Escalate, Numbers, Heard, Holding, ReportMeans, VerdictMeans, ValuesKept, ReportGetsThrough
  <2> QED BY <2>1, <2>2, <2>3, <2>4, <2>5
<1>2. CASE HandBack
  <2>1. Flags'
    BY <1>2 DEF HandBack, Flags
  <2>2. Numbers'
    BY <1>2 DEF HandBack, Flags, Numbers, Places, Pending, Answered
  <2>3. Places'
    BY <1>2 DEF HandBack, Places, Reports, Bails
  <2>4. Pending' /\ Heard'
    BY <1>2 DEF HandBack, Flags, Numbers, Places, Pending, Answered, Heard
  <2>5. Holding' /\ ReportMeans' /\ ReportGetsThrough'
    BY <1>2 DEF HandBack, Numbers, Heard, Holding, ReportMeans, VerdictMeans, ValuesKept, ReportGetsThrough
  <2> QED BY <2>1, <2>2, <2>3, <2>4, <2>5
<1>3. CASE Stop
  <2>1. Flags'
    BY <1>3 DEF Stop, Flags
  <2>2. Numbers'
    BY <1>3 DEF Stop, Flags, Numbers, Places, Pending, Answered
  <2>3. Places'
    BY <1>3 DEF Stop, Places, Reports, Bails
  <2>4. Pending' /\ Heard'
    BY <1>3 DEF Stop, Flags, Numbers, Places, Pending, Answered, Heard
  <2>5. Holding' /\ ReportMeans' /\ ReportGetsThrough'
    BY <1>3 DEF Stop, Numbers, Heard, Holding, ReportMeans, VerdictMeans, ValuesKept, ReportGetsThrough
  <2> QED BY <2>1, <2>2, <2>3, <2>4, <2>5
<1>4. CASE Deadline
  <2>1. Flags'
    BY <1>4 DEF Deadline, Flags
  <2>2. Numbers'
    BY <1>4 DEF Deadline, Flags, Numbers, Places, Pending, Answered
  <2>3. Places'
    BY <1>4 DEF Deadline, Places, Reports, Bails
  <2>4. Pending' /\ Heard'
    BY <1>4 DEF Deadline, Flags, Numbers, Places, Pending, Answered, Heard
  <2>5. Holding' /\ ReportMeans' /\ ReportGetsThrough'
    BY <1>4 DEF Deadline, Numbers, Heard, Holding, ReportMeans, VerdictMeans, ValuesKept, ReportGetsThrough
  <2> QED BY <2>1, <2>2, <2>3, <2>4, <2>5
<1> QED BY <1>1, <1>2, <1>3, <1>4

LEMMA InstructionInvariant == Spec => []InstructionInv
<1>1. InstructionInv /\ [Next]_vars => InstructionInv'
  <2> SUFFICES ASSUME InstructionInv, [Next]_vars PROVE InstructionInv'
    OBVIOUS
  <2>1. CASE UNCHANGED vars
    BY <2>1 DEF vars, given, turns, holding, gestures, acting, calls, signals, result, InstructionInv, Flags, Numbers, Places, Answered,
       Pending, Holding, Heard, ReportMeans, VerdictMeans, ValuesKept, ReportGetsThrough
  <2>2. CASE Next
    BY <2>2, TurnStep, CallStep, ReportStep, EndStep DEF Next, Step
  <2> QED BY <2>1, <2>2
<1> QED BY InitInv, <1>1, PTL DEF Spec

\* Every tool call has its result whenever the history is sent, however a turn
\* ends, and every state has its type.
THEOREM HistoryIsWhole == Spec => []InstructionOK
<1>1. InstructionInv => InstructionOK
  BY Types DEF InstructionInv
<1> QED BY InstructionInvariant, <1>1, PTL

\* A verdict was checked, and a report keeps the values that were held back.
THEOREM ReportsMean == Spec => []ReportMeans
<1>1. InstructionInv => ReportMeans
  BY DEF InstructionInv
<1> QED BY InstructionInvariant, <1>1, PTL

\* No hold costs a completed instruction its report, whatever the cap.
THEOREM ReportsGetThrough == Spec => []ReportGetsThrough
<1>1. InstructionInv => ReportGetsThrough
  BY DEF InstructionInv
<1> QED BY InstructionInvariant, <1>1, PTL

\* After a stop no model is asked, and nothing is tried again.
THEOREM StopsAreFinal == Spec => StopIsFinal
<1>1. [Next]_vars => [stop => attempt' = attempt /\ (pc' = "ask" => pc = "ask")]_vars
  <2> SUFFICES ASSUME Next PROVE stop => attempt' = attempt /\ (pc' = "ask" => pc = "ask")
    OBVIOUS
  <2> USE DEF Goto, Finish, NextTurn, Unproductive, turns, calls
  <2>1. CASE Start \/ Top \/ ActorActs \/ Complete \/ GivenUp \/ Throw \/ TurnEnds
    BY <2>1 DEF Start, Top, ActorActs, Complete, GivenUp, Throw, TurnEnds
  <2>2. CASE Malformed \/ Call("act") \/ Call("wait") \/ ActorReturns \/ Return \/ Invalid
    BY <2>2 DEF Malformed, Call, ActorReturns, Return, Invalid, Handling
  <2>3. ASSUME NEW what \in Reports, NEW names \in SUBSET Names, Report(what, names)
        PROVE  stop => attempt' = attempt /\ (pc' = "ask" => pc = "ask")
    BY <2>3 DEF Report, Hold, Accept
  <2>4. CASE Escalate \/ HandBack \/ Stop \/ Deadline
    BY <2>4 DEF Escalate, Escalates, HandBack, Stop, Deadline
  <2> QED BY <2>1, <2>2, <2>3, <2>4 DEF Next, Step
<1> QED BY <1>1, PTL DEF Spec, StopIsFinal
=============================================================================
