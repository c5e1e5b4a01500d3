---------------------------- MODULE DaemonProofs ----------------------------
(***************************************************************************)
(* What holds of Daemon for any number of commands of each kind.           *)
(***************************************************************************)
EXTENDS Daemon, SequenceTheorems, FiniteSetTheorems, TLAPS

\* The tool calls and the commands keep their types, which is all the
\* theorems below need of TypeOK.
CmdType ==
    /\ phase \in [Request -> {"unsent", "queued", "running", "done", "lost"}]
    /\ inflight \in Do \cup {None}
    /\ call \in [Do -> {"none", "prep", "checked", "sent"}]
    /\ aborted \subseteq Do

LEMMA CmdTyped == Spec => []CmdType
<1> USE KindAssumption DEF CmdType, Request, Queued
<1>1. Init => CmdType
  BY DEF Init
<1>2. CmdType /\ [Next]_vars => CmdType'
  <2> SUFFICES ASSUME CmdType, [Next]_vars PROVE CmdType'
    OBVIOUS
  <2>1. CASE UNCHANGED vars
    BY <2>1 DEF vars, cmdVars, instrVars
  <2>2. CASE Arrive
    BY <2>2 DEF Arrive, Enqueue, Unqueued, StopCall, Sent, Answer, AbortedNow, instrVars
  <2>3. CASE Begin
    BY <2>3 DEF Begin, BeginDo, RefuseDo, BeginLook, Next1, Answer, instrVars
  <2>4. ASSUME NEW r \in Look \cup Shot, PageStep(r) PROVE CmdType'
    BY <2>4 DEF PageStep, Look1, LookFails, PageCommand, Answer, instrVars
  <2>5. ASSUME NEW r \in Do, DoStep(r) PROVE CmdType'
    BY <2>5 DEF DoStep, Call, Check, Dispatch, Land, Miss, Settle, Abandon, Finish, Answer, cmdVars
  <2>6. CASE Launch \/ Launched \/ Attached \/ LaunchFails \/ BrowserDies
    BY <2>6 DEF Launch, Launched, Attached, LaunchFails, BrowserDies, cmdVars, instrVars
  <2>7. ASSUME NEW s \in Stop, StopStep(s) PROVE CmdType'
    BY <2>7 DEF StopStep, Export, CloseBrowser, BrowserClosed, Closed, Reply, ClosedAgain, Exit, Answer, cmdVars, instrVars
  <2> QED
    BY <2>1, <2>2, <2>3, <2>4, <2>5, <2>6, <2>7 DEF Next
<1> QED
  BY <1>1, <1>2, PTL DEF Spec

\* stop aborts exactly the instruction that is running, however commands,
\* deadlines, refusals and other stops interleave.
THEOREM StopReachesTheRunning == Spec => []InflightRuns
<1> USE KindAssumption DEF InflightRuns, Running, Request, Queued
<1>1. Init => InflightRuns
  BY DEF Init
<1>2. CmdType /\ InflightRuns /\ [Next]_vars => InflightRuns'
  <2> SUFFICES ASSUME CmdType, InflightRuns, [Next]_vars PROVE InflightRuns'
    OBVIOUS
  <2> USE DEF CmdType
  <2>1. CASE UNCHANGED vars
    BY <2>1 DEF vars, cmdVars
  <2>2. CASE Arrive
    BY <2>2 DEF Arrive, Enqueue, Unqueued, StopCall, Sent, Answer
  <2>3. CASE Begin
    BY <2>3 DEF Begin, BeginDo, RefuseDo, BeginLook, Next1, Idle, Answer
  <2>4. ASSUME NEW r \in Look \cup Shot, PageStep(r) PROVE InflightRuns'
    BY <2>4 DEF PageStep, Look1, LookFails, PageCommand, Answer
  <2>5. ASSUME NEW r \in Do, DoStep(r) PROVE InflightRuns'
    BY <2>5 DEF DoStep, Call, Check, Dispatch, Land, Miss, Settle, Abandon, Finish, Answer, cmdVars
  <2>6. CASE Launch \/ Launched \/ Attached \/ LaunchFails \/ BrowserDies
    BY <2>6 DEF Launch, Launched, Attached, LaunchFails, BrowserDies, cmdVars
  <2>7. ASSUME NEW s \in Stop, StopStep(s) PROVE InflightRuns'
    BY <2>7 DEF StopStep, Export, CloseBrowser, BrowserClosed, Closed, Reply, ClosedAgain, Exit, Answer, cmdVars
  <2> QED
    BY <2>1, <2>2, <2>3, <2>4, <2>5, <2>6, <2>7 DEF Next
<1> QED
  BY <1>1, <1>2, CmdTyped, PTL DEF Spec

\* What an aborted instruction has sent, with the call that is past its look at
\* the signal, is one action at most.
OverrunInv ==
    /\ overran \in [Do -> Nat]
    /\ \A r \in Do : r \notin aborted => overran[r] = 0
    /\ \A r \in Do : overran[r] <= 1 /\ (call[r] = "checked" /\ r \in aborted => overran[r] = 0)

LEMMA OverrunInvariant == Spec => []OverrunInv
<1>1. Init => OverrunInv
  BY DEF Init, OverrunInv
<1>2. CmdType /\ OverrunInv /\ [Next]_vars => OverrunInv'
  <2> SUFFICES ASSUME CmdType, OverrunInv, [Next]_vars PROVE OverrunInv'
    OBVIOUS
  <2> USE DEF CmdType, OverrunInv
  <2>1. CASE UNCHANGED <<call, aborted, overran>>
    BY <2>1
  <2>2. CASE Arrive
    BY <2>2 DEF Arrive, Enqueue, Unqueued, StopCall, AbortedNow, instrVars
  <2>3. CASE Begin
    BY <2>1, <2>3 DEF Begin, BeginDo, RefuseDo, BeginLook, instrVars
  <2>4. ASSUME NEW r \in Look \cup Shot, PageStep(r) PROVE OverrunInv'
    BY <2>1, <2>4 DEF PageStep, Look1, LookFails, instrVars
  <2>5. ASSUME NEW r \in Do, DoStep(r) PROVE OverrunInv'
    <3>1. CASE Dispatch(r)
      <4>1. /\ call[r] = "checked" /\ call' = [call EXCEPT ![r] = "sent"] /\ aborted' = aborted
            /\ overran' = IF r \in aborted THEN [overran EXCEPT ![r] = @ + 1] ELSE overran
        BY <3>1 DEF Dispatch
      <4>2. CASE r \in aborted
        <5>1. overran[r] = 0
          BY <4>1, <4>2
        <5>2. overran' \in [Do -> Nat] /\ overran'[r] = 1 /\ \A q \in Do \ {r} : overran'[q] = overran[q]
          BY <4>1, <4>2, <5>1
        <5> QED BY <4>1, <4>2, <5>2
      <4> QED BY <4>1, <4>2
    <3>2. CASE Check(r)
      BY <3>2 DEF Check, Ended
    <3> QED BY <2>5, <3>1, <3>2 DEF DoStep, Call, Land, Miss, Settle, Abandon, Finish
  <2>6. CASE Launch \/ Launched \/ Attached \/ LaunchFails \/ BrowserDies
    BY <2>1, <2>6 DEF Launch, Launched, Attached, LaunchFails, BrowserDies, instrVars
  <2>7. ASSUME NEW s \in Stop, StopStep(s) PROVE OverrunInv'
    BY <2>7 DEF StopStep, Export, CloseBrowser, BrowserClosed, Closed, Reply, ClosedAgain, Exit, instrVars
  <2> QED
    BY <2>1, <2>2, <2>3, <2>4, <2>5, <2>6, <2>7 DEF Next, vars, instrVars
<1> QED
  BY <1>1, <1>2, CmdTyped, PTL DEF Spec

\* The abort stops an instruction from sending, but for the one call that had
\* passed its look at the signal and was still awaiting the page.
THEOREM StoppedSendsOneAtMost == Spec => []OneOverrunAtMost
<1>1. OverrunInv => OneOverrunAtMost
  BY DEF OverrunInv, OneOverrunAtMost
<1> QED
  BY <1>1, OverrunInvariant, PTL

----------------------------------------------------------------------------
\* No stop has begun to close the browser.
Early == \A s \in Stop : stopAt[s] \in {"off", "drain", "close"}

\* One launch at a time, none beside a context, and the session knows the
\* live browser until a stop closes it.
BrowserInv ==
    /\ stopAt \in [Stop -> {"off", "drain", "close", "closing", "reply", "closing2", "exit"}]
    /\ \A s \in Stop : phase[s] = "unsent" => stopAt[s] = "off"
    /\ context \in {"none", "live", "dead"} /\ fresh \in {"none", "live", "dead"}
    /\ launching \in {0, 1}
    /\ context # "none" => launching = 0
    /\ fresh # "none" => launching = 1
    /\ Early => browsers = IF context = "live" \/ fresh = "live" THEN 1 ELSE 0

LEMMA BrowserInvariant == Spec => []BrowserInv
<1> USE KindAssumption DEF Request, Queued
<1>1. Init => BrowserInv
  BY DEF Init, BrowserInv, Early
<1>2. CmdType /\ BrowserInv /\ [Next]_vars => BrowserInv'
  <2> SUFFICES ASSUME CmdType, BrowserInv, [Next]_vars PROVE BrowserInv'
    OBVIOUS
  <2> USE DEF CmdType, BrowserInv, Early
  <2>1. CASE UNCHANGED vars
    BY <2>1 DEF vars, cmdVars, browserVars, stopVars
  <2>2. CASE Arrive
    <3>1. ASSUME NEW s \in Stop, StopCall(s) PROVE BrowserInv'
      BY <3>1 DEF StopCall, Sent, Answer, ExportTo, StopTo, browserVars
    <3> QED
      BY <2>2, <3>1 DEF Arrive, Enqueue, Unqueued, Sent, Answer, browserVars, stopVars
  <2>3. CASE Begin
    BY <2>3 DEF Begin, BeginDo, RefuseDo, BeginLook, Next1, Answer, browserVars, stopVars
  <2>4. ASSUME NEW r \in Look \cup Shot, PageStep(r) PROVE BrowserInv'
    BY <2>4 DEF PageStep, Look1, LookFails, PageCommand, Answer, browserVars, stopVars
  <2>5. ASSUME NEW r \in Do, DoStep(r) PROVE BrowserInv'
    BY <2>5 DEF DoStep, Call, Check, Dispatch, Land, Miss, Settle, Abandon, Finish, Answer, cmdVars, browserVars, stopVars
  <2>6. CASE Launch \/ Launched \/ Attached \/ LaunchFails \/ BrowserDies
    <3>1. CASE Launch
      BY <3>1 DEF Launch, cmdVars, stopVars
    <3>2. CASE Launched
      <4>1. context = "none" /\ fresh = "none" /\ launching = 1
        BY <3>2 DEF Launched
      <4> QED
        BY <3>2, <4>1 DEF Launched, cmdVars, stopVars
    <3>3. CASE Attached
      <4>1. context = "none" /\ launching = 1
        BY <3>3 DEF Attached
      <4> QED
        BY <3>3, <4>1 DEF Attached, cmdVars, stopVars
    <3>4. CASE LaunchFails
      BY <3>4 DEF LaunchFails, cmdVars, stopVars
    <3>5. CASE BrowserDies
      <4>1. UNCHANGED <<phase, stopAt, launching>> /\ browsers' = browsers - 1
        BY <3>5 DEF BrowserDies, cmdVars, stopVars
      <4>2. CASE context = "live" /\ context' = "none" /\ fresh' = fresh
        <5>1. fresh = "none"
          BY <4>2
        <5> QED BY <4>1, <4>2, <5>1
      <4>3. CASE fresh = "live" /\ fresh' = "dead" /\ context' = context
        <5>1. context = "none"
          BY <4>3
        <5> QED BY <4>1, <4>3, <5>1
      <4> QED
        BY <3>5, <4>2, <4>3 DEF BrowserDies
    <3> QED
      BY <2>6, <3>1, <3>2, <3>3, <3>4, <3>5
  <2>7. ASSUME NEW s \in Stop, StopStep(s) PROVE BrowserInv'
    <3>1. CASE Export(s)
      BY <3>1 DEF Export, ExportTo, StopTo, cmdVars, browserVars
    <3>2. CASE CloseBrowser(s)
      BY <3>2 DEF CloseBrowser, CloseFrom, StopTo, cmdVars
    <3>3. CASE BrowserClosed(s) \/ ClosedAgain(s)
      BY <3>3 DEF BrowserClosed, ClosedAgain, Closed, StopTo, cmdVars
    <3>4. CASE Reply(s)
      BY <3>4 DEF Reply, CloseFrom, StopTo, Answer
    <3>5. CASE Exit(s)
      BY <3>5 DEF Exit
    <3> QED
      BY <2>7, <3>1, <3>2, <3>3, <3>4, <3>5 DEF StopStep
  <2> QED
    BY <2>1, <2>2, <2>3, <2>4, <2>5, <2>6, <2>7 DEF Next
<1> QED
  BY <1>1, <1>2, CmdTyped, PTL DEF Spec

\* A screenshot beside a first launch, a crash, or a failed launch orphans
\* no browser while no stop is closing it.
THEOREM NoBrowserOrphaned == Spec => []BrowserOwned
<1>1. BrowserInv => BrowserOwned
  BY DEF BrowserInv, Early, BrowserOwned
<1> QED
  BY <1>1, BrowserInvariant, PTL

----------------------------------------------------------------------------
\* Since r's mark, only r recorded, or an instruction that was abandoned.
OwnSince(r) ==
    \A i \in (mark[r] + 1)..Len(record) : record[i] = r \/ Ended(record[i])

\* The instruction that is between its begin and its answer is the one in
\* flight, and a call nobody waits for belongs to an abandoned instruction.
LearnInv ==
    /\ at \in [Do -> {"off", "turn", "tool"}]
    /\ record \in Seq(Queued)
    /\ mark \in [Do -> Nat]
    /\ took \in [Do -> Seq(Queued)]
    /\ \A r \in Do : at[r] # "off" => inflight = r /\ OwnSince(r)
    /\ \A r \in Do : call[r] # "none" => at[r] = "tool" \/ Ended(r)
    /\ LearnsOwnUnlessAbandoned

\* What a finished instruction takes from the recording.
LEMMA TakenElements ==
    ASSUME NEW r \in Do, record \in Seq(Queued), mark[r] \in Nat
    PROVE  /\ Taken(r) \in Seq(Queued)
           /\ \A i \in 1..Len(Taken(r)) :
                 mark[r] + i \in (mark[r] + 1)..Len(record) /\ Taken(r)[i] = record[mark[r] + i]
<1>1. \A i \in (mark[r] + 1)..Len(record) : record[i] \in Queued
  OBVIOUS
<1>2. /\ Taken(r) \in Seq(Queued)
      /\ Len(Taken(r)) = IF mark[r] + 1 <= Len(record) THEN Len(record) - (mark[r] + 1) + 1 ELSE 0
      /\ \A i \in 1..(Len(record) - (mark[r] + 1) + 1) : Taken(r)[i] = record[(mark[r] + 1) + i - 1]
  <2>1. Len(record) \in Int /\ mark[r] + 1 \in Int
    OBVIOUS
  <2> QED
    BY <1>1, <2>1, SubSeqProperties DEF Taken
<1> QED
  BY <1>2

\* The promise chain runs one queued command at a time.
OneRuns == \A q, r \in Queued : Running(q) /\ Running(r) => q = r

LEMMA OneAtATime == Spec => []OneRuns
<1> USE KindAssumption DEF Request, Queued
<1>1. Init => OneRuns
  BY DEF Init, OneRuns, Running
<1>2. CmdType /\ OneRuns /\ [Next]_vars => OneRuns'
  <2> SUFFICES ASSUME CmdType, OneRuns, [Next]_vars PROVE OneRuns'
    OBVIOUS
  <2>1. CASE phase' = phase
    BY <2>1 DEF OneRuns, Running
  <2>2. ASSUME NEW r \in Request, NEW how, how = "running" => Idle \/ r \notin Queued, phase' = [phase EXCEPT ![r] = how]
        PROVE  OneRuns'
    BY <2>2 DEF CmdType, OneRuns, Running, Idle
  <2>3. CASE Arrive
    BY <2>2, <2>3 DEF Arrive, Enqueue, Unqueued, StopCall, Answer
  <2>4. CASE Begin
    BY <2>2, <2>4 DEF Begin, BeginDo, RefuseDo, BeginLook, Next1, Answer
  <2>5. ASSUME NEW r \in Look \cup Shot, PageStep(r) PROVE OneRuns'
    BY <2>2, <2>5 DEF PageStep, Look1, LookFails, Answer
  <2>6. ASSUME NEW r \in Do, DoStep(r) PROVE OneRuns'
    BY <2>1, <2>2, <2>6 DEF DoStep, Call, Check, Dispatch, Land, Miss, Settle, Abandon, Finish, Answer, cmdVars
  <2>7. CASE Launch \/ Launched \/ Attached \/ LaunchFails \/ BrowserDies
    BY <2>1, <2>7 DEF Launch, Launched, Attached, LaunchFails, BrowserDies, cmdVars
  <2>8. ASSUME NEW s \in Stop, StopStep(s) PROVE OneRuns'
    <3>1. CASE Exit(s)
      BY <3>1 DEF Exit, CmdType, OneRuns, Running
    <3>2. CASE Reply(s)
      BY <2>2, <3>2 DEF Reply, Answer
    <3> QED
      BY <2>1, <2>8, <3>1, <3>2 DEF StopStep, Export, CloseBrowser, BrowserClosed, Closed, ClosedAgain, cmdVars
  <2> QED
    BY <2>1, <2>3, <2>4, <2>5, <2>6, <2>7, <2>8 DEF Next, vars, cmdVars
<1> QED
  BY <1>1, <1>2, CmdTyped, PTL DEF Spec

LEMMA LearnInvariant == Spec => []LearnInv
<1> USE KindAssumption DEF Request, Queued
<1>1. Init => LearnInv
  BY DEF Init, LearnInv, LearnsOwnUnlessAbandoned
<1>2. CmdType /\ InflightRuns /\ OneRuns /\ LearnInv /\ [Next]_vars => LearnInv'
  <2> SUFFICES ASSUME CmdType, InflightRuns, OneRuns, LearnInv, [Next]_vars PROVE LearnInv'
    OBVIOUS
  <2> USE DEF CmdType, LearnInv
  <2>0. ASSUME aborted \subseteq aborted', late \subseteq late', UNCHANGED <<record, took, mark>>
        PROVE  /\ LearnsOwnUnlessAbandoned'
               /\ \A r \in Do : OwnSince(r) => OwnSince(r)'
    BY <2>0 DEF LearnsOwnUnlessAbandoned, OwnSince, Ended
  <2>1. CASE UNCHANGED <<inflight, aborted, late, at, call, record, mark, took>>
    BY <2>0, <2>1 DEF Ended
  <2>2. CASE Arrive
    <3>1. ASSUME NEW s \in Stop, StopCall(s) PROVE LearnInv'
      BY <2>0, <3>1 DEF StopCall, AbortedNow, Ended
    <3> QED
      BY <2>1, <2>2, <3>1 DEF Arrive, Enqueue, Unqueued, instrVars
  <2>3. CASE Begin
    <3>1. ASSUME NEW r \in Do, BeginDo(r) PROVE LearnInv'
      <4>1. \A q \in Do : at[q] = "off"
        BY <3>1 DEF BeginDo, Next1, Idle, InflightRuns, Running
      <4>2. /\ at' = [at EXCEPT ![r] = "turn"] /\ inflight' = r
            /\ mark' = [mark EXCEPT ![r] = Len(record)]
            /\ UNCHANGED <<aborted, late, call, record, took>>
        BY <3>1 DEF BeginDo
      <4>3. OwnSince(r)'
        BY <4>2 DEF OwnSince
      <4>4. LearnsOwnUnlessAbandoned'
        BY <4>2 DEF LearnsOwnUnlessAbandoned, Ended
      <4>5. \A q \in Do : at'[q] # "off" => q = r
        BY <4>1, <4>2
      <4>6. \A q \in Do : call'[q] # "none" => Ended(q)'
        BY <4>1, <4>2 DEF Ended
      <4> QED
        BY <4>2, <4>3, <4>4, <4>5, <4>6
    <3>2. ASSUME NEW r \in Queued, RefuseDo(r) \/ BeginLook(r) PROVE LearnInv'
      BY <2>1, <3>2 DEF RefuseDo, BeginLook, instrVars
    <3> QED
      BY <2>3, <3>1, <3>2 DEF Begin
  <2>4. ASSUME NEW r \in Look \cup Shot, PageStep(r) PROVE LearnInv'
    <3>1. CASE UNCHANGED record
      BY <2>1, <2>4, <3>1 DEF PageStep, Look1, LookFails, instrVars
    <3>2. CASE Look1(r) /\ r \in Look /\ record' = Append(record, r)
      <4>1. Running(r) /\ UNCHANGED <<inflight, aborted, late, at, call, mark, took>>
        BY <3>2 DEF Look1, PageCommand
      <4>2. \A q \in Do : at[q] = "off"
        BY <3>2, <4>1 DEF OneRuns, InflightRuns
      <4>3. record' \in Seq(Queued)
        BY <3>2, AppendProperties
      <4>4. LearnsOwnUnlessAbandoned'
        BY <4>1 DEF LearnsOwnUnlessAbandoned, Ended
      <4> QED
        BY <4>1, <4>2, <4>3, <4>4 DEF Ended
    <3> QED
      BY <2>4, <3>1, <3>2 DEF PageStep, Look1, LookFails, instrVars
  <2>5. ASSUME NEW r \in Do, DoStep(r) PROVE LearnInv'
    <3>1. CASE Call(r) \/ Check(r) \/ Dispatch(r)
      BY <2>0, <3>1 DEF Call, Check, Dispatch, cmdVars, Ended
    <3>2. CASE Land(r)
      <4>1. /\ call[r] = "sent" /\ record' = Append(record, r)
            /\ call' = [call EXCEPT ![r] = "none"]
            /\ at' = [at EXCEPT ![r] = IF @ = "tool" THEN "turn" ELSE @]
            /\ UNCHANGED <<inflight, aborted, late, mark, took>>
        BY <3>2 DEF Land, Settle, cmdVars
      <4>2. /\ record' \in Seq(Queued) /\ Len(record') = Len(record) + 1
            /\ \A i \in 1..Len(record) : record'[i] = record[i]
            /\ record'[Len(record) + 1] = r
        BY <4>1, AppendProperties
      <4>3. \A q \in Do : at'[q] # "off" <=> at[q] # "off"
        BY <4>1
      <4>4. ASSUME NEW q \in Do, at[q] # "off" PROVE OwnSince(q)'
        <5>1. r = q \/ Ended(r)
          BY <4>1, <4>4
        <5>2. Len(record) \in Nat /\ mark[q] \in Nat
          OBVIOUS
        <5>3. \A i \in (mark[q] + 1)..Len(record) : record[i] = q \/ Ended(record[i])
          BY <4>4 DEF OwnSince
        <5>4. ASSUME NEW i \in (mark[q] + 1)..(Len(record) + 1)
              PROVE  record'[i] = q \/ record'[i] \in aborted' \/ record'[i] \in late'
          <6>1. CASE i = Len(record) + 1
            BY <4>1, <4>2, <5>1, <6>1 DEF Ended
          <6>2. CASE i # Len(record) + 1
            <7>1. i \in (mark[q] + 1)..Len(record)
              BY <5>2, <6>2
            <7>2. i \in 1..Len(record)
              BY <5>2, <7>1
            <7>3. record'[i] = record[i]
              BY <4>2, <7>2
            <7>4. record[i] = q \/ Ended(record[i])
              BY <5>3, <7>1
            <7> QED
              BY <4>1, <7>3, <7>4 DEF Ended
          <6> QED
            BY <6>1, <6>2
        <5>5. mark'[q] = mark[q] /\ Len(record') = Len(record) + 1
          BY <4>1, <4>2
        <5> HIDE DEF CmdType, LearnInv
        <5> QED
          BY <5>4, <5>5 DEF OwnSince, Ended
      <4>5. LearnsOwnUnlessAbandoned'
        BY <4>1 DEF LearnsOwnUnlessAbandoned, Ended
      <4>6. \A q \in Do : call'[q] # "none" => at'[q] = "tool" \/ Ended(q)'
        BY <4>1 DEF Ended
      <4> QED
        BY <4>1, <4>2, <4>3, <4>4, <4>5, <4>6
    <3>3. CASE Miss(r)
      BY <2>0, <3>3 DEF Miss, Settle, cmdVars, Ended
    <3>4. CASE Abandon(r)
      BY <2>0, <3>4 DEF Abandon, cmdVars, Ended
    <3>5. CASE Finish(r)
      <4>1. /\ at[r] = "turn" /\ at' = [at EXCEPT ![r] = "off"]
            /\ took' = [took EXCEPT ![r] = Taken(r)] /\ mark' = [mark EXCEPT ![r] = 0]
            /\ inflight' = IF inflight = r THEN None ELSE inflight
            /\ UNCHANGED <<aborted, late, call, record>>
        BY <3>5 DEF Finish
      <4>2. /\ Taken(r) \in Seq(Queued)
            /\ \A i \in 1..Len(Taken(r)) : Taken(r)[i] = r \/ Ended(Taken(r)[i])
        BY <4>1, TakenElements DEF OwnSince
      <4>3. LearnsOwnUnlessAbandoned'
        BY <4>1, <4>2 DEF LearnsOwnUnlessAbandoned, Ended
      <4>4. \A q \in Do : at'[q] = "off"
        BY <4>1
      <4>5. \A q \in Do : call'[q] # "none" => at'[q] = "tool" \/ Ended(q)'
        BY <4>1 DEF Ended
      <4> QED
        BY <4>1, <4>2, <4>3, <4>4, <4>5
    <3> QED
      BY <2>5, <3>1, <3>2, <3>3, <3>4, <3>5 DEF DoStep
  <2>6. CASE Launch \/ Launched \/ Attached \/ LaunchFails \/ BrowserDies
    BY <2>1, <2>6 DEF Launch, Launched, Attached, LaunchFails, BrowserDies, cmdVars, instrVars
  <2>7. ASSUME NEW s \in Stop, StopStep(s) PROVE LearnInv'
    <3>1. CASE Exit(s)
      BY <3>1 DEF Exit, LearnsOwnUnlessAbandoned, Ended
    <3> QED
      BY <2>1, <2>7, <3>1 DEF StopStep, Export, CloseBrowser, BrowserClosed, Closed, Reply, ClosedAgain, cmdVars, instrVars
  <2> QED
    BY <2>1, <2>2, <2>3, <2>4, <2>5, <2>6, <2>7 DEF Next, vars, cmdVars, instrVars
<1> QED
  BY <1>1, <1>2, CmdTyped, StopReachesTheRunning, OneAtATime, PTL DEF Spec

\* Nobody's step is learned by another instruction, however stops, deadlines
\* and late landings interleave, unless it was made by an abandoned call.
THEOREM LearningIsExact == Spec => []LearnsOwnUnlessAbandoned
<1>1. LearnInv => LearnsOwnUnlessAbandoned
  BY DEF LearnInv
<1> QED
  BY <1>1, LearnInvariant, PTL

-----------------------------------------------------------------------------
\* Every stop that waits for a context to close waits for a browser of its own.
Closing == {s \in Stop : stopAt[s] \in {"closing", "closing2"}}
ClosingInv ==
    /\ IsFiniteSet(Closing)
    /\ browsers \in Nat
    /\ Cardinality(Closing) + (IF context = "live" \/ fresh = "live" THEN 1 ELSE 0) <= browsers

LEMMA ClosingInvariant == Spec => []ClosingInv
<1>1. Init => ClosingInv
  <2> SUFFICES ASSUME Init PROVE ClosingInv
    OBVIOUS
  <2>1. Closing = {} /\ context = "none" /\ fresh = "none" /\ browsers = 0
    BY DEF Init, Closing
  <2> QED BY <2>1, FS_EmptySet DEF ClosingInv
<1>2. BrowserInv /\ ClosingInv /\ [Next]_vars => ClosingInv'
  <2> SUFFICES ASSUME BrowserInv, ClosingInv, [Next]_vars PROVE ClosingInv'
    OBVIOUS
  <2>0. Cardinality(Closing) \in Nat
    BY FS_CardinalityType DEF ClosingInv
  <2>1. CASE UNCHANGED <<stopAt, context, fresh, browsers>>
    BY <2>1 DEF ClosingInv, Closing
  <2>2. CASE Arrive
    <3>1. ASSUME NEW s \in Stop, StopCall(s) PROVE ClosingInv'
      <4>1. stopAt[s] = "off" /\ UNCHANGED <<context, fresh, browsers>>
        BY <3>1 DEF StopCall, Sent, BrowserInv, browserVars
      <4>2. Closing' = Closing
        BY <3>1, <4>1 DEF StopCall, StopTo, ExportTo, Closing, BrowserInv
      <4> QED BY <4>1, <4>2 DEF ClosingInv
    <3> QED BY <2>1, <2>2, <3>1 DEF Arrive, Enqueue, Unqueued, browserVars, stopVars
  <2>3. CASE Begin \/ \E r \in Look \cup Shot : PageStep(r)
    BY <2>1, <2>3 DEF Begin, BeginDo, RefuseDo, BeginLook, PageStep, Look1, LookFails, browserVars, stopVars
  <2>4. ASSUME NEW r \in Do, DoStep(r) PROVE ClosingInv'
    BY <2>1, <2>4 DEF DoStep, Call, Check, Dispatch, Land, Miss, Settle, Abandon, Finish, browserVars, stopVars
  <2>5. CASE Launch \/ Launched \/ Attached \/ LaunchFails \/ BrowserDies
    <3>1. Closing' = Closing
      BY <2>5 DEF Launch, Launched, Attached, LaunchFails, BrowserDies, stopVars, Closing
    <3>2. CASE Launched
      <4>1. context = "none" /\ fresh = "none" /\ browsers' = browsers + 1
        BY <3>2 DEF Launched, BrowserInv
      <4> QED BY <2>0, <3>1, <4>1 DEF ClosingInv
    <3>3. CASE BrowserDies
      <4>1. browsers' = browsers - 1 /\ (context = "live" \/ fresh = "live") /\ context' # "live" /\ fresh' # "live"
        BY <3>3 DEF BrowserDies, BrowserInv
      <4> QED BY <2>0, <3>1, <4>1 DEF ClosingInv
    <3>4. CASE Attached
      <4>1. context = "none" /\ context' = fresh /\ fresh' = "none" /\ browsers' = browsers
        BY <3>4 DEF Attached, BrowserInv
      <4> QED BY <2>0, <3>1, <4>1 DEF ClosingInv
    <3>5. CASE Launch \/ LaunchFails
      BY <2>1, <3>5 DEF Launch, LaunchFails, stopVars
    <3> QED BY <2>5, <3>2, <3>3, <3>4, <3>5
  <2>6. ASSUME NEW s \in Stop, StopStep(s) PROVE ClosingInv'
    <3>1. CASE Export(s)
      <4>1. Closing' = Closing
        BY <3>1 DEF Export, ExportTo, StopTo, Closing, BrowserInv
      <4> QED BY <3>1, <4>1 DEF Export, browserVars, ClosingInv
    <3>2. ASSUME NEW closing \in {"closing", "closing2"}, NEW next \in {"reply", "exit"},
                 stopAt[s] \in {"close", "reply"}, CloseFrom(s, closing, next), UNCHANGED <<fresh, browsers>>
          PROVE  ClosingInv'
      <4>1. s \notin Closing
        BY <3>2 DEF Closing
      <4>2. CASE context = "live"
        <5>1. Closing' = Closing \cup {s} /\ context' = "none" /\ fresh = "none"
          BY <3>2, <4>2 DEF CloseFrom, StopTo, Closing, BrowserInv
        <5>2. IsFiniteSet(Closing \cup {s}) /\ Cardinality(Closing \cup {s}) = Cardinality(Closing) + 1
          BY <4>1, FS_AddElement DEF ClosingInv
        <5> QED BY <2>0, <3>2, <4>2, <5>1, <5>2 DEF ClosingInv
      <4>3. CASE context # "live"
        <5>1. Closing' = Closing /\ context' = "none"
          BY <3>2, <4>3 DEF CloseFrom, StopTo, Closing, BrowserInv
        <5> QED BY <3>2, <4>3, <5>1 DEF ClosingInv
      <4> QED BY <4>2, <4>3
    <3>3. CASE CloseBrowser(s) \/ Reply(s)
      BY <3>2, <3>3 DEF CloseBrowser, Reply
    <3>4. CASE BrowserClosed(s) \/ ClosedAgain(s)
      <4>1. s \in Closing /\ Closing' = Closing \ {s} /\ context' = "none" /\ fresh' = fresh /\ browsers' = browsers - 1
        BY <3>4 DEF BrowserClosed, ClosedAgain, Closed, StopTo, Closing, BrowserInv
      <4>2. IsFiniteSet(Closing \ {s}) /\ Cardinality(Closing \ {s}) = Cardinality(Closing) - 1
        BY <4>1, FS_RemoveElement DEF ClosingInv
      <4>3. Cardinality(Closing \ {s}) \in Nat
        BY <4>2, FS_CardinalityType
      <4>4. Cardinality(Closing) <= browsers
        BY <2>0 DEF ClosingInv
      <4> QED BY <2>0, <4>1, <4>2, <4>3, <4>4 DEF ClosingInv
    <3>5. CASE Exit(s)
      <4>1. Closing' = {} /\ context' = "none" /\ fresh' = "none" /\ browsers' = 0
        BY <3>5 DEF Exit, Closing
      <4> QED BY <4>1, FS_EmptySet DEF ClosingInv
    <3> QED BY <2>6, <3>1, <3>3, <3>4, <3>5 DEF StopStep
  <2> QED BY <2>1, <2>2, <2>3, <2>4, <2>5, <2>6 DEF Next, vars, browserVars, stopVars
<1> QED BY <1>1, <1>2, BrowserInvariant, PTL DEF Spec

\* A command that waits is in the queue at most once, and nowhere else.
QueueInv ==
    /\ queue \in Seq(Queued)
    /\ \A i \in 1..Len(queue) : phase[queue[i]] = "queued"
    /\ \A i, j \in 1..Len(queue) : i # j => queue[i] # queue[j]

LEMMA QueueInvariant == Spec => []QueueInv
<1>1. ASSUME Init PROVE QueueInv
  BY <1>1 DEF Init, QueueInv
<1>2. CmdType /\ InflightRuns /\ LearnInv /\ QueueInv /\ [Next]_vars => QueueInv'
  <2> SUFFICES ASSUME CmdType, InflightRuns, LearnInv, QueueInv, [Next]_vars PROVE QueueInv'
    OBVIOUS
  <2>0. \A i \in 1..Len(queue) : queue[i] \in Queued
    BY DEF QueueInv
  <2>1. ASSUME NEW r \in Request, phase[r] # "queued" \/ r \notin Queued, NEW how, phase' = [phase EXCEPT ![r] = how], queue' = queue
        PROVE  QueueInv'
    <3>1. \A i \in 1..Len(queue) : queue[i] # r /\ phase'[queue[i]] = "queued"
      BY <2>0, <2>1 DEF QueueInv, CmdType, Request
    <3> QED BY <2>1, <3>1 DEF QueueInv
  <2>2. CASE UNCHANGED <<queue, phase>>
    BY <2>2 DEF QueueInv
  <2>3. ASSUME NEW r \in Queued, Enqueue(r) PROVE QueueInv'
    <3>1. phase[r] = "unsent" /\ phase' = [phase EXCEPT ![r] = "queued"] /\ queue' = Append(queue, r) /\ r \in Request
      BY <2>3 DEF Enqueue, Sent, Answer, Request
    <3>2. \A i \in 1..Len(queue) : queue[i] # r /\ queue[i] \in Request
      BY <2>0, <3>1 DEF QueueInv, Request
    <3>3. /\ queue' \in Seq(Queued) /\ Len(queue') = Len(queue) + 1 /\ queue'[Len(queue) + 1] = r
          /\ \A i \in 1..Len(queue) : queue'[i] = queue[i]
      BY <3>1, AppendProperties DEF QueueInv
    <3>4. \A i \in 1..Len(queue) : phase'[queue[i]] = "queued"
      BY <3>1, <3>2 DEF QueueInv, CmdType
    <3>5. phase'[r] = "queued"
      BY <3>1 DEF CmdType
    <3>6. Len(queue) \in Nat
      BY DEF QueueInv
    <3>7. \A i \in 1..Len(queue) + 1 : i \in 1..Len(queue) \/ i = Len(queue) + 1
      BY <3>6
    <3>8. \A i, j \in 1..Len(queue) : i # j => queue[i] # queue[j]
      BY DEF QueueInv
    <3>9. \A i \in 1..Len(queue') : phase'[queue'[i]] = "queued"
      BY <3>3, <3>4, <3>5, <3>7
    <3>10. \A i, j \in 1..Len(queue') : i # j => queue'[i] # queue'[j]
      BY <3>2, <3>3, <3>7, <3>8
    <3> QED BY <3>3, <3>9, <3>10 DEF QueueInv
  <2>4. ASSUME NEW r \in Queued, BeginDo(r) \/ RefuseDo(r) \/ BeginLook(r) PROVE QueueInv'
    <3>1. queue # <<>> /\ Head(queue) = r /\ queue' = Tail(queue) /\ r \in Request
          /\ (phase' = [phase EXCEPT ![r] = "running"] \/ phase' = [phase EXCEPT ![r] = "done"])
      BY <2>4 DEF BeginDo, RefuseDo, BeginLook, Next1, Answer, Request
    <3>2. /\ queue' \in Seq(Queued) /\ Len(queue') = Len(queue) - 1 /\ Len(queue) \in Nat /\ queue[1] = r
          /\ \A i \in 1..Len(queue') : queue'[i] = queue[i + 1]
      BY <3>1, HeadTailProperties DEF QueueInv
    <3>3. \A i \in 1..Len(queue') : i + 1 \in 1..Len(queue) /\ i + 1 # 1 /\ 1 \in 1..Len(queue)
      BY <3>2
    <3>4. \A i \in 1..Len(queue') : queue'[i] # r /\ phase[queue'[i]] = "queued"
      BY <3>2, <3>3 DEF QueueInv
    <3>5. \A i \in 1..Len(queue') : phase'[queue'[i]] = "queued"
      <4>1. \A i \in 1..Len(queue') : queue'[i] \in Request
        BY <3>2 DEF Request
      <4> QED BY <3>1, <3>4, <4>1 DEF CmdType
    <3>6. \A i, j \in 1..Len(queue') : i # j => i + 1 # j + 1
      BY <3>2
    <3>7. \A i, j \in 1..Len(queue') : i # j => queue'[i] # queue'[j]
      BY <3>2, <3>3, <3>6 DEF QueueInv
    <3> QED BY <3>2, <3>5, <3>7 DEF QueueInv
  <2>5. CASE Arrive
    <3>1. ASSUME NEW r \in Shot, Unqueued(r) PROVE QueueInv'
      BY <2>1, <3>1 DEF Unqueued, Sent, Answer, Request
    <3>2. ASSUME NEW s \in Stop, StopCall(s) PROVE QueueInv'
      BY <2>1, <3>2 DEF StopCall, Sent, Answer, Request
    <3> QED BY <2>3, <2>5, <3>1, <3>2 DEF Arrive
  <2>6. CASE Begin
    BY <2>4, <2>6 DEF Begin, Queued
  <2>7. ASSUME NEW r \in Look \cup Shot, PageStep(r) PROVE QueueInv'
    BY <2>1, <2>7 DEF PageStep, Look1, LookFails, PageCommand, Running, Answer, Request, Queued
  <2>8. ASSUME NEW r \in Do, DoStep(r) PROVE QueueInv'
    <3>1. CASE Finish(r)
      <4>1. phase[r] = "running"
        BY <3>1 DEF Finish, LearnInv, InflightRuns, Running
      <4> QED BY <2>1, <3>1, <4>1 DEF Finish, Answer, Request, Queued
    <3> QED BY <2>2, <2>8, <3>1 DEF DoStep, Call, Check, Dispatch, Land, Miss, Settle, Abandon, cmdVars
  <2>9. CASE Launch \/ Launched \/ Attached \/ LaunchFails \/ BrowserDies
    BY <2>2, <2>9 DEF Launch, Launched, Attached, LaunchFails, BrowserDies, cmdVars
  <2>10. ASSUME NEW s \in Stop, StopStep(s) PROVE QueueInv'
    <3>1. CASE Reply(s)
      BY <2>1, <3>1, KindAssumption DEF Reply, Answer, Request, Queued
    <3>2. CASE Exit(s)
      BY <3>2 DEF Exit, QueueInv
    <3> QED BY <2>2, <2>10, <3>1, <3>2 DEF StopStep, Export, CloseBrowser, BrowserClosed, ClosedAgain, Closed, cmdVars
  <2> QED BY <2>2, <2>5, <2>6, <2>7, <2>8, <2>9, <2>10 DEF Next, vars, cmdVars
<1> QED BY <1>1, <1>2, CmdTyped, StopReachesTheRunning, LearnInvariant, PTL DEF Spec

\* While a stop drains, what it does not wait for and is not done came after it.
ExportInv ==
    /\ late \subseteq Do /\ after \subseteq Do /\ exited \in BOOLEAN
    /\ waits \in [Stop -> SUBSET Queued] /\ flow \in [open : SUBSET Do, cut : BOOLEAN] \cup {None}
    /\ \A s \in Stop : stopAt[s] = "drain" =>
         Running(s) /\ \A r \in Do : phase[r] \in {"queued", "running"} => r \in waits[s] \cup after
    /\ ExportWhole

LEMMA ExportInvariant == Spec => []ExportInv
<1> USE KindAssumption DEF Request, Queued
<1>1. ASSUME Init PROVE ExportInv
  <2>1. queue = <<>> /\ late = {} /\ after = {} /\ exited = FALSE /\ flow = None
    BY <1>1 DEF Init
  <2>2. waits \in [Stop -> SUBSET Queued] /\ \A s \in Stop : stopAt[s] = "off"
    BY <1>1 DEF Init
  <2> QED BY <2>1, <2>2 DEF ExportInv, ExportWhole
<1>2. CmdType /\ InflightRuns /\ BrowserInv /\ QueueInv /\ ExportInv /\ [Next]_vars => ExportInv'
  <2> SUFFICES ASSUME CmdType, InflightRuns, BrowserInv, QueueInv, ExportInv, [Next]_vars PROVE ExportInv'
    OBVIOUS
  <2> DEFINE Flows == [open : SUBSET Do, cut : BOOLEAN]
  <2>1. CASE UNCHANGED <<late, after, exited, waits, flow, stopAt, phase>>
    BY <2>1 DEF ExportInv, ExportWhole, Running
  <2>2. CASE Arrive
    <3>1. ASSUME NEW r \in Queued, Enqueue(r) PROVE ExportInv'
      <4>1. /\ after' \subseteq Do /\ after \subseteq after'
            /\ phase' = [phase EXCEPT ![r] = "queued"] /\ phase[r] = "unsent"
            /\ UNCHANGED <<late, exited, waits, flow, stopAt>>
        BY <3>1 DEF Enqueue, Sent, Answer, instrVars, stopVars, ExportInv
      <4>2. r \in Do /\ Stopping => r \in after'
        BY <3>1 DEF Enqueue, Sent
      <4>3. ASSUME NEW s \in Stop, stopAt[s] = "drain" PROVE Running(s)' /\ Stopping
        BY <4>1, <4>3 DEF ExportInv, Running, Stopping, CmdType
      <4> QED BY <4>1, <4>2, <4>3 DEF ExportInv, ExportWhole, CmdType
    <3>2. ASSUME NEW r \in Shot, Unqueued(r) PROVE ExportInv'
      <4>1. /\ after' = after /\ phase' = [phase EXCEPT ![r] = "running"]
            /\ UNCHANGED <<late, exited, waits, flow, stopAt>>
        BY <3>2 DEF Unqueued, Sent, Answer, instrVars, stopVars
      <4> QED BY <4>1 DEF ExportInv, ExportWhole, Running, CmdType
    <3>3. ASSUME NEW s \in Stop, StopCall(s) PROVE ExportInv'
      <4>1. /\ after' = after /\ phase' = [phase EXCEPT ![s] = "running"] /\ phase[s] = "unsent"
            /\ UNCHANGED <<late, exited>>
        BY <3>3 DEF StopCall, Sent, Answer
      <4>2. CASE inflight # None
        <5>1. stopAt' = [stopAt EXCEPT ![s] = "drain"] /\ waits' = [waits EXCEPT ![s] = WaitsFor] /\ flow' = flow
          BY <3>3, <4>2 DEF StopCall, StopTo
        <5>2. WaitsFor \in SUBSET Queued /\ \A r \in Do : phase[r] \in {"queued", "running"} => r \in WaitsFor
          BY DEF WaitsFor
        <5> QED BY <4>1, <5>1, <5>2 DEF ExportInv, ExportWhole, Running, CmdType, BrowserInv
      <4>3. CASE inflight = None
        <5>1. /\ stopAt' = [stopAt EXCEPT ![s] = "close"] /\ waits' = [waits EXCEPT ![s] = {}]
              /\ flow' = [open |-> {r \in Do : Running(r)}, cut |-> FALSE]
          BY <3>3, <4>3 DEF StopCall, StopTo, ExportTo
        <5>2. {r \in Do : Running(r)} = {}
          BY <4>3 DEF InflightRuns
        <5> QED BY <4>1, <5>1, <5>2 DEF ExportInv, ExportWhole, Running, CmdType, BrowserInv
      <4> QED BY <4>2, <4>3
    <3> QED BY <2>2, <3>1, <3>2, <3>3 DEF Arrive
  <2>3. CASE Begin
    <3>1. ASSUME NEW r \in Queued, BeginDo(r) \/ RefuseDo(r) \/ BeginLook(r) PROVE ExportInv'
      <4>1. /\ queue # <<>> /\ Head(queue) = r
            /\ phase' = [phase EXCEPT ![r] = "running"] \/ phase' = [phase EXCEPT ![r] = "done"]
            /\ UNCHANGED <<late, after, exited, waits, flow, stopAt>>
        BY <3>1 DEF BeginDo, RefuseDo, BeginLook, Next1, Answer, instrVars, stopVars
      <4>2. phase[r] = "queued"
        BY <4>1 DEF QueueInv
      <4> QED BY <4>1, <4>2 DEF ExportInv, ExportWhole, Running, CmdType
    <3> QED BY <2>3, <3>1 DEF Begin
  <2>4. ASSUME NEW r \in Look \cup Shot, PageStep(r) PROVE ExportInv'
    <3>1. phase' = [phase EXCEPT ![r] = "done"] /\ UNCHANGED <<late, after, exited, waits, flow, stopAt>>
      BY <2>4 DEF PageStep, Look1, LookFails, Answer, instrVars, stopVars
    <3> QED BY <3>1 DEF ExportInv, ExportWhole, Running, CmdType
  <2>5. ASSUME NEW r \in Do, DoStep(r) PROVE ExportInv'
    <3>1. CASE Finish(r)
      <4>1. phase' = [phase EXCEPT ![r] = "done"] /\ UNCHANGED <<late, after, exited, waits, flow, stopAt>>
        BY <3>1 DEF Finish, Answer, stopVars
      <4> QED BY <4>1 DEF ExportInv, ExportWhole, Running, CmdType
    <3>2. CASE Call(r) \/ Check(r) \/ Dispatch(r) \/ Land(r) \/ Miss(r) \/ Abandon(r)
      <4>1. late' \subseteq Do /\ UNCHANGED <<phase, after, exited, waits, flow, stopAt>>
        BY <3>2 DEF Call, Check, Dispatch, Land, Miss, Settle, Abandon, cmdVars, stopVars, ExportInv
      <4> QED BY <4>1 DEF ExportInv, ExportWhole, Running
    <3> QED BY <2>5, <3>1, <3>2 DEF DoStep
  <2>6. CASE Launch \/ Launched \/ Attached \/ LaunchFails \/ BrowserDies
    BY <2>1, <2>6 DEF Launch, Launched, Attached, LaunchFails, BrowserDies, cmdVars, instrVars, stopVars
  <2>7. ASSUME NEW s \in Stop, StopStep(s) PROVE ExportInv'
    <3>1. CASE Export(s)
      <4>1. /\ stopAt' = [stopAt EXCEPT ![s] = "close"] /\ waits' = [waits EXCEPT ![s] = {}]
            /\ flow' = [open |-> {r \in Do : Running(r)}, cut |-> ~Drained(s)] /\ stopAt[s] = "drain"
            /\ UNCHANGED <<late, after, exited, phase>>
        BY <3>1 DEF Export, ExportTo, StopTo, cmdVars, instrVars
      <4>2. Drained(s) => {r \in Do : Running(r)} \subseteq after
        BY <4>1 DEF Drained, Running, ExportInv
      <4>3. Drained(s) \in BOOLEAN
        BY DEF Drained
      <4> QED BY <4>1, <4>2, <4>3 DEF ExportInv, ExportWhole, Running, BrowserInv
    <3>2. CASE CloseBrowser(s) \/ BrowserClosed(s) \/ ClosedAgain(s)
      <4>1. /\ \E a \in {"closing", "reply", "exit"} : stopAt' = [stopAt EXCEPT ![s] = a]
            /\ UNCHANGED <<late, after, exited, waits, flow, phase>>
        BY <3>2 DEF CloseBrowser, BrowserClosed, ClosedAgain, Closed, CloseFrom, StopTo, cmdVars, instrVars
      <4> QED BY <4>1 DEF ExportInv, ExportWhole, Running, BrowserInv
    <3>3. CASE Reply(s)
      <4>1. /\ \E a \in {"closing2", "exit"} : stopAt' = [stopAt EXCEPT ![s] = a]
            /\ phase' = [phase EXCEPT ![s] = "done"] /\ stopAt[s] = "reply"
            /\ UNCHANGED <<late, after, exited, waits, flow>>
        BY <3>3 DEF Reply, CloseFrom, StopTo, Answer, instrVars
      <4> QED BY <4>1 DEF ExportInv, ExportWhole, Running, BrowserInv, CmdType
    <3>4. CASE Exit(s)
      <4>1. /\ stopAt' = [t \in Stop |-> "off"] /\ waits' = [t \in Stop |-> {}] /\ exited' = TRUE
            /\ UNCHANGED <<late, after, flow>>
        BY <3>4 DEF Exit
      <4> QED BY <4>1 DEF ExportInv, ExportWhole
    <3> QED BY <2>7, <3>1, <3>2, <3>3, <3>4 DEF StopStep
  <2> QED BY <2>1, <2>2, <2>3, <2>4, <2>5, <2>6, <2>7 DEF Next, vars, cmdVars, instrVars, stopVars
<1> QED BY <1>1, <1>2, CmdTyped, StopReachesTheRunning, BrowserInvariant, QueueInvariant, PTL DEF Spec

\* A stop exports a whole flow, reaches what runs and leaves no browser behind,
\* in a state of the right types.
THEOREM DaemonHolds == Spec => []DaemonOK
<1>1. CmdType /\ InflightRuns /\ BrowserInv /\ LearnInv /\ ClosingInv /\ QueueInv /\ ExportInv /\ OverrunInv => DaemonOK
  BY DEF CmdType, BrowserInv, Early, BrowserOwned, LearnInv, ClosingInv, QueueInv, ExportInv, OverrunInv, DaemonOK, TypeOK
<1> QED BY <1>1, CmdTyped, StopReachesTheRunning, BrowserInvariant, LearnInvariant, ClosingInvariant, QueueInvariant, ExportInvariant, OverrunInvariant, PTL
=============================================================================
