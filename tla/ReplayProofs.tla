---------------------------- MODULE ReplayProofs ----------------------------
(***************************************************************************)
(* What the result of a replay says is true, for any procedures, any folded *)
(* loop and any number of passes.                                          *)
(***************************************************************************)
EXTENDS Replay, FiniteSetTheorems, TLAPS

\* runOneStep is at work on the step, or the pass, Tag; the replay is not over.
AtWork == pc \in {"body", "resolve", "missed", "found", "act", "repeat", "verify", "settle"}
Between == pc \in {"begin", "gate", "top", "loop"}
Stopping == pc = "settle" /\ verdict = "stop"

StepAt(t) == IF skill[t[1]].tool = "loop" THEN Body ELSE skill[t[1]]
Untouched(t) == sent[t] = 0 /\ how[t] = "not-run" /\ t \notin resubmitted \cup refilled

\* Where the replay is: the steps it counted are those before the one it is
\* at, and a pass is of a folded loop.
Place ==
    /\ res.stepsRun = n - 1
    /\ pc # "done" => n <= Len(skill)
    /\ pc \in {"begin", "gate", "top"} => pass = 0
    /\ pc = "begin" => n = 1
    /\ pc = "gate" => GateAt(n)
    /\ pc = "loop" => skill[n].tool = "loop"
    /\ AtWork => (pass > 0 <=> skill[n].tool = "loop")

\* What a caller reads, in a procedure of this length.
Result == [ok : BOOLEAN, refused : BOOLEAN, gateRefused : BOOLEAN, failedAt : 0..Len(skill),
           stepsRun : 0..Len(skill), acted : BOOLEAN, outcome : Outcomes, stopGate : BOOLEAN,
           created : BOOLEAN, assertFailed : BOOLEAN, unobserved : BOOLEAN]

\* TypeOK, in its parts.
PosType == skill \in Skills /\ n \in 1..Len(skill) + 1 /\ pass \in 0..MaxPass
PcType ==
    /\ pc \in {"begin", "gate", "top", "loop", "body", "resolve", "missed", "found",
               "act", "repeat", "verify", "settle", "done", "threw"}
    /\ verdict \in {"none", "ran", "skipped", "stop"}
ResType == res \in Result
FlagType ==
    /\ actedBefore \in BOOLEAN /\ met \in BOOLEAN /\ dialog \in BOOLEAN /\ aborted \in BOOLEAN
    /\ fills \in {"none", "standing", "sent"}
OnceType == resubmitted \subseteq Tags /\ refilled \subseteq Tags
Proposal == [tag : Tags, state : {"pending", "refused", "verified", "wrong"}]
HealsType == \A i \in DOMAIN heals : heals[i] \in Proposal
SentType == sent \in [Tags -> Nat] /\ seen \in [Tags -> Seen]
HowType == how \in [Tags -> {"not-run", "passed", "skipped", "stopped"}]

\* What is still to come was not touched.
Ahead ==
    /\ \A t \in Tags : t[1] > n \/ (t[1] = n /\ (t[2] > pass \/ pc \in {"begin", "gate", "top"})) => Untouched(t)
    /\ AtWork => how[Tag] = "not-run"

\* What is behind was completed, every condition among it met.
Behind ==
    /\ \A t \in Tags : how[t] = "stopped" => pc = "done" /\ res.failedAt # 0
    /\ \A i \in 1..(n - 1) :
         /\ skill[i].tool # "loop" => how[<<i, 0>>] \in {"passed", "skipped"}
         /\ "assert" \in skill[i].marks => how[<<i, 0>>] = "passed"
    /\ pc \notin {"settle", "done", "threw"} => res.failedAt = 0
    /\ pc = "settle" =>
         /\ verdict \in {"ran", "skipped", "stop"}
         /\ (res.failedAt # 0) <=> verdict = "stop"
         /\ Has("assert") => verdict # "skipped"
    /\ res.ok => pc = "done" /\ n = Len(skill) + 1 /\ res.failedAt = 0 /\ ~ObservedNothing(how)

\* A proposal is open only while the step it is for is at work.
Proposals ==
    /\ heals \in Seq(Proposal)
    /\ \A i \in DOMAIN heals :
         /\ heals[i].state = "pending" => heals[i].tag = Tag /\ pass = 0 /\ (AtWork \/ pc = "threw")
         /\ heals[i].state = "verified" => how[heals[i].tag] = "passed"

\* What was dispatched and is not told was harmless; before the gate it is told.
Harmless(t) == sent[t] = 0 \/ seen[t] \in {"shut", "elsewhere", "no-effect"}
Told ==
    /\ pc # "threw" /\ ~res.acted => \A t \in Tags : Harmless(t)
    /\ (AtWork \/ Between) /\ ~Stopping /\ ~res.acted => \A t \in Tags : sent[t] > 0 => DependsOnPage(StepAt(t))
    /\ pc = "repeat" => res.acted /\ (~actedBefore => \A t \in Tags : Harmless(t))
    /\ pc = "verify" /\ ~IsRead => res.acted
    /\ res.refused => pc = "done" /\ \A t \in Tags : sent[t] = 0

\* What was seen of the last dispatch of the step at work.
LastSeen ==
    /\ pc \in {"body", "resolve", "missed", "found"} /\ sent[Tag] > 0 => seen[Tag] = "lost"
    /\ pc = "act" /\ sent[Tag] > 0 => seen[Tag] \in {"lost", "shut"}
    /\ pc = "repeat" => seen[Tag] = "no-effect"

\* How many dispatches an attempt at a step may make.
Extra(s, mark) == IF mark \in s.marks THEN 1 ELSE 0
Most(t) == 1 + Extra(StepAt(t), "again") + Extra(StepAt(t), "reopens") + Extra(StepAt(t), "links")
Attempts(t) == IF t \in resubmitted \cup refilled THEN 1 ELSE 0
Bounded ==
    /\ \A t \in Tags : t[1] <= Len(skill) =>
         /\ t \in resubmitted => StepAt(t).tool = "click"
         /\ t \in refilled => StepAt(t).tool = "fill"
         /\ sent[t] <= (1 + Attempts(t)) * Most(t)
    /\ pc \in {"body", "resolve", "missed", "found"} => sent[Tag] <= Attempts(Tag) * Most(Tag)
    /\ pc = "act" => sent[Tag] <= Attempts(Tag) * Most(Tag) + Extra(Step, "reopens")
    /\ pc = "repeat" => Has("again") /\ Step.tool = "click" /\ sent[Tag] <= Attempts(Tag) * Most(Tag) + Extra(Step, "reopens") + 1

ReplayInv == TypeOK /\ Place /\ Ahead /\ Behind /\ Proposals /\ Told /\ LastSeen /\ Bounded
----------------------------------------------------------------------------
\* A procedure is a sequence of steps, and the step at hand is one of them.
\* A procedure is a sequence of steps, and the step at hand is one of them.
LEMMA TypeParts == TypeOK <=> PosType /\ PcType /\ ResType /\ FlagType /\ OnceType /\ HealsType /\ SentType /\ HowType
BY DEF TypeOK, PosType, PcType, ResType, Result, FlagType, OnceType, HealsType, Proposal, SentType, HowType

LEMMA Procedure ==
    ASSUME PosType
    PROVE  /\ skill \in Seq(StepType) /\ Len(skill) \in Nat /\ Len(skill) >= 1
           /\ Steps = DOMAIN skill
           /\ \A i \in Steps : skill[i] \in StepType /\ \A p \in 0..MaxPass : <<i, p>> \in Tags
           /\ n \in Nat /\ pass \in Nat
<1>1. skill \in Skills /\ skill \in Seq(StepType) /\ skill # <<>>
  BY SkillAssumption DEF PosType
<1>2. Len(skill) \in Nat /\ Len(skill) >= 1 /\ Steps = DOMAIN skill
  BY <1>1 DEF Steps
<1>3. \A i \in Steps : skill[i] \in StepType
  BY <1>1, <1>2
<1>4. \A i \in Steps : \A p \in 0..MaxPass : <<i, p>> \in Tags
  <2> SUFFICES ASSUME NEW i \in Steps, NEW p \in 0..MaxPass
               PROVE  i \in UNION {DOMAIN s : s \in Skills}
    BY DEF Tags
  <2> QED BY <1>1, <1>2
<1>5. n \in Nat /\ pass \in Nat
  BY <1>2, PassAssumption DEF PosType
<1> QED BY <1>1, <1>2, <1>3, <1>4, <1>5

LEMMA TagIs ==
    ASSUME NEW t \in Tags
    PROVE  t = <<t[1], t[2]>> /\ t[1] \in Nat \ {0} /\ t[2] \in 0..MaxPass /\ t[2] \in Nat
<1>1. t[1] \in UNION {DOMAIN s : s \in Skills} /\ t[2] \in 0..MaxPass /\ t = <<t[1], t[2]>>
  BY DEF Tags
<1>2. PICK s \in Skills : t[1] \in DOMAIN s
  BY <1>1
<1>3. s \in Seq(StepType)
  BY SkillAssumption
<1> QED BY <1>1, <1>2, <1>3, PassAssumption

LEMMA AtStep ==
    ASSUME PosType, Place, pc # "done"
    PROVE  /\ n \in Steps /\ n <= Len(skill) /\ Tag \in Tags
           /\ Step \in StepType /\ Step.tool # "loop" /\ Step.tool \in Tool
           /\ Step = StepAt(Tag)
<1>1. n \in Steps
  BY Procedure DEF Place, PosType, Steps
<1>2. Step \in StepType
  BY <1>1, Procedure, BodyAssumption DEF Step
<1> QED BY <1>1, <1>2, Procedure, BodyAssumption DEF Step, Tag, PosType, StepAt, StepType, Steps

LEMMA InitialType == Init => TypeOK /\ Place
<1> SUFFICES ASSUME Init PROVE TypeOK /\ Place
  OBVIOUS
<1>1. skill \in Seq(StepType) /\ skill # <<>>
  BY SkillAssumption DEF Init
<1>2. Len(skill) \in Nat /\ Len(skill) >= 1
  BY <1>1
<1>3. /\ skill \in Skills /\ pc = "begin" /\ n = 1 /\ pass = 0 /\ verdict = "none"
      /\ resubmitted = {} /\ refilled = {} /\ heals = <<>> /\ fills = "none"
  BY DEF Init
<1>4. ResType /\ res.stepsRun = 0
  <2>1. res = NoResult
    BY DEF Init
  <2> QED BY <1>2, <2>1 DEF ResType, Result, NoResult, Outcomes
<1>5. PosType /\ PcType
  BY <1>2, <1>3, PassAssumption DEF PosType, PcType
<1>6. FlagType
  BY DEF Init, FlagType
<1>7. OnceType /\ HealsType
  BY <1>3 DEF OnceType, HealsType
<1>8. SentType /\ HowType
  <2>1. sent = [t \in Tags |-> 0] /\ seen = [t \in Tags |-> "nothing"] /\ how = [t \in Tags |-> "not-run"]
    BY DEF Init
  <2> QED BY <2>1 DEF SentType, HowType, Seen
<1>9. Place
  BY <1>2, <1>3, <1>4 DEF Place, AtWork
<1> QED BY <1>4, <1>5, <1>6, <1>7, <1>8, <1>9, TypeParts

\* How the procedure ends, for any result it ends with.
LEMMA FinishType ==
    ASSUME PosType, NEW r \in Result, NEW h, Finish(r, h)
    PROVE  /\ pc' = "done" /\ res' \in Result /\ res'.stepsRun = r.stepsRun
           /\ res'.acted = r.acted /\ res'.refused = r.refused
           /\ r.failedAt # 0 => res'.failedAt = r.failedAt /\ ~res'.ok
           /\ res'.ok => r.stepsRun = Len(skill) /\ res'.failedAt = 0 /\ ~ObservedNothing(h)
<1> DEFINE whole == r.stepsRun = Len(skill) /\ r.failedAt = 0
           blind == whole /\ ObservedNothing(h)
<1>1. PICK at \in IF blind THEN FirstRead ELSE {r.failedAt} :
        res' = [r EXCEPT !.ok = whole /\ ~blind, !.failedAt = at]
  BY DEF Finish
<1>2. at \in 0..Len(skill) /\ (~blind => at = r.failedAt)
  BY Procedure DEF FirstRead, Reads, Steps, Result
<1>3. whole \in BOOLEAN /\ blind \in BOOLEAN /\ (whole /\ ~blind) \in BOOLEAN
  OBVIOUS
<1>4. (r.failedAt # 0 => ~whole) /\ (whole /\ ~blind => r.stepsRun = Len(skill) /\ r.failedAt = 0 /\ ~ObservedNothing(h))
  OBVIOUS
<1>5. PICK b \in BOOLEAN : b = (whole /\ ~blind)
  BY <1>3
<1> HIDE DEF whole, blind
<1>6. res' = [r EXCEPT !.ok = b, !.failedAt = at]
  BY <1>1, <1>5
<1>7. /\ res' \in Result /\ res'.stepsRun = r.stepsRun /\ res'.acted = r.acted /\ res'.refused = r.refused
      /\ res'.failedAt = at /\ res'.ok = b
  BY <1>2, <1>6 DEF Result
<1>8. r.failedAt # 0 => ~whole /\ ~blind
  BY <1>4 DEF blind
<1> QED BY <1>2, <1>4, <1>5, <1>7, <1>8 DEF Finish


\* A result that differs from the one so far in what it says was done, only.
Alike(r) ==
    /\ r \in Result /\ r.stepsRun = res.stepsRun /\ r.failedAt = res.failedAt
    /\ r.ok = res.ok /\ r.refused = res.refused

LEMMA StopResult ==
    ASSUME n \in 0..Len(skill), NEW r, Alike(r), Stop(r)
    PROVE  /\ pc' = "settle" /\ verdict' = "stop"
           /\ res' \in Result /\ res'.stepsRun = res.stepsRun /\ res'.failedAt = n
           /\ res'.ok = res.ok /\ res'.refused = res.refused /\ res'.acted = r.acted
BY DEF Stop, Return, Alike, Result

LEMMA Variants ==
    ASSUME ResType, FlagType
    PROVE  /\ Alike(res)
           /\ Alike([res EXCEPT !.stopGate = FALSE]) /\ [res EXCEPT !.stopGate = FALSE].acted = res.acted
           /\ Alike([res EXCEPT !.acted = TRUE, !.outcome = "unknown"])
           /\ [res EXCEPT !.acted = TRUE, !.outcome = "unknown"].acted = TRUE
           /\ Alike([res EXCEPT !.assertFailed = TRUE]) /\ [res EXCEPT !.assertFailed = TRUE].acted = res.acted
           /\ Alike(Prepared) /\ Prepared.acted = (res.acted \/ ~IsRead)
           /\ Alike(Unknown) /\ Unknown.acted = (res.acted \/ ~IsRead)
           /\ Alike(NotDispatched(res.acted)) /\ NotDispatched(res.acted).acted = res.acted
           /\ Alike(NotDispatched(actedBefore)) /\ NotDispatched(actedBefore).acted = actedBefore
           /\ Alike([Prepared EXCEPT !.assertFailed = TRUE])
           /\ [Prepared EXCEPT !.assertFailed = TRUE].acted = (res.acted \/ ~IsRead)
           /\ \A r \in Bound : Alike(r) /\ r.acted = res.acted
<1> USE DEF ResType, FlagType, Alike, Result, Outcomes
<1>1. Alike(Prepared) /\ Prepared.acted = (res.acted \/ ~IsRead)
  BY DEF Prepared
<1>2. Alike(Unknown) /\ Unknown.acted = (res.acted \/ ~IsRead)
  BY <1>1 DEF Unknown
<1>3. Alike(NotDispatched(res.acted)) /\ NotDispatched(res.acted).acted = res.acted
  BY <1>1 DEF NotDispatched
<1>4. Alike(NotDispatched(actedBefore)) /\ NotDispatched(actedBefore).acted = actedBefore
  BY <1>1 DEF NotDispatched
<1>5. Alike([Prepared EXCEPT !.assertFailed = TRUE]) /\ [Prepared EXCEPT !.assertFailed = TRUE].acted = (res.acted \/ ~IsRead)
  BY <1>1
<1>6. ASSUME NEW r \in Bound PROVE Alike(r) /\ r.acted = res.acted
  BY <1>6 DEF Bound
<1>7. /\ Alike(res)
      /\ Alike([res EXCEPT !.stopGate = FALSE]) /\ [res EXCEPT !.stopGate = FALSE].acted = res.acted
      /\ Alike([res EXCEPT !.acted = TRUE, !.outcome = "unknown"])
      /\ [res EXCEPT !.acted = TRUE, !.outcome = "unknown"].acted = TRUE
      /\ Alike([res EXCEPT !.assertFailed = TRUE]) /\ [res EXCEPT !.assertFailed = TRUE].acted = res.acted
  OBVIOUS
<1> QED BY <1>1, <1>2, <1>3, <1>4, <1>5, <1>6, <1>7

\* What runStepBody may do to the result: nothing, or a verdict for runOneStep.
Work == Checks \/ Resolve \/ Heal \/ Navigate \/ Absent \/ Found \/ Look \/ Act \/ Repeat \/ Pass \/ Refuse \/ Lost

Reported ==
    /\ res' \in Result /\ res'.stepsRun = res.stepsRun /\ res'.refused = res.refused
    /\ \/ /\ pc' \in {"body", "resolve", "missed", "found", "act", "repeat", "verify", "threw"}
          /\ verdict' = verdict /\ res'.failedAt = res.failedAt /\ res'.ok = res.ok
       \/ /\ pc' = "settle" /\ verdict' \in {"ran", "skipped"} /\ (Has("assert") => verdict' # "skipped")
          /\ res'.failedAt = res.failedAt /\ res'.ok = res.ok
       \/ pc' = "settle" /\ verdict' = "stop" /\ res'.failedAt = n /\ res'.ok = res.ok
       \/ pc' = "done" /\ verdict' = verdict /\ res'.failedAt = n /\ ~res'.ok

LEMMA WorkStep ==
    ASSUME PosType, ResType, FlagType, n \in Steps, Step \in StepType, Work
    PROVE  UNCHANGED posVars /\ Reported /\ AtWork /\ pc # "settle"
<1>1. n \in 0..Len(skill) /\ n # 0
  BY Procedure DEF Steps
<1>2. Has("assert") => Step.tool = "wait"
  BY DEF Has, StepType
<1>3. /\ \A r : Alike(r) /\ Stop(r) => Reported
      /\ \A r, v : Alike(r) /\ v \in {"ran", "skipped"} /\ (Has("assert") => v # "skipped") /\ Return(v, r) => Reported
      /\ \A r : /\ Alike(r) /\ verdict' = verdict /\ res' = r
                /\ pc' \in {"body", "resolve", "missed", "found", "act", "repeat", "verify", "threw"}
                => Reported
  <2>1. ASSUME NEW r, Alike(r), Stop(r) PROVE Reported
    BY <1>1, <2>1, StopResult DEF Reported
  <2>2. ASSUME NEW r, NEW v, Alike(r), v \in {"ran", "skipped"}, Has("assert") => v # "skipped", Return(v, r)
        PROVE Reported
    BY <2>2 DEF Reported, Alike, Return
  <2>3. ASSUME NEW r, Alike(r), verdict' = verdict, res' = r,
               pc' \in {"body", "resolve", "missed", "found", "act", "repeat", "verify", "threw"}
        PROVE Reported
    BY <2>3 DEF Reported, Alike
  <2> QED BY <2>1, <2>2, <2>3
<1>a. \A r : Alike(r) /\ Return("stop", [r EXCEPT !.failedAt = n, !.assertFailed = TRUE]) => Reported
  <2> SUFFICES ASSUME NEW r, Alike(r), Return("stop", [r EXCEPT !.failedAt = n, !.assertFailed = TRUE])
               PROVE  Reported
    OBVIOUS
  <2> QED BY <1>1 DEF Reported, Alike, Return, Result
<1> USE DEF AtWork, posVars
<1>4. CASE Checks
  BY <1>2, <1>3, <1>4, Variants DEF Checks
<1>5. CASE Resolve
  BY <1>2, <1>3, <1>5, Variants DEF Resolve
<1>6. CASE Heal
  BY <1>2, <1>3, <1>6, Variants DEF Heal
<1>7. CASE Navigate
  BY <1>2, <1>3, <1>7, Variants DEF Navigate
<1>8. CASE Absent
  <2>1. CASE Missed
    BY <1>a, <1>8, <2>1, Variants DEF Absent, Missed
  <2>2. CASE Return("skipped", res) /\ ~Has("assert")
    BY <1>3, <1>8, <2>2, Variants DEF Absent
  <2>3. CASE Stop(res)
    BY <1>3, <1>8, <2>3, Variants DEF Absent
  <2> QED BY <1>2, <1>8, <2>1, <2>2, <2>3 DEF Absent
<1>9. CASE Found
  <2>1. CASE pass > 0 /\ Finish([res EXCEPT !.failedAt = n], how) /\ UNCHANGED <<verdict, sentVars>>
    <3>1. /\ [res EXCEPT !.failedAt = n] \in Result /\ [res EXCEPT !.failedAt = n].failedAt = n
          /\ [res EXCEPT !.failedAt = n].stepsRun = res.stepsRun
          /\ [res EXCEPT !.failedAt = n].refused = res.refused
      BY <1>1, Variants DEF Alike, Result
    <3>2. /\ pc' = "done" /\ res' \in Result
          /\ res'.stepsRun = res.stepsRun /\ res'.refused = res.refused /\ res'.failedAt = n /\ ~res'.ok
      BY <1>1, <2>1, <3>1 DEF Finish, Result
    <3> QED BY <1>9, <2>1, <3>2 DEF Found, Reported
  <2>2. CASE pc' = "act" /\ UNCHANGED <<verdict, res>>
    BY <1>3, <1>9, <2>2, Variants DEF Found
  <2>3. CASE pc' = "threw" /\ UNCHANGED <<verdict, res>>
    BY <1>3, <1>9, <2>3, Variants DEF Found
  <2>4. CASE Stop(res)
    BY <1>3, <1>9, <2>4, Variants DEF Found
  <2>5. CASE Step.tool = "click" /\ Return("skipped", res)
    BY <1>2, <1>3, <1>9, <2>5, Variants DEF Found
  <2> QED BY <1>9, <2>1, <2>2, <2>3, <2>4, <2>5 DEF Found
<1>10. CASE Look
  <2>1. CASE Return("stop", [Prepared EXCEPT !.failedAt = n, !.assertFailed = TRUE])
    BY <1>a, <1>10, <2>1, Variants DEF Look
  <2>2. CASE pc' = "verify" /\ res' = Prepared /\ UNCHANGED verdict
    BY <1>3, <1>10, <2>2, Variants DEF Look
  <2>3. CASE Stop(res) \/ Stop(Prepared)
    BY <1>3, <1>10, <2>3, Variants DEF Look
  <2>4. CASE IsRead /\ Return("skipped", res)
    BY <1>2, <1>3, <1>10, <2>4, Variants DEF Look, IsRead
  <2> QED BY <1>10, <2>1, <2>2, <2>3, <2>4 DEF Look
<1>11. CASE Act
  BY <1>2, <1>3, <1>11, Variants DEF Act
<1>12. CASE Repeat
  BY <1>2, <1>3, <1>12, Variants DEF Repeat
<1>13. CASE Pass
  <2>1. PICK r \in Bound, unseen \in BOOLEAN : Return("ran", [r EXCEPT !.unobserved = @ \/ unseen])
    BY <1>13 DEF Pass
  <2>2. Alike([r EXCEPT !.unobserved = @ \/ unseen])
    BY Variants DEF Alike, Result
  <2> QED BY <1>3, <1>13, <2>1, <2>2 DEF Pass
<1>14. CASE Refuse
  <2>1. PICK r \in Bound, gate \in BOOLEAN : Stop([r EXCEPT !.stopGate = gate])
    BY <1>14 DEF Refuse
  <2>2. Alike([r EXCEPT !.stopGate = gate])
    BY Variants DEF Alike, Result
  <2> QED BY <1>3, <1>14, <2>1, <2>2 DEF Refuse
<1>15. CASE Lost
  BY <1>2, <1>3, <1>15, Variants DEF Lost
<1> QED BY <1>4, <1>5, <1>6, <1>7, <1>8, <1>9, <1>10, <1>11, <1>12, <1>13, <1>14, <1>15 DEF Work
\* The step after this one, or the end.
LEMMA OnwardType ==
    ASSUME PosType, n <= Len(skill), NEW r \in Result, r.stepsRun = n, r.failedAt = 0, NEW h, Onward(r, h), UNCHANGED skill
    PROVE  PosType' /\ pc' \in {"gate", "top", "done"} /\ ResType' /\ Place'
<1>1. n \in Nat /\ Len(skill) \in Nat /\ n >= 1 /\ n' = n + 1 /\ pass' = 0
  BY Procedure DEF PosType, Onward
<1>2. PosType'
  BY <1>1, PassAssumption DEF PosType
<1>3. CASE n = Len(skill)
  <2>1. Finish(r, h)
    BY <1>3 DEF Onward
  <2>2. pc' = "done" /\ res' \in Result /\ res'.stepsRun = n
    BY <2>1, FinishType
  <2> QED BY <1>1, <1>2, <2>2 DEF ResType, Result, Place, AtWork
<1>4. CASE n # Len(skill)
  <2>1. pc' = Enter(n + 1) /\ res' = r
    BY <1>4 DEF Onward
  <2>2. (pc = "gate")' => GateAt(n)'
    BY <1>1, <2>1 DEF Enter, GateAt
  <2> QED BY <1>1, <1>2, <1>4, <2>1, <2>2 DEF ResType, Result, Place, AtWork, Enter
<1> QED BY <1>3, <1>4

\* The variables that say where the replay is and what it will report.
LEMMA PlaceStep ==
    ASSUME PosType, PcType, ResType, FlagType, Place, Behind, Next
    PROVE  PosType' /\ PcType' /\ ResType' /\ Place'
<1>1. skill' = skill
  BY DEF Next, Run, Begin, Gate, Top, Loop, Checks, Resolve, Heal, Navigate, Absent, Found,
         Look, Act, Repeat, Pass, Refuse, Lost, Settle, Abort, posVars
<1>2. Result' = Result
  BY <1>1 DEF Result
<1>3. n \in Nat /\ n >= 1 /\ Len(skill) \in Nat /\ pass \in Nat
  BY Procedure DEF PosType
<1>a. (pc # "done" => n \in 0..Len(skill)) /\ (pc \notin {"settle", "done", "threw"} => res.failedAt = 0)
  BY <1>3 DEF Place, Behind
<1>4. \A i \in Nat : GateAt(i)' <=> GateAt(i)
  BY <1>1 DEF GateAt
<1> USE <1>1, <1>2, <1>3, <1>a, <1>4 DEF PosType, PcType, ResType, Place, AtWork, posVars
<1>5. CASE Begin
  <2>1. pc' = "done" \/ pc' = Enter(1)
    BY <1>5 DEF Begin
  <2>2. res' \in Result /\ res'.stepsRun = res.stepsRun
    BY <1>5 DEF Begin, Result
  <2> QED BY <1>5, <2>1, <2>2 DEF Begin, Enter
<1>6. CASE Gate
  <2>1. PICK unseen \in BOOLEAN : res' = res \/ res' = GateRefusal(unseen)
    BY <1>6 DEF Gate
  <2>2. res' \in Result /\ res'.stepsRun = res.stepsRun
    <3>1. n \in 0..Len(skill)
      BY <1>6 DEF Gate
    <3>2. GateRefusal(unseen) \in Result /\ GateRefusal(unseen).stepsRun = res.stepsRun
      <4>1. CASE res.acted
        BY <3>1, <4>1 DEF GateRefusal, Result
      <4>2. CASE ~res.acted
        BY <3>1, <4>2 DEF GateRefusal, Result
      <4> QED BY <4>1, <4>2
    <3> QED BY <2>1, <3>2
  <2> QED BY <1>6, <2>2 DEF Gate
<1>7. CASE Top
  <2>2. res' \in Result /\ res'.stepsRun = res.stepsRun
    <3>1. CASE aborted
      <4>1. [res EXCEPT !.failedAt = n] \in Result /\ [res EXCEPT !.failedAt = n].stepsRun = res.stepsRun
        BY <1>7 DEF Result, Top
      <4> QED BY <1>7, <3>1, <4>1, FinishType DEF Top
    <3>2. CASE ~aborted
      BY <1>7, <3>2 DEF Top
    <3> QED BY <3>1, <3>2
  <2>3. pc' \in {"done", "loop", "body"} /\ (pc' = "loop" => skill[n].tool = "loop") /\ (pc' = "body" => skill[n].tool # "loop")
    BY <1>7 DEF Top, Finish
  <2>4. n' = n /\ pass' = pass /\ verdict' = verdict /\ pass = 0 /\ n <= Len(skill)
    BY <1>7 DEF Top
  <2> QED BY <2>2, <2>3, <2>4
<1>8. CASE Loop
  <2>1. CASE /\ pass < MaxPass /\ pass' = pass + 1 /\ pc' = "body" /\ UNCHANGED <<n, res>>
    BY <1>8, <2>1, PassAssumption DEF Loop
  <2>2. CASE Onward([res EXCEPT !.stepsRun = @ + 1], how)
    <3> DEFINE r == [res EXCEPT !.stepsRun = @ + 1]
    <3>1. r \in Result /\ r.stepsRun = n /\ r.failedAt = 0
      BY <1>8 DEF Result, Loop
    <3> QED BY <1>8, <2>2, <3>1, OnwardType DEF Loop
  <2>3. CASE Finish([res EXCEPT !.failedAt = n], how) /\ UNCHANGED <<n, pass>>
    <3>1. [res EXCEPT !.failedAt = n] \in Result /\ [res EXCEPT !.failedAt = n].stepsRun = res.stepsRun
      BY <1>8 DEF Result, Loop
    <3> QED BY <1>8, <2>3, <3>1, FinishType DEF Loop
  <2> QED BY <1>8, <2>1, <2>2, <2>3 DEF Loop
<1>9. CASE Work
  <2>1. n \in Steps /\ Step \in StepType
    BY <1>9, AtStep DEF Work, Checks, Resolve, Heal, Navigate, Absent, Found, Look, Act, Repeat, Pass, Refuse, Lost
  <2>2. UNCHANGED posVars /\ Reported /\ AtWork /\ pc # "settle"
    BY <1>9, <2>1, WorkStep
  <2> QED BY <2>2 DEF Reported
<1>10. CASE Settle
  <2> DEFINE r == IF Final # verdict THEN [res EXCEPT !.failedAt = n, !.assertFailed = TRUE] ELSE res
             h == [how EXCEPT ![Tag] = CASE Final = "ran" -> "passed" [] Final = "skipped" -> "skipped" [] OTHER -> "stopped"]
  <2>1. r \in Result /\ r.stepsRun = res.stepsRun /\ verdict' = "none"
    BY <1>10 DEF Result, Settle
  <2>2. CASE Final = "stop"
    <3>1. Finish(r, h) /\ UNCHANGED <<n, pass>>
      BY <1>10, <2>2 DEF Settle
    <3> QED BY <2>1, <3>1, FinishType
  <2>3. CASE Final # "stop"
    <3>1. Final = verdict /\ r = res /\ res.failedAt = 0
      BY <1>10, <2>3 DEF Final, Behind, Settle
    <3>2. CASE pass > 0
      <4>1. pc' = "loop" /\ res' = res /\ UNCHANGED <<n, pass>>
        BY <1>10, <2>3, <3>1, <3>2 DEF Settle, Counted
      <4> QED BY <1>10, <2>1, <3>2, <4>1 DEF Settle
    <3>3. CASE ~(pass > 0)
      <4>1. Onward([res EXCEPT !.stepsRun = @ + 1], h)
        BY <1>10, <2>3, <3>1, <3>3 DEF Settle, Counted
      <4>2. /\ [res EXCEPT !.stepsRun = @ + 1] \in Result
            /\ [res EXCEPT !.stepsRun = @ + 1].stepsRun = n /\ [res EXCEPT !.stepsRun = @ + 1].failedAt = 0
        BY <1>10, <3>1 DEF Result, Settle
      <4> QED BY <1>10, <2>1, <4>1, <4>2, OnwardType DEF Settle
    <3> QED BY <3>2, <3>3
  <2> QED BY <2>2, <2>3
<1>11. CASE Abort
  BY <1>11 DEF Abort
<1> QED BY <1>5, <1>6, <1>7, <1>8, <1>9, <1>10, <1>11 DEF Next, Run, Work
\* What was dispatched, seen and settled changes only for the step at work.
Elsewhere ==
    /\ SentType' /\ HowType' /\ OnceType'
    /\ \A t \in Tags : t # Tag =>
         /\ sent'[t] = sent[t] /\ seen'[t] = seen[t] /\ how'[t] = how[t]
         /\ (t \in resubmitted' <=> t \in resubmitted) /\ (t \in refilled' <=> t \in refilled)

LEMMA SendHere ==
    ASSUME SentType, Tag \in Tags, NEW k \in Nat, NEW what \in Seen, Send(k, what)
    PROVE  /\ SentType'
           /\ sent'[Tag] = sent[Tag] + k
           /\ seen'[Tag] = IF k = 0 THEN seen[Tag] ELSE what
           /\ \A t \in Tags : t # Tag => sent'[t] = sent[t] /\ seen'[t] = seen[t]
<1>1. sent[Tag] \in Nat /\ seen[Tag] \in Seen
  BY DEF SentType
<1>2. sent' = [sent EXCEPT ![Tag] = sent[Tag] + k] /\ sent' \in [Tags -> Nat]
  BY <1>1 DEF Send, SentType
<1>3. seen' \in [Tags -> Seen] /\ seen' = IF k = 0 THEN seen ELSE [seen EXCEPT ![Tag] = what]
  BY <1>1 DEF Send, SentType
<1> QED BY <1>1, <1>2, <1>3 DEF SentType

LEMMA FrameStep ==
    ASSUME PosType, ResType, FlagType, OnceType, SentType, HowType, Place, Next
    PROVE  Elsewhere /\ (pc \in {"begin", "gate", "top", "loop", "done", "threw"} => UNCHANGED <<sentVars, how, onceVars>>)
<1> DEFINE Quiet == UNCHANGED <<sentVars, how, onceVars>>
<1> USE DEF sentVars, onceVars
<1>1. Tags' = Tags
  BY DEF Tags
<1>2. Quiet => Elsewhere
  BY <1>1 DEF Elsewhere, SentType, HowType, OnceType
<1>3. CASE pc \notin {"body", "resolve", "missed", "found", "act", "repeat", "verify", "settle"}
  <2>1. Begin \/ Gate \/ Top \/ Loop \/ Abort
    BY <1>3 DEF Next, Run, Checks, Resolve, Heal, Navigate, Absent, Found, Look, Act, Repeat, Pass, Refuse, Lost, Settle
  <2>2. Quiet
    BY <2>1 DEF Begin, Gate, Top, Loop, Abort
  <2> QED BY <1>2, <2>2
<1>4. CASE pc \in {"body", "resolve", "missed", "found", "act", "repeat", "verify", "settle"}
  <2>0. Tag \in Tags
    BY <1>4, AtStep
  <2>1. CASE Work
    <3>1. CASE Quiet
      BY <1>2, <1>4, <3>1
    <3>2. CASE UNCHANGED <<how, onceVars>> /\ \E k \in Nat, what \in Seen : Send(k, what)
      <4>1. PICK k \in Nat, what \in Seen : Send(k, what)
        BY <3>2
      <4> QED BY <1>1, <1>4, <2>0, <3>2, <4>1, SendHere DEF Elsewhere, HowType, OnceType
    <3>3. CASE Lost
      <4>1. /\ seen' = [seen EXCEPT ![Tag] = "lost"] /\ UNCHANGED <<sent, how>>
            /\ \/ resubmitted' = resubmitted \cup {Tag} /\ refilled' = refilled
               \/ refilled' = refilled \cup {Tag} /\ resubmitted' = resubmitted
        BY <3>3 DEF Lost
      <4>2. SentType'
        BY <2>0, <4>1 DEF SentType, Seen
      <4> QED BY <1>1, <1>4, <2>0, <4>1, <4>2 DEF Elsewhere, HowType, OnceType, SentType
    <3>4. (\/ Checks \/ Resolve \/ Heal \/ Absent \/ Pass \/ Refuse) => Quiet
      BY DEF Checks, Resolve, Heal, Absent, Pass, Refuse
    <3>5. Navigate \/ Found \/ Look \/ Act \/ Repeat =>
            Quiet \/ (UNCHANGED <<how, onceVars>> /\ \E k \in Nat, what \in Seen : Send(k, what))
      <4>1. 0..1 \subseteq Nat /\ 1..2 \subseteq Nat /\ 0..2 \subseteq Nat /\ {0} \subseteq Nat /\ {"unknown", "elsewhere", "shut", "no-effect"} \subseteq Seen
        BY DEF Seen
      <4>2. Navigate => UNCHANGED <<how, onceVars>> /\ \E k \in Nat, what \in Seen : Send(k, what)
        BY <4>1 DEF Navigate
      <4>3. Found => Quiet \/ (UNCHANGED <<how, onceVars>> /\ \E k \in Nat, what \in Seen : Send(k, what))
        BY <4>1 DEF Found
      <4>4. Look => Quiet \/ (UNCHANGED <<how, onceVars>> /\ \E k \in Nat, what \in Seen : Send(k, what))
        BY <4>1 DEF Look
      <4>5. Act \/ Repeat => Quiet \/ (UNCHANGED <<how, onceVars>> /\ \E k \in Nat, what \in Seen : Send(k, what))
        BY <4>1 DEF Act, Repeat
      <4> QED BY <4>2, <4>3, <4>4, <4>5
    <3> QED BY <2>1, <3>1, <3>2, <3>3, <3>4, <3>5 DEF Work
  <2>2. CASE Settle
    <3>1. /\ \E e \in {"passed", "skipped", "stopped"} : how' = [how EXCEPT ![Tag] = e]
          /\ UNCHANGED <<sentVars, onceVars>>
      BY <2>2 DEF Settle
    <3> QED BY <1>1, <1>4, <2>0, <3>1 DEF Elsewhere, SentType, HowType, OnceType
  <2>3. CASE Abort
    BY <1>2, <1>4, <2>3 DEF Abort
  <2> QED BY <1>4, <2>1, <2>2, <2>3 DEF Next, Run, Work, Begin, Gate, Top, Loop
<1> QED BY <1>3, <1>4

\* The rest of TypeOK.
LEMMA FlagStep ==
    ASSUME FlagType, ResType, Next
    PROVE  FlagType'
<1>0. res.acted \in BOOLEAN
  BY DEF ResType, Result
<1> USE <1>0 DEF FlagType, runVars
<1>1. CASE Begin \/ Gate \/ Top \/ Loop \/ Settle \/ Abort
  BY <1>1 DEF Begin, Gate, Top, Loop, Settle, Abort
<1>2. CASE Checks \/ Resolve \/ Heal \/ Navigate
  BY <1>2 DEF Checks, Resolve, Heal, Navigate
<1>3. CASE Absent \/ Found \/ Look
  BY <1>3 DEF Absent, Found, Look
<1>4. CASE Act \/ Repeat \/ Refuse \/ Lost
  BY <1>4 DEF Act, Repeat, Refuse, Lost
<1>5. CASE Pass
  BY <1>5 DEF Pass
<1> QED BY <1>1, <1>2, <1>3, <1>4, <1>5 DEF Next, Run

LEMMA HealsStep ==
    ASSUME PosType, Place, heals \in Seq(Proposal), Next
    PROVE  heals' \in Seq(Proposal) /\ Proposal' = Proposal /\ HealsType'
<1>0. Tags' = Tags /\ Proposal' = Proposal
  BY DEF Tags, Proposal
<1>1. SUFFICES heals' \in Seq(Proposal)
  BY <1>0 DEF HealsType
<1>2. CASE Heal
  <2>1. Tag \in Tags
    BY <1>2, AtStep DEF Heal
  <2>2. PICK state \in {"refused", "pending"} : heals' = Append(heals, [tag |-> Tag, state |-> state])
    BY <1>2 DEF Heal
  <2>3. [tag |-> Tag, state |-> state] \in Proposal
    BY <2>1 DEF Proposal
  <2> QED BY <2>2, <2>3
<1>3. CASE Settle
  <2>1. heals' = [i \in DOMAIN heals |->
                   IF heals[i].state # "pending" THEN heals[i]
                   ELSE [heals[i] EXCEPT !.state = IF Verified(Final) THEN "verified" ELSE "wrong"]]
    BY <1>3 DEF Settle
  <2>2. ASSUME NEW i \in DOMAIN heals PROVE heals'[i] \in Proposal
    <3>1. heals[i] \in Proposal
      OBVIOUS
    <3> QED BY <2>1, <3>1 DEF Proposal
  <2>3. DOMAIN heals = 1..Len(heals) /\ Len(heals) \in Nat
    OBVIOUS
  <2> QED BY <2>1, <2>2, <2>3
<1>4. CASE ~Heal /\ ~Settle
  BY <1>4 DEF Next, Run, Begin, Gate, Top, Loop, Checks, Resolve, Navigate, Absent, Found,
       Look, Act, Repeat, Pass, Refuse, Lost, Abort
<1> QED BY <1>2, <1>3, <1>4
\* How the replay moves over the steps and their passes.
LEMMA Motion ==
    ASSUME PosType, PcType, FlagType, ResType, Place, Next
    PROVE  /\ \/ n' = n /\ pass' >= pass /\ (pc' \in {"begin", "gate", "top"} => pc \in {"begin", "gate", "top"})
              \/ /\ n' = n + 1 /\ pass' = 0 /\ pc' \in {"gate", "top", "done"}
                 /\ (pc = "settle" /\ Settle) \/ (pc = "loop" /\ UNCHANGED how)
           /\ AtWork' => /\ n' = n /\ how' = how
                         /\ \/ AtWork /\ pass' = pass
                            \/ pc = "top" /\ pass = 0 /\ pass' = 0
                            \/ pc = "loop" /\ pass' = pass + 1
<1>1. n \in Nat /\ pass \in Nat
  BY Procedure
<1>2. \A r, h : Finish(r, h) => pc' = "done"
  BY DEF Finish
<1>3. \A r, h : Onward(r, h) => n' = n + 1 /\ pass' = 0 /\ pc' \in {"gate", "top", "done"}
  BY <1>2 DEF Onward, Enter
<1> USE <1>1 DEF posVars, AtWork
<1>4. CASE Begin
  BY <1>4 DEF Begin, Enter
<1>5. CASE Gate
  BY <1>5 DEF Gate
<1>6. CASE Top
  BY <1>2, <1>6 DEF Top, Place
<1>7. CASE Loop
  BY <1>2, <1>3, <1>7 DEF Loop
<1>8. CASE Work
  <2>1. n \in Steps /\ Step \in StepType
    BY <1>8, AtStep DEF Work, Checks, Resolve, Heal, Navigate, Absent, Found, Look, Act, Repeat, Pass, Refuse, Lost
  <2>2. UNCHANGED posVars /\ Reported /\ AtWork /\ pc # "settle"
    BY <1>8, <2>1, WorkStep
  <2>3. how' = how
    BY <1>8 DEF Work, Checks, Resolve, Heal, Navigate, Absent, Found, Look, Act, Repeat, Pass, Refuse, Lost
  <2> QED BY <2>2, <2>3 DEF Reported
<1>9. CASE Settle
  <2>1. CASE UNCHANGED <<n, pass>>
    <3>1. pc' \in {"done", "loop"}
      BY <1>2, <1>9, <2>1, <1>3 DEF Settle
    <3> QED BY <1>9, <2>1, <3>1 DEF Settle
  <2>2. CASE ~UNCHANGED <<n, pass>>
    <3>1. PICK r, h : Onward(r, h)
      BY <1>9, <2>2 DEF Settle
    <3> QED BY <1>3, <1>9, <3>1 DEF Settle
  <2> QED BY <2>1, <2>2
<1>10. CASE Abort
  BY <1>10 DEF Abort
<1> QED BY <1>4, <1>5, <1>6, <1>7, <1>8, <1>9, <1>10 DEF Next, Run, Work

LEMMA AheadStep ==
    ASSUME PosType, PcType, FlagType, ResType, OnceType, SentType, HowType, Place, Ahead, Next, PosType'
    PROVE  Ahead'
<1>1. n \in Nat /\ pass \in Nat /\ pass' \in 0..MaxPass /\ pass' \in Nat /\ n' \in Nat /\ Tags' = Tags
  BY Procedure, Motion, PassAssumption DEF Tags, PosType
<1>2. Elsewhere /\ (pc \in {"begin", "gate", "top", "loop", "done", "threw"} => UNCHANGED <<sentVars, how, onceVars>>)
  BY FrameStep
<1>3. \A t \in Tags : Untouched(t) /\ t # Tag => Untouched(t)'
  BY <1>1, <1>2 DEF Untouched, Elsewhere
<1>4. UNCHANGED <<sentVars, how, onceVars>> => \A t \in Tags : Untouched(t) => Untouched(t)'
  BY DEF Untouched, sentVars, onceVars
<1>6. ASSUME NEW t \in Tags, t[1] > n' \/ (t[1] = n' /\ (t[2] > pass' \/ pc' \in {"begin", "gate", "top"}))
      PROVE  Untouched(t)'
  <2>1. t[1] \in Nat /\ t[2] \in Nat /\ (t = Tag => t[1] = n /\ t[2] = pass)
    BY TagIs DEF Tag
  <2>2. CASE n' = n + 1
    <3>1. t[1] > n /\ t # Tag
      BY <1>1, <1>6, <2>1, <2>2
    <3>2. Untouched(t)
      BY <3>1 DEF Ahead
    <3> QED BY <1>3, <3>1, <3>2
  <2>3. CASE n' = n /\ pc' \in {"begin", "gate", "top"}
    <3>1. pc \in {"begin", "gate", "top"} /\ pass' >= pass
      BY <1>1, <2>3, Motion
    <3> QED BY <1>1, <1>2, <1>4, <1>6, <2>1, <2>3, <3>1 DEF Ahead
  <2>4. CASE n' = n /\ pc' \notin {"begin", "gate", "top"}
    <3>1. pass' >= pass
      BY <1>1, <2>4, Motion
    <3>2. t[1] > n \/ (t[1] = n /\ t[2] > pass)
      BY <1>1, <1>6, <2>1, <2>4, <3>1
    <3>3. t # Tag
      BY <1>1, <2>1, <3>2
    <3>4. Untouched(t)
      BY <3>2 DEF Ahead
    <3> QED BY <1>3, <3>3, <3>4
  <2> QED BY <2>2, <2>3, <2>4, Motion
<1>7. ASSUME AtWork' PROVE (how[Tag] = "not-run")'
  <2>1. n' = n /\ how' = how
    BY <1>7, Motion
  <2>2. CASE AtWork /\ pass' = pass
    BY <2>1, <2>2 DEF Ahead, Tag
  <2>3. CASE (pc = "top" /\ pass = 0 /\ pass' = 0) \/ (pc = "loop" /\ pass' = pass + 1)
    <3>1. n \in Steps
      BY <2>3, AtStep
    <3>2. <<n, pass'>> \in Tags
      BY <1>1, <3>1, Procedure
    <3>3. Untouched(<<n, pass'>>)
      <4> DEFINE t == <<n, pass'>>
      <4>1. t[1] = n /\ t[2] = pass' /\ (t[2] > pass \/ pc = "top")
        BY <1>1, <2>3
      <4>2. t \in Tags
        BY <3>2
      <4> HIDE DEF t
      <4>3. Untouched(t)
        BY <4>1, <4>2 DEF Ahead
      <4> QED BY <4>3 DEF t
    <3> QED BY <2>1, <3>3 DEF Untouched, Tag
  <2> QED BY <1>7, <2>2, <2>3, Motion
<1> QED BY <1>1, <1>6, <1>7 DEF Ahead
LEMMA BehindStep ==
    ASSUME PosType, PcType, FlagType, ResType, OnceType, SentType, HowType, Place, Behind, Next
    PROVE  Behind'
<1>1. /\ n \in Nat /\ pass \in Nat /\ pc # "done" /\ n \in Steps /\ Tag \in Tags /\ Step \in StepType
      /\ skill' = skill /\ Tags' = Tags /\ Len(skill) \in Nat /\ n # 0 /\ n \in 0..Len(skill)
  <2>1. pc # "done" /\ skill' = skill
    BY DEF Next, Run, Begin, Gate, Top, Loop, Checks, Resolve, Heal, Navigate, Absent, Found,
           Look, Act, Repeat, Pass, Refuse, Lost, Settle, Abort, posVars
  <2> QED BY <2>1, Procedure, AtStep DEF Tags, Steps
<1>2. \A t \in Tags : how[t] # "stopped"
  BY <1>1 DEF Behind
<1>3. ~res.ok
  BY <1>1 DEF Behind
\* Nothing is settled, and the replay stays at its step.
<1>4. ASSUME UNCHANGED <<n, how>>, ~res'.ok,
             pc' \notin {"settle", "done", "threw"} => res'.failedAt = 0,
             pc' = "settle" => /\ pass' = pass /\ verdict' \in {"ran", "skipped", "stop"}
                               /\ (res'.failedAt # 0) <=> verdict' = "stop"
                               /\ Has("assert") => verdict' # "skipped"
      PROVE  Behind'
  <2>1. pc' = "settle" => (Has("assert") <=> Has("assert")')
    BY <1>1, <1>4 DEF Has, Step
  <2> QED BY <1>1, <1>2, <1>4, <2>1 DEF Behind
\* One step more is behind.
<1>5. ASSUME NEW r \in Result, r.stepsRun = n, r.failedAt = 0, Onward(r, how'), ~r.ok,
             \A t \in Tags : how'[t] # "stopped",
             \A t \in Tags : t # Tag => how'[t] = how[t],
             skill[n].tool # "loop" => pass = 0 /\ how'[Tag] \in {"passed", "skipped"},
             "assert" \in skill[n].marks => pass = 0 /\ how'[Tag] = "passed"
      PROVE  Behind'
  <2>1. n' = n + 1
    BY <1>5 DEF Onward
  <2>2. ASSUME NEW i \in 1..n
        PROVE  /\ skill[i].tool # "loop" => how'[<<i, 0>>] \in {"passed", "skipped"}
               /\ "assert" \in skill[i].marks => how'[<<i, 0>>] = "passed"
    <3>1. CASE i = n
      BY <1>5, <3>1 DEF Tag
    <3>2. CASE i # n
      <4>1. i \in 1..(n - 1) /\ i \in Steps
        BY <1>1, <3>2 DEF Steps
      <4>2. <<i, 0>> \in Tags /\ <<i, 0>> # Tag
        BY <3>2, <4>1, Procedure, PassAssumption DEF Tag
      <4> QED BY <1>5, <4>1, <4>2 DEF Behind
    <3> QED BY <3>1, <3>2
  <2>3. CASE n = Len(skill)
    <3>1. /\ pc' = "done"
          /\ res'.ok => r.stepsRun = Len(skill) /\ res'.failedAt = 0 /\ ~ObservedNothing(how')
      BY <1>5, <2>3, FinishType DEF Onward
    <3>2. ObservedNothing(how)' <=> ObservedNothing(how')
      BY <1>1 DEF ObservedNothing, Steps, Reads
    <3> QED BY <1>1, <1>5, <2>1, <2>2, <2>3, <3>1, <3>2 DEF Behind
  <2>4. CASE n # Len(skill)
    <3>1. pc' \in {"gate", "top"} /\ res' = r
      BY <1>5, <2>4 DEF Onward, Enter
    <3> QED BY <1>1, <1>5, <2>1, <2>2, <3>1 DEF Behind
  <2> QED BY <2>3, <2>4
<1>6. CASE Begin
  BY <1>3, <1>4, <1>6 DEF Begin, Behind, ResType, Result, posVars, Enter
<1>7. CASE Gate
  <2>1. UNCHANGED <<n, how>> /\ pc' \in {"done", "top"}
    BY <1>7 DEF Gate, posVars
  <2>2. ~res'.ok /\ (pc' = "top" => res' = res)
    BY <1>3, <1>7 DEF Gate, GateRefusal, ResType, Result
  <2> QED BY <1>4, <1>7, <2>1, <2>2 DEF Gate, Behind
<1>8. CASE Top
  <2>1. UNCHANGED <<n, how>>
    BY <1>8 DEF Top, posVars
  <2>2. CASE aborted
    <3>1. [res EXCEPT !.failedAt = n] \in Result /\ [res EXCEPT !.failedAt = n].failedAt = n
      BY <1>1 DEF ResType, Result
    <3>2. pc' = "done" /\ ~res'.ok
      BY <1>1, <1>8, <2>2, <3>1, FinishType DEF Top
    <3> QED BY <1>4, <2>1, <3>2
  <2>3. CASE ~aborted
    BY <1>3, <1>4, <1>8, <2>1, <2>3 DEF Top, Behind
  <2> QED BY <2>2, <2>3
<1>9. CASE Loop
  <2>1. CASE /\ pass < MaxPass /\ pass' = pass + 1 /\ pc' = "body" /\ UNCHANGED <<n, res>>
    BY <1>3, <1>4, <1>9, <2>1 DEF Loop, Behind
  <2>2. CASE Onward([res EXCEPT !.stepsRun = @ + 1], how)
    <3> DEFINE r == [res EXCEPT !.stepsRun = @ + 1]
    <3>1. r \in Result /\ r.stepsRun = n /\ r.failedAt = 0 /\ ~r.ok
      BY <1>1, <1>3, <1>9 DEF ResType, Result, Loop, Place, Behind
    <3>2. how' = how /\ skill[n].tool = "loop" /\ "assert" \notin skill[n].marks
      BY <1>1, <1>9, Procedure DEF Loop, Place, StepType
    <3> QED BY <1>2, <1>5, <2>2, <3>1, <3>2
  <2>3. CASE Finish([res EXCEPT !.failedAt = n], how) /\ UNCHANGED <<n, pass>>
    <3>1. [res EXCEPT !.failedAt = n] \in Result /\ [res EXCEPT !.failedAt = n].failedAt = n
      BY <1>1 DEF ResType, Result
    <3>2. pc' = "done" /\ ~res'.ok
      BY <1>1, <2>3, <3>1, FinishType
    <3> QED BY <1>4, <1>9, <2>3, <3>2 DEF Loop
  <2> QED BY <1>9, <2>1, <2>2, <2>3 DEF Loop
<1>10. CASE Work
  <2>1. UNCHANGED posVars /\ Reported /\ AtWork /\ pc # "settle"
    BY <1>1, <1>10, WorkStep
  <2>2. how' = how
    BY <1>10 DEF Work, Checks, Resolve, Heal, Navigate, Absent, Found, Look, Act, Repeat, Pass, Refuse, Lost
  <2>3. pc # "threw" /\ res.failedAt = 0
    BY <2>1 DEF AtWork, Behind
  <2>4. UNCHANGED <<n, pass>>
    BY <2>1 DEF posVars
  <2>5. ~res'.ok /\ (pc' \notin {"settle", "done", "threw"} => res'.failedAt = 0)
    BY <1>3, <2>1, <2>3 DEF Reported
  <2>6. pc' = "settle" => /\ verdict' \in {"ran", "skipped", "stop"}
                          /\ (res'.failedAt # 0) <=> verdict' = "stop"
                          /\ Has("assert") => verdict' # "skipped"
    BY <1>1, <2>1, <2>3 DEF Reported
  <2> QED BY <1>4, <2>2, <2>4, <2>5, <2>6
<1>11. CASE Settle
  <2> DEFINE r == IF Final # verdict THEN [res EXCEPT !.failedAt = n, !.assertFailed = TRUE] ELSE res
             h == [how EXCEPT ![Tag] = CASE Final = "ran" -> "passed" [] Final = "skipped" -> "skipped" [] OTHER -> "stopped"]
  <2>1. pc = "settle" /\ how' = h /\ \A t \in Tags : t # Tag => how'[t] = how[t]
    BY <1>1, <1>11 DEF Settle, HowType
  <2>2. how'[Tag] = CASE Final = "ran" -> "passed" [] Final = "skipped" -> "skipped" [] OTHER -> "stopped"
    BY <1>1, <2>1 DEF HowType
  <2>3. /\ verdict \in {"ran", "skipped", "stop"}
        /\ (res.failedAt # 0) <=> verdict = "stop"
        /\ Has("assert") => verdict # "skipped"
    BY <2>1 DEF Behind
  <2>4. CASE Final = "stop"
    <3>1. Finish(r, h) /\ UNCHANGED <<n, pass>>
      BY <1>11, <2>4 DEF Settle
    <3>2. r \in Result /\ r.failedAt # 0
      BY <1>1, <2>3, <2>4 DEF ResType, Result
    <3>3. pc' = "done" /\ res'.failedAt # 0 /\ ~res'.ok
      BY <3>1, <3>2, FinishType
    <3>4. ASSUME NEW i \in 1..(n - 1)
          PROVE  /\ skill[i].tool # "loop" => how'[<<i, 0>>] \in {"passed", "skipped"}
                 /\ "assert" \in skill[i].marks => how'[<<i, 0>>] = "passed"
      <4>1. i \in Steps /\ i # n
        BY <1>1 DEF Steps
      <4>2. <<i, 0>> \in Tags /\ <<i, 0>> # Tag
        BY <4>1, Procedure, PassAssumption DEF Tag
      <4> QED BY <2>1, <4>2 DEF Behind
    <3> QED BY <1>1, <3>1, <3>3, <3>4 DEF Behind
  <2>5. CASE Final # "stop"
    <3>1. Final = verdict /\ verdict # "stop" /\ res.failedAt = 0 /\ how'[Tag] \in {"passed", "skipped"}
      BY <2>2, <2>3, <2>5 DEF Final
    <3>2. \A t \in Tags : how'[t] # "stopped"
      BY <1>2, <2>1, <3>1
    <3>3. CASE pass > 0
      <4>1. pc' = "loop" /\ res' = res /\ UNCHANGED <<n, pass>>
        BY <1>11, <2>5, <3>1, <3>3 DEF Settle, Counted
      <4>2. ASSUME NEW i \in 1..(n - 1)
            PROVE  /\ skill[i].tool # "loop" => how'[<<i, 0>>] \in {"passed", "skipped"}
                   /\ "assert" \in skill[i].marks => how'[<<i, 0>>] = "passed"
        <5>1. i \in Steps /\ i # n
          BY <1>1 DEF Steps
        <5>2. <<i, 0>> \in Tags /\ <<i, 0>> # Tag
          BY <5>1, Procedure, PassAssumption DEF Tag
        <5> QED BY <2>1, <5>2 DEF Behind
      <4> QED BY <1>1, <1>3, <3>1, <3>2, <4>1, <4>2 DEF Behind
    <3>4. CASE ~(pass > 0)
      <4> DEFINE q == [res EXCEPT !.stepsRun = @ + 1]
      <4>1. Onward(q, how')
        BY <1>11, <2>1, <2>5, <3>1, <3>4 DEF Settle, Counted
      <4>2. q \in Result /\ q.stepsRun = n /\ q.failedAt = 0 /\ ~q.ok
        BY <1>1, <1>3, <3>1 DEF ResType, Result, Place
      <4>3. pass = 0 /\ skill[n].tool # "loop" /\ Step = skill[n]
        BY <1>1, <2>1, <3>4 DEF Place, AtWork, Step
      <4>4. "assert" \in skill[n].marks => how'[Tag] = "passed"
        BY <2>2, <2>3, <3>1, <4>3 DEF Has
      <4> HIDE DEF q
      <4> QED BY <1>5, <2>1, <3>1, <3>2, <4>1, <4>2, <4>3, <4>4
    <3> QED BY <3>3, <3>4
  <2> QED BY <2>4, <2>5
<1>12. CASE Abort
  <2>1. UNCHANGED <<posVars, pc, res, verdict, how>>
    BY <1>12 DEF Abort
  <2> QED BY <1>3, <1>4, <2>1 DEF Behind, posVars
<1> QED BY <1>6, <1>7, <1>8, <1>9, <1>10, <1>11, <1>12 DEF Next, Run, Work
LEMMA ProposalsStep ==
    ASSUME PosType, PcType, FlagType, ResType, OnceType, SentType, HowType, Place, Ahead, Proposals, Next
    PROVE  Proposals'
<1>1. pc # "done" /\ pc # "threw" /\ skill' = skill
  BY DEF Next, Run, Begin, Gate, Top, Loop, Checks, Resolve, Heal, Navigate, Absent, Found,
         Look, Act, Repeat, Pass, Refuse, Lost, Settle, Abort, posVars
<1>2. n \in Steps /\ Tag \in Tags /\ Step \in StepType
  BY <1>1, AtStep
<1>3. heals' \in Seq(Proposal) /\ Proposal' = Proposal
  BY HealsStep DEF Proposals
<1>4. ASSUME NEW i \in DOMAIN heals
      PROVE  heals[i] \in Proposal /\ heals[i].tag \in Tags
  <2>1. heals[i] \in Proposal
    BY DEF Proposals
  <2> QED BY <2>1 DEF Proposal
<1>5. Elsewhere
  BY FrameStep
\* No proposal is made, and none is settled.
<1>6. ASSUME UNCHANGED <<heals, how>>,
             AtWork => UNCHANGED <<n, pass>> /\ (AtWork' \/ pc' = "threw" \/ pass # 0)
      PROVE  Proposals'
  <2> SUFFICES ASSUME NEW i \in DOMAIN heals
               PROVE  /\ heals[i].state = "pending" => heals[i].tag = Tag' /\ pass' = 0 /\ (AtWork' \/ pc' = "threw")
                      /\ heals[i].state = "verified" => how[heals[i].tag] = "passed"
    BY <1>3, <1>6 DEF Proposals
  <2> QED BY <1>1, <1>6 DEF Proposals, Tag
<1>7. CASE Begin \/ Gate \/ Top \/ Loop
  BY <1>6, <1>7 DEF Begin, Gate, Top, Loop, AtWork
<1>8. CASE Work
  <2>1. UNCHANGED posVars /\ Reported /\ AtWork /\ pc # "settle"
    BY <1>2, <1>8, WorkStep DEF Proposals
  <2>2. how' = how /\ UNCHANGED <<n, pass>>
    BY <1>8, <2>1 DEF Work, Checks, Resolve, Heal, Navigate, Absent, Found, Look, Act, Repeat, Pass, Refuse, Lost, posVars
  <2>3. AtWork' \/ pc' = "threw" \/ pass # 0
    <3>1. CASE Found
      BY <2>1, <3>1 DEF Found, Stop, Return, AtWork
    <3>2. CASE ~Found
      <4>1. pc' # "done"
        BY <1>8, <3>2 DEF Work, Checks, Resolve, Heal, Navigate, Absent, Look, Act, Repeat, Pass, Refuse, Lost,
             Stop, Return, Missed
      <4> QED BY <2>1, <4>1 DEF Reported, AtWork
    <3> QED BY <3>1, <3>2
  <2>4. CASE Heal
    <3>1. PICK state \in {"refused", "pending"} : heals' = Append(heals, [tag |-> Tag, state |-> state])
      BY <2>4 DEF Heal
    <3>2. pass = 0 /\ AtWork'
      BY <2>4 DEF Heal, AtWork
    <3>3. heals \in Seq(Proposal) /\ Len(heals) \in Nat /\ DOMAIN heals' = 1..(Len(heals) + 1)
      BY <3>1 DEF Proposals
    <3>4. ASSUME NEW i \in DOMAIN heals'
          PROVE  /\ heals'[i].state = "pending" => heals'[i].tag = Tag' /\ pass' = 0
                 /\ heals'[i].state = "verified" => how[heals'[i].tag] = "passed"
      <4>1. CASE i = Len(heals) + 1
        <5>1. heals'[i] = [tag |-> Tag, state |-> state]
          BY <3>1, <3>3, <4>1
        <5> QED BY <2>2, <3>2, <5>1 DEF Tag
      <4>2. CASE i # Len(heals) + 1
        <5>1. i \in DOMAIN heals /\ heals'[i] = heals[i]
          BY <3>1, <3>3, <4>2
        <5> QED BY <2>2, <5>1 DEF Proposals, Tag
      <4> QED BY <4>1, <4>2
    <3> QED BY <1>3, <2>2, <3>2, <3>4 DEF Proposals
  <2>5. CASE ~Heal
    <3>1. heals' = heals
      BY <1>8, <2>5 DEF Work, Checks, Resolve, Navigate, Absent, Found, Look, Act, Repeat, Pass, Refuse, Lost
    <3> QED BY <1>6, <2>2, <2>3, <3>1
  <2> QED BY <2>4, <2>5
<1>9. CASE Settle
  <2>1. pc = "settle" /\ AtWork /\ how[Tag] = "not-run"
    BY <1>9 DEF Settle, AtWork, Ahead
  <2>2. how' = [how EXCEPT ![Tag] = CASE Final = "ran" -> "passed" [] Final = "skipped" -> "skipped" [] OTHER -> "stopped"]
    BY <1>9 DEF Settle
  <2>3. Final = "ran" => how'[Tag] = "passed"
    BY <1>2, <2>2 DEF HowType
  <2>4. heals' = [i \in DOMAIN heals |->
                   IF heals[i].state # "pending" THEN heals[i]
                   ELSE [heals[i] EXCEPT !.state = IF Verified(Final) THEN "verified" ELSE "wrong"]]
    BY <1>9 DEF Settle
  <2>5. ASSUME NEW i \in DOMAIN heals
        PROVE  /\ heals'[i].state # "pending"
               /\ heals'[i].state = "verified" => how'[heals'[i].tag] = "passed"
    <3>1. CASE heals[i].state = "pending"
      <4>1. heals[i].tag = Tag
        BY <3>1 DEF Proposals
      <4>2. heals'[i].tag = Tag /\ heals'[i].state = IF Verified(Final) THEN "verified" ELSE "wrong"
        BY <1>4, <2>4, <3>1, <4>1 DEF Proposal
      <4> QED BY <2>3, <4>2 DEF Verified
    <3>2. CASE heals[i].state # "pending"
      <4>1. heals'[i] = heals[i]
        BY <2>4, <3>2
      <4>2. heals[i].state = "verified" => how[heals[i].tag] = "passed" /\ heals[i].tag # Tag
        BY <2>1 DEF Proposals
      <4> QED BY <1>4, <1>5, <3>2, <4>1, <4>2 DEF Elsewhere
    <3> QED BY <3>1, <3>2
  <2>6. DOMAIN heals' = DOMAIN heals
    BY <2>4
  <2> QED BY <1>3, <2>5, <2>6 DEF Proposals
<1>10. CASE Abort
  BY <1>6, <1>10 DEF Abort, posVars, AtWork
<1> QED BY <1>7, <1>8, <1>9, <1>10 DEF Next, Run, Work
\* What each way to dispatch leaves of Tag.
LEMMA SendZero ==
    ASSUME SentType, Tag \in Tags, NEW what, Send(0, what)
    PROVE  UNCHANGED sentVars
BY DEF Send, SentType, sentVars

HarmlessAfter(t) == sent'[t] = 0 \/ seen'[t] \in {"shut", "elsewhere", "no-effect"}

LEMMA ToldStep ==
    ASSUME PosType, PcType, FlagType, ResType, OnceType, SentType, HowType, Place, Ahead, Behind, Told, Next
    PROVE  Told'
<1>1. /\ pc # "done" /\ pc # "threw" /\ skill' = skill /\ n \in Steps /\ Tag \in Tags /\ Step \in StepType
      /\ Step = StepAt(Tag) /\ Tags' = Tags /\ n \in Nat /\ n \in 0..Len(skill) /\ n # 0
  <2>1. pc # "done" /\ pc # "threw" /\ skill' = skill
    BY DEF Next, Run, Begin, Gate, Top, Loop, Checks, Resolve, Heal, Navigate, Absent, Found,
           Look, Act, Repeat, Pass, Refuse, Lost, Settle, Abort, posVars
  <2> QED BY <2>1, Procedure, AtStep DEF Tags, Steps
<1>2. Elsewhere /\ (pc \in {"begin", "gate", "top", "loop"} => UNCHANGED sentVars)
  BY FrameStep
<1>3. \A t \in Tags : StepAt(t)' = StepAt(t)
  BY <1>1 DEF StepAt
<1>4. \A t \in Tags : t # Tag /\ Harmless(t) => HarmlessAfter(t)
  BY <1>2 DEF Harmless, HarmlessAfter, Elsewhere
<1>5. ~res.refused /\ (~res.acted => \A t \in Tags : Harmless(t))
  BY <1>1 DEF Told
<1>6. UNCHANGED sentVars => \A t \in Tags : Harmless(t) => HarmlessAfter(t)
  BY DEF Harmless, HarmlessAfter, sentVars
<1>s. \A t \in Tags : sent[t] \in Nat
  BY DEF SentType
\* A step at work, and what holds of its dispatches after it.
<1>7. ASSUME AtWork, pc # "settle", UNCHANGED <<n, pass>>, ~res'.refused, pc' # "repeat",
             pc' = "verify" => IsRead \/ res'.acted,
             ~res'.acted /\ pc' # "threw" => ~res.acted /\ HarmlessAfter(Tag),
             ~res'.acted /\ (AtWork \/ Between)' /\ ~Stopping' /\ sent'[Tag] > 0 => DependsOnPage(Step)
      PROVE  Told'
  <2>1. IsRead' <=> IsRead
    BY <1>1, <1>7 DEF IsRead, Step
  <2>2. pc' # "threw" /\ ~res'.acted => \A t \in Tags : HarmlessAfter(t)
    BY <1>4, <1>5, <1>7
  <2>3. ASSUME (AtWork \/ Between)', ~Stopping', ~res'.acted, NEW t \in Tags, sent'[t] > 0
        PROVE  DependsOnPage(StepAt(t))
    <3>0. ~res.acted /\ AtWork /\ ~Stopping
      BY <1>7, <2>3 DEF AtWork, Between, Stopping
    <3>1. CASE t = Tag
      BY <1>1, <1>7, <2>3, <3>1
    <3>2. CASE t # Tag
      <4>1. sent[t] > 0
        BY <1>2, <2>3, <3>2 DEF Elsewhere
      <4> QED BY <3>0, <4>1 DEF Told
    <3> QED BY <3>1, <3>2
  <2>4. ASSUME (AtWork \/ Between)', ~Stopping', ~res'.acted
        PROVE  \A t \in Tags : sent'[t] > 0 => DependsOnPage(StepAt(t))
    BY <2>3, <2>4
  <2> QED BY <1>1, <1>3, <1>7, <2>1, <2>2, <2>4 DEF Told, Harmless, HarmlessAfter
\* Nothing is dispatched.
<1>8. ASSUME UNCHANGED sentVars, res'.acted = res.acted, ~res'.refused,
             pc' \notin {"repeat", "verify"},
             (AtWork \/ Between)' /\ ~Stopping' => (AtWork \/ Between) /\ ~Stopping
      PROVE  Told'
  <2>1. ~res'.acted => \A t \in Tags : HarmlessAfter(t)
    BY <1>5, <1>6, <1>8
  <2>2. (AtWork \/ Between)' /\ ~Stopping' /\ ~res'.acted => \A t \in Tags : sent'[t] > 0 => DependsOnPage(StepAt(t))
    BY <1>8 DEF Told, sentVars
  <2> QED BY <1>1, <1>3, <1>8, <2>1, <2>2 DEF Told, Harmless, HarmlessAfter
\* Nor refused: nothing at all was.
<1>9. ASSUME UNCHANGED sentVars, pc' = "done", res'.refused => \A t \in Tags : sent[t] = 0,
             ~res'.acted => ~res.acted
      PROVE  Told'
  <2>1. ~res'.acted => \A t \in Tags : HarmlessAfter(t)
    BY <1>5, <1>6, <1>9
  <2>2. ~AtWork' /\ ~Between'
    BY <1>9 DEF AtWork, Between
  <2> QED BY <1>1, <1>9, <2>1, <2>2 DEF Told, Harmless, HarmlessAfter, sentVars
<1>10. CASE Begin
  <2>1. \A t \in Tags : sent[t] = 0
    <3> SUFFICES ASSUME NEW t \in Tags PROVE sent[t] = 0
      OBVIOUS
    <3>1. t[1] > n \/ (t[1] = n /\ pc = "begin")
      <4>1. t[1] \in Nat \ {0} /\ pc = "begin" /\ n = 1
        BY <1>10, TagIs DEF Begin, Place
      <4> QED BY <4>1
    <3>2. Untouched(t)
      BY <3>1 DEF Ahead
    <3> QED BY <3>2 DEF Untouched
  <2>2. UNCHANGED sentVars /\ pc = "begin" /\ pc' \in {"done", "gate", "top"} /\ res'.acted = res.acted
    BY <1>10 DEF Begin, Enter, ResType, Result
  <2>3. pc' = "done" \/ res' = res
    BY <1>10 DEF Begin
  <2> QED BY <1>5, <1>8, <1>9, <2>1, <2>2, <2>3 DEF Between, AtWork, Stopping
<1>11. CASE Gate
  <2>0. UNCHANGED sentVars /\ pc = "gate"
    BY <1>11 DEF Gate
  <2>1. ASSUME ~res.acted PROVE \A t \in Tags : sent[t] = 0
    <3> SUFFICES ASSUME NEW t \in Tags, sent[t] # 0 PROVE FALSE
      OBVIOUS
    <3>1. DependsOnPage(StepAt(t))
      BY <1>s, <2>0, <2>1 DEF Told, Between, Stopping
    <3>2. t[1] \in Nat \ {0}
      BY TagIs
    <3>3. CASE t[1] >= n
      <4>0. t[1] > n \/ t[1] = n
        BY <1>1, <3>2, <3>3
      <4>1. Untouched(t)
        BY <2>0, <4>0 DEF Ahead
      <4> QED BY <4>1 DEF Untouched
    <3>4. CASE t[1] < n
      <4>1. t[1] \in 1..(n - 1) /\ t[1] \in Steps
        BY <1>1, <3>2, <3>4, Procedure DEF Steps
      <4>2. ~DependsOnPage(skill[t[1]])
        BY <2>0, <4>1 DEF Place, GateAt
      <4>3. skill[t[1]].tool # "loop"
        BY <4>1, <4>2, Procedure DEF DependsOnPage, StepType
      <4> QED BY <3>1, <4>2, <4>3 DEF StepAt
    <3> QED BY <1>1, <3>2, <3>3, <3>4
  <2>2. CASE pc' = "top" /\ UNCHANGED res
    BY <1>5, <1>8, <2>0, <2>2 DEF Between, AtWork, Stopping
  <2>3. CASE pc' = "done" /\ \E unseen \in BOOLEAN : res' = GateRefusal(unseen)
    <3>1. res'.acted = res.acted /\ (res.acted => ~res'.refused)
      BY <1>5, <2>3 DEF GateRefusal, ResType, Result
    <3> QED BY <1>9, <2>0, <2>1, <2>3, <3>1
  <2> QED BY <1>11, <2>2, <2>3 DEF Gate
<1>12. CASE Top
  <2>1. UNCHANGED sentVars /\ pc = "top"
    BY <1>12 DEF Top
  <2>2. CASE aborted
    <3>1. /\ [res EXCEPT !.failedAt = n] \in Result /\ [res EXCEPT !.failedAt = n].acted = res.acted
          /\ [res EXCEPT !.failedAt = n].refused = res.refused
      BY <1>1 DEF ResType, Result
    <3>2. pc' = "done" /\ res'.acted = res.acted /\ ~res'.refused
      BY <1>5, <1>12, <2>2, <3>1, FinishType DEF Top
    <3> QED BY <1>9, <2>1, <3>2
  <2>3. CASE ~aborted
    BY <1>5, <1>8, <1>12, <2>1, <2>3 DEF Top, Between, AtWork, Stopping
  <2> QED BY <2>2, <2>3
<1>13. CASE Loop
  <2>1. UNCHANGED sentVars /\ pc = "loop"
    BY <1>13 DEF Loop
  <2>2. CASE pass' = pass + 1 /\ pc' = "body" /\ UNCHANGED res
    BY <1>5, <1>8, <2>1, <2>2 DEF Between, AtWork, Stopping
  <2>3. CASE Onward([res EXCEPT !.stepsRun = @ + 1], how)
    <3> DEFINE q == [res EXCEPT !.stepsRun = @ + 1]
    <3>1. q \in Result /\ q.acted = res.acted /\ q.refused = res.refused
      BY <1>1, <1>13, Procedure DEF ResType, Result, Place, Steps
    <3>2. pc' \in {"done", "gate", "top"} /\ res'.acted = res.acted /\ ~res'.refused
      BY <1>5, <2>3, <3>1, FinishType DEF Onward, Enter
    <3> QED BY <1>8, <2>1, <3>2 DEF Between, AtWork, Stopping
  <2>4. CASE Finish([res EXCEPT !.failedAt = n], how)
    <3>1. /\ [res EXCEPT !.failedAt = n] \in Result /\ [res EXCEPT !.failedAt = n].acted = res.acted
          /\ [res EXCEPT !.failedAt = n].refused = res.refused
      BY <1>1 DEF ResType, Result
    <3>2. pc' = "done" /\ res'.acted = res.acted /\ ~res'.refused
      BY <1>5, <2>4, <3>1, FinishType
    <3> QED BY <1>9, <2>1, <3>2
  <2> QED BY <1>13, <2>2, <2>3, <2>4 DEF Loop
<1>14. CASE Work
  <2>1. UNCHANGED <<n, pass>> /\ Reported /\ AtWork /\ pc # "settle"
    BY <1>1, <1>14, WorkStep DEF posVars
  <2>2. ~res'.refused
    BY <1>5, <2>1 DEF Reported
  <2>3. UNCHANGED sentVars /\ res'.acted = res.acted /\ pc' \notin {"repeat", "verify"} => Told'
    BY <1>8, <2>1, <2>2 DEF Stopping
  <2>4. \A k \in Nat, what \in Seen : Send(k, what) => (k = 0 /\ UNCHANGED sentVars) \/ seen'[Tag] = what
    BY <1>1, SendHere, SendZero
  <2>5. {"unknown", "elsewhere", "shut", "no-effect"} \subseteq Seen
    BY DEF Seen
  <2>6. CASE Checks \/ Resolve \/ Heal \/ Absent
    <3>1. UNCHANGED sentVars /\ pc' \in {"settle", "resolve", "found", "missed"}
      BY <2>6 DEF Checks, Resolve, Heal, Absent, Stop, Return, Missed
    <3>2. \/ Stop([res EXCEPT !.stopGate = FALSE]) \/ Stop(res) \/ res' = [res EXCEPT !.stopGate = FALSE] \/ res' = res
          \/ res' = [res EXCEPT !.failedAt = n, !.assertFailed = TRUE]
      BY <2>6 DEF Checks, Resolve, Heal, Absent, Return, Missed
    <3>3. res'.acted = res.acted
      <4>1. [res EXCEPT !.failedAt = n, !.assertFailed = TRUE].acted = res.acted
        BY DEF ResType, Result
      <4> QED BY <1>1, <3>2, <4>1, Variants, StopResult
    <3> QED BY <2>3, <3>1, <3>3
  <2>7. CASE Navigate
    <3>1. DependsOnPage(Step) /\ pc' = "settle"
      BY <1>1, <2>7 DEF Navigate, Has, DependsOnPage, StepType, Stop, Return
    <3>2. CASE Stop([res EXCEPT !.acted = TRUE, !.outcome = "unknown"])
      <4>1. res'.acted
        BY <1>1, <3>2, Variants, StopResult
      <4> QED BY <1>7, <2>1, <2>2, <3>1, <4>1
    <3>3. CASE \E k \in 0..2 : Send(k, "elsewhere") /\ (Return("ran", res) \/ Stop(res))
      <4>1. res'.acted = res.acted
        BY <1>1, <3>3, Variants, StopResult DEF Return
      <4>2. UNCHANGED sentVars \/ seen'[Tag] = "elsewhere"
        <5>1. PICK k \in 0..2 : Send(k, "elsewhere")
          BY <3>3
        <5>2. k \in Nat /\ "elsewhere" \in Seen
          BY <2>5
        <5> QED BY <2>4, <5>1, <5>2
      <4>3. ~res.acted => HarmlessAfter(Tag)
        <5>1. HarmlessAfter(Tag) <=> (sent'[Tag] = 0 \/ seen'[Tag] \in {"shut", "elsewhere", "no-effect"})
          BY <2>1, <1>1 DEF Harmless, HarmlessAfter, Tag
        <5> QED BY <1>1, <1>5, <4>2, <5>1 DEF Harmless, HarmlessAfter, sentVars
      <4> QED BY <1>7, <2>1, <2>2, <3>1, <4>1, <4>3
    <3> QED BY <2>7, <3>2, <3>3 DEF Navigate
  <2>8. CASE Found
    <3>1. pc' # "verify" /\ pc' # "repeat"
      BY <2>8 DEF Found, Stop, Return, Finish
    <3>2. res'.acted = res.acted
      <4>1. /\ [res EXCEPT !.failedAt = n] \in Result /\ [res EXCEPT !.failedAt = n].acted = res.acted
        BY <1>1 DEF ResType, Result
      <4>2. Finish([res EXCEPT !.failedAt = n], how) => res'.acted = res.acted
        BY <4>1, FinishType
      <4>3. Stop(res) \/ Return("skipped", res) => res'.acted = res.acted
        BY <1>1, Variants, StopResult DEF Return
      <4> QED BY <2>8, <4>2, <4>3 DEF Found
    <3>3. CASE UNCHANGED sentVars
      BY <2>3, <3>1, <3>2, <3>3
    <3>4. CASE Has("reopens") /\ Send(1, "shut")
      <4>1. DependsOnPage(Step) /\ seen'[Tag] = "shut"
        <5>1. DependsOnPage(Step)
          BY <1>1, <3>4 DEF Has, DependsOnPage, StepType
        <5>2. "shut" \in Seen /\ 1 \in Nat
          BY <2>5
        <5> QED BY <1>1, <3>4, <5>1, <5>2, SendHere
      <4>2. HarmlessAfter(Tag)
        BY <1>1, <2>1, <4>1 DEF Harmless, HarmlessAfter, Tag
      <4> QED BY <1>7, <2>1, <2>2, <3>1, <3>2, <4>1, <4>2
    <3>5. CASE pc' = "threw"
      BY <1>7, <2>1, <2>2, <3>5 DEF AtWork, Between
    <3> QED BY <2>8, <3>3, <3>4, <3>5 DEF Found
  <2>9. CASE Look
    <3>1. pc' # "repeat" /\ (Step.tool # "goto" => UNCHANGED sentVars)
      <4>1. pc' # "repeat"
        BY <2>9 DEF Look, Stop, Return
      <4>2. ASSUME Step.tool # "goto" PROVE UNCHANGED sentVars
        <5>1. UNCHANGED sentVars \/ Send(0, "unknown")
          BY <2>9, <4>2 DEF Look
        <5> QED BY <1>1, <5>1, SendZero
      <4> QED BY <4>1, <4>2
    <3>2. CASE IsRead
      <4>1. res'.acted = res.acted /\ UNCHANGED sentVars
        <5>1. res' = Prepared \/ Stop(res) \/ res' = res
          BY <2>9, <3>2 DEF Look, Return
        <5>2. Step.tool # "goto"
          BY <3>2 DEF IsRead
        <5>3. Prepared.acted = res.acted
          BY <3>2, Variants DEF ResType, Result
        <5>4. Stop(res) => res'.acted = res.acted
          BY <1>1, Variants, StopResult
        <5> QED BY <3>1, <5>1, <5>2, <5>3, <5>4
      <4>2. ~res.acted => HarmlessAfter(Tag)
        BY <1>1, <1>5, <2>1, <4>1 DEF Harmless, HarmlessAfter, Tag, sentVars
      <4>3. ~res.acted /\ sent'[Tag] > 0 => DependsOnPage(Step)
        BY <1>1, <2>1, <4>1 DEF Told, Stopping, sentVars
      <4> QED BY <1>7, <2>1, <2>2, <3>1, <3>2, <4>1, <4>2, <4>3
    <3>3. CASE ~IsRead
      <4>1. \/ res' = Prepared
            \/ Stop(Prepared)
            \/ Return("stop", [Prepared EXCEPT !.failedAt = n, !.assertFailed = TRUE])
        BY <2>9, <3>3 DEF Look
      <4>2. res'.acted
        <5>1. CASE Return("stop", [Prepared EXCEPT !.failedAt = n, !.assertFailed = TRUE])
          BY <3>3, <5>1, Variants DEF Return, Alike, Result
        <5> QED BY <1>1, <3>3, <4>1, <5>1, Variants, StopResult
      <4> QED BY <1>7, <2>1, <2>2, <3>1, <4>2
    <3> QED BY <3>2, <3>3
  <2>10. CASE Act
    <3>1. ~IsRead /\ actedBefore' = res.acted
      BY <2>10 DEF Act, Mutates, IsRead
    <3>2. CASE Stop(NotDispatched(res.acted)) /\ UNCHANGED sentVars
      <4>1. pc' = "settle" /\ res'.acted = res.acted
        BY <1>1, <3>2, Variants, StopResult
      <4> QED BY <2>3, <3>2, <4>1
    <3>3. CASE Stop(Unknown) \/ Stop(Prepared) \/ (pc' = "verify" /\ res' = Prepared)
      <4>1. pc' \in {"settle", "verify"} /\ res'.acted
        BY <1>1, <3>1, <3>3, Variants, StopResult
      <4> QED BY <1>7, <2>1, <2>2, <4>1
    <3>4. CASE pc' = "repeat" /\ res' = Prepared /\ Send(1, "no-effect")
      <4>1. res'.acted
        BY <3>1, <3>4, Variants
      <4>2. seen'[Tag] = "no-effect"
        BY <1>1, <2>5, <3>4, SendHere
      <4>3. ~res.acted => \A t \in Tags : HarmlessAfter(t)
        <5>1. HarmlessAfter(Tag)
          BY <1>1, <2>1, <4>2 DEF Harmless, HarmlessAfter, Tag
        <5> QED BY <1>4, <1>5, <5>1
      <4> QED BY <1>1, <2>2, <3>1, <3>4, <4>1, <4>3 DEF Told, Harmless, HarmlessAfter
    <3> QED BY <2>10, <3>2, <3>3, <3>4 DEF Act, PressAgain
  <2>11. CASE Repeat
    <3>1. res.acted /\ (~actedBefore => \A t \in Tags : Harmless(t))
      BY <2>11 DEF Repeat, Told
    <3>2. CASE Stop(NotDispatched(actedBefore)) /\ UNCHANGED sentVars
      <4>1. pc' = "settle" /\ res'.acted = actedBefore /\ verdict' = "stop"
        BY <1>1, <3>2, Variants, StopResult
      <4>2. ~res'.acted => \A t \in Tags : HarmlessAfter(t)
        BY <1>6, <3>1, <3>2, <4>1
      <4> QED BY <1>1, <2>2, <4>1, <4>2 DEF Told, Harmless, HarmlessAfter, Stopping
    <3>3. CASE Stop(Unknown) \/ (pc' = "verify" /\ UNCHANGED res) \/ Stop(res)
      <4>1. pc' \in {"settle", "verify"} /\ res'.acted
        BY <1>1, <3>1, <3>3, Variants, StopResult
      <4> QED BY <1>7, <2>1, <2>2, <4>1
    <3> QED BY <2>11, <3>2, <3>3 DEF Repeat
  <2>12. CASE Pass \/ Refuse
    <3>1. UNCHANGED sentVars /\ pc' = "settle"
      BY <2>12 DEF Pass, Refuse, Stop, Return
    <3>2. res'.acted = res.acted
      <4>1. CASE Pass
        <5>1. PICK r \in Bound, unseen \in BOOLEAN : res' = [r EXCEPT !.unobserved = @ \/ unseen]
          BY <4>1 DEF Pass, Return
        <5> QED BY <5>1, Variants DEF Alike, Result
      <4>2. CASE Refuse
        <5>1. PICK r \in Bound, gate \in BOOLEAN : res' = [[r EXCEPT !.stopGate = gate] EXCEPT !.failedAt = n]
          BY <4>2 DEF Refuse, Stop, Return
        <5> QED BY <5>1, Variants DEF Alike, Result
      <4> QED BY <2>12, <4>1, <4>2
    <3> QED BY <2>3, <3>1, <3>2
  <2>13. CASE Lost
    <3>1. res'.acted = res.acted /\ res.acted /\ pc' = "body"
      BY <2>13, Variants DEF Lost, Told, IsRead
    <3> QED BY <1>7, <2>1, <2>2, <3>1
  <2> QED BY <1>14, <2>6, <2>7, <2>8, <2>9, <2>10, <2>11, <2>12, <2>13 DEF Work
<1>15. CASE Settle
  <2> DEFINE r == IF Final # verdict THEN [res EXCEPT !.failedAt = n, !.assertFailed = TRUE] ELSE res
             h == [how EXCEPT ![Tag] = CASE Final = "ran" -> "passed" [] Final = "skipped" -> "skipped" [] OTHER -> "stopped"]
  <2>0. UNCHANGED sentVars /\ pc = "settle" /\ AtWork
    BY <1>15 DEF Settle, AtWork
  <2>1. r \in Result /\ r.acted = res.acted /\ r.refused = res.refused
    BY <1>1 DEF ResType, Result
  <2>2. CASE Final = "stop"
    <3>1. Finish(r, h)
      BY <1>15, <2>2 DEF Settle
    <3>2. pc' = "done" /\ res'.acted = res.acted /\ ~res'.refused
      BY <1>5, <2>1, <3>1, FinishType
    <3> QED BY <1>9, <2>0, <3>2
  <2>3. CASE Final # "stop"
    <3>1. Final = verdict /\ r = res /\ ~Stopping
      BY <2>3 DEF Final, Stopping
    <3>2. CASE pass > 0
      <4>1. pc' = "loop" /\ res' = res
        BY <1>15, <2>3, <3>1, <3>2 DEF Settle, Counted
      <4> QED BY <1>5, <1>8, <2>0, <3>1, <4>1
    <3>3. CASE ~(pass > 0)
      <4> DEFINE q == [res EXCEPT !.stepsRun = @ + 1]
      <4>1. Onward(q, h)
        BY <1>15, <2>3, <3>1, <3>3 DEF Settle, Counted
      <4>2. q \in Result /\ q.acted = res.acted /\ q.refused = res.refused
        BY <1>1, <2>0, Procedure DEF ResType, Result, Place, Steps
      <4>3. pc' \in {"done", "gate", "top"} /\ res'.acted = res.acted /\ ~res'.refused
        BY <1>5, <4>1, <4>2, FinishType DEF Onward, Enter
      <4> QED BY <1>8, <2>0, <3>1, <4>3
    <3> QED BY <3>2, <3>3
  <2> QED BY <2>2, <2>3
<1>16. CASE Abort
  <2>1. UNCHANGED <<posVars, pc, res, verdict, actedBefore, sentVars>>
    BY <1>16 DEF Abort, runVars
  <2>2. UNCHANGED <<skill, n, pass, sent, seen>>
    BY <2>1 DEF posVars, sentVars
  <2> QED BY <1>1, <2>1, <2>2 DEF Told, Harmless, AtWork, Between, Stopping, StepAt, IsRead, Step
<1> QED BY <1>10, <1>11, <1>12, <1>13, <1>14, <1>15, <1>16 DEF Next, Run, Work
\* A step that begins was not touched.
LEMMA Fresh ==
    ASSUME PosType, PcType, FlagType, ResType, OnceType, SentType, HowType, Place, Ahead, Next,
           pc \notin {"body", "resolve", "missed", "found", "act", "repeat", "verify", "settle"}, AtWork', PosType'
    PROVE  Tag' \in Tags /\ pc' = "body" /\ sent'[Tag'] = 0 /\ Tag' \notin resubmitted' \cup refilled'
<1>1. /\ n' = n /\ skill' = skill /\ n \in Steps /\ UNCHANGED <<sentVars, onceVars>>
      /\ ((pc = "top" /\ pass' = 0) \/ (pc = "loop" /\ pass' = pass + 1))
      /\ n \in Nat /\ pass \in Nat /\ pass' \in Nat /\ pass' \in 0..MaxPass
  <2>1. n' = n /\ ((pc = "top" /\ pass = 0 /\ pass' = 0) \/ (pc = "loop" /\ pass' = pass + 1))
    <3>1. ~AtWork
      BY DEF AtWork
    <3> QED BY <3>1, Motion
  <2>2. n \in Steps /\ n \in Nat /\ pass \in Nat /\ pass' \in 0..MaxPass
    BY <2>1, AtStep, Procedure DEF PosType
  <2>3. UNCHANGED <<sentVars, onceVars>>
    BY <2>1, FrameStep
  <2>4. skill' = skill
    BY DEF Next, Run, Begin, Gate, Top, Loop, Checks, Resolve, Heal, Navigate, Absent, Found,
           Look, Act, Repeat, Pass, Refuse, Lost, Settle, Abort, posVars
  <2> QED BY <2>1, <2>2, <2>3, <2>4
<1>2. pc' = "body"
  <2>1. Top \/ Loop \/ Abort
    BY <1>1 DEF Next, Run, Begin, Gate, Top, Loop, Checks, Resolve, Heal, Navigate, Absent, Found,
         Look, Act, Repeat, Pass, Refuse, Lost, Settle
  <2>2. \A r, h : Finish(r, h) => pc' = "done"
    BY DEF Finish
  <2>3. \A r, h : Onward(r, h) => pc' \in {"gate", "top", "done"}
    BY <2>2 DEF Onward, Enter
  <2> QED BY <1>1, <2>1, <2>2, <2>3 DEF Top, Loop, Abort, AtWork
<1> DEFINE t == <<n, pass'>>
<1>3. t \in Tags /\ t[1] = n /\ t[2] = pass' /\ t = Tag'
  BY <1>1, Procedure DEF Tag
<1>4. t[1] = n /\ (t[2] > pass \/ pc = "top")
  BY <1>1
<1> HIDE DEF t
<1>5. Untouched(t)
  BY <1>3, <1>4 DEF Ahead
<1> QED BY <1>1, <1>2, <1>3, <1>5 DEF Untouched, sentVars, onceVars

LEMMA LastSeenStep ==
    ASSUME PosType, PcType, FlagType, ResType, OnceType, SentType, HowType, Place, Ahead, LastSeen, Next, PosType'
    PROVE  LastSeen'
<1>1. CASE pc \notin {"body", "resolve", "missed", "found", "act", "repeat", "verify", "settle"}
  <2>1. CASE AtWork'
    BY <1>1, <2>1, Fresh DEF LastSeen
  <2>2. CASE ~AtWork'
    BY <2>2 DEF LastSeen, AtWork
  <2> QED BY <2>1, <2>2
<1>2. CASE Work
  <2>1. n \in Steps /\ Step \in StepType /\ Tag \in Tags
    BY <1>2, AtStep DEF Work, Checks, Resolve, Heal, Navigate, Absent, Found, Look, Act, Repeat, Pass, Refuse, Lost
  <2>2. Tag' = Tag
    BY <1>2, <2>1, WorkStep DEF posVars, Tag
  <2>3. sent[Tag] \in Nat /\ {"unknown", "elsewhere", "shut", "no-effect", "lost"} \subseteq Seen
    BY <2>1 DEF SentType, Seen
  <2>4. CASE Checks \/ Resolve \/ Heal \/ Absent
    <3>1. UNCHANGED sentVars /\ pc' \in {"settle", "resolve", "found", "missed"}
          /\ pc \in {"body", "resolve", "missed", "found"}
      BY <2>4 DEF Checks, Resolve, Heal, Absent, Stop, Return, Missed
    <3> QED BY <2>2, <3>1 DEF LastSeen, sentVars
  <2>5. CASE Found
    <3>1. pc = "found" /\ pc' \notin {"body", "resolve", "missed", "found", "repeat"}
      BY <2>5 DEF Found, Stop, Return, Finish
    <3>2. CASE pc' = "act"
      <4>1. UNCHANGED sentVars \/ Send(1, "shut")
        BY <2>5, <3>2 DEF Found, Stop, Return, Finish
      <4>2. Send(1, "shut") => seen'[Tag] = "shut"
        BY <2>1, <2>3, SendHere
      <4> QED BY <2>2, <3>1, <3>2, <4>1, <4>2 DEF LastSeen, sentVars
    <3> QED BY <3>1, <3>2 DEF LastSeen
  <2>6. CASE Act
    <3>1. pc' \in {"settle", "verify"} \/ (pc' = "repeat" /\ Send(1, "no-effect"))
      BY <2>6 DEF Act, Stop, Return, PressAgain
    <3>2. Send(1, "no-effect") => seen'[Tag] = "no-effect"
      BY <2>1, <2>3, SendHere
    <3> QED BY <2>2, <3>1, <3>2 DEF LastSeen
  <2>7. CASE Lost
    BY <2>1, <2>2, <2>7 DEF Lost, LastSeen, SentType
  <2>8. CASE Navigate \/ Look \/ Repeat \/ Pass \/ Refuse
    <3>1. pc' \in {"settle", "verify"}
      BY <2>8 DEF Navigate, Look, Repeat, Pass, Refuse, Stop, Return
    <3> QED BY <3>1 DEF LastSeen
  <2> QED BY <1>2, <2>4, <2>5, <2>6, <2>7, <2>8 DEF Work
<1>3. CASE Settle
  <2>1. pc' \in {"done", "loop", "gate", "top"}
    <3>1. \A r, h : Finish(r, h) => pc' = "done"
      BY DEF Finish
    <3>2. \A r, h : Onward(r, h) => pc' \in {"gate", "top", "done"}
      BY <3>1 DEF Onward, Enter
    <3> QED BY <1>3, <3>1, <3>2 DEF Settle
  <2> QED BY <2>1 DEF LastSeen
<1>4. CASE Abort
  BY <1>4 DEF Abort, LastSeen, posVars, sentVars, Tag
<1> QED BY <1>1, <1>2, <1>3, <1>4 DEF Next, Run, Work, Begin, Gate, Top, Loop
\* One attempt's dispatches, and a second attempt's.
LEMMA Twice ==
    ASSUME NEW t \in Tags
    PROVE  /\ Attempts(t) \in {0, 1} /\ Most(t) \in Nat /\ Most(t) >= 1
           /\ Most(t) = 1 + Extra(StepAt(t), "again") + Extra(StepAt(t), "reopens") + Extra(StepAt(t), "links")
           /\ \A mark : Extra(StepAt(t), mark) \in {0, 1}
           /\ Attempts(t) * Most(t) \in Nat
           /\ (1 + Attempts(t)) * Most(t) = Attempts(t) * Most(t) + Most(t)
<1>1. Attempts(t) \in {0, 1}
  BY DEF Attempts
<1>2. \A mark : Extra(StepAt(t), mark) \in {0, 1}
  BY DEF Extra
<1>3. /\ Most(t) = 1 + Extra(StepAt(t), "again") + Extra(StepAt(t), "reopens") + Extra(StepAt(t), "links")
      /\ Most(t) \in Nat /\ Most(t) >= 1
  BY <1>2 DEF Most
<1>4. CASE Attempts(t) = 0
  BY <1>1, <1>2, <1>3, <1>4
<1>5. CASE Attempts(t) = 1
  BY <1>1, <1>2, <1>3, <1>5
<1> QED BY <1>1, <1>4, <1>5

LEMMA BoundedStep ==
    ASSUME PosType, PcType, FlagType, ResType, OnceType, SentType, HowType, Place, Ahead, Bounded, Next, PosType'
    PROVE  Bounded'
<1>1. skill' = skill /\ Tags' = Tags /\ pc # "done" /\ n \in Steps /\ Tag \in Tags /\ Step \in StepType /\ Step = StepAt(Tag)
  <2>1. skill' = skill /\ pc # "done"
    BY DEF Next, Run, Begin, Gate, Top, Loop, Checks, Resolve, Heal, Navigate, Absent, Found,
           Look, Act, Repeat, Pass, Refuse, Lost, Settle, Abort, posVars
  <2> QED BY <2>1, AtStep DEF Tags
<1>2. \A t \in Tags : StepAt(t)' = StepAt(t) /\ Most(t)' = Most(t) /\ sent[t] \in Nat
  BY <1>1 DEF StepAt, Most, SentType
<1>3. Elsewhere
  BY FrameStep
<1>4. Tag[1] <= Len(skill)
  BY <1>1, Procedure DEF Steps, Tag
\* Nothing is dispatched and no attempt is begun, but perhaps a first one.
<1>5. ASSUME UNCHANGED <<sentVars, onceVars>>,
             \/ pc' \notin {"body", "resolve", "missed", "found", "act", "repeat"}
             \/ pc' = "body" /\ sent'[Tag'] = 0
      PROVE  Bounded'
  <2>1. \A t \in Tags : Attempts(t)' = Attempts(t)
    BY <1>5 DEF Attempts, onceVars
  <2>2. \A t \in Tags : t[1] <= Len(skill)' =>
           /\ t \in resubmitted' => StepAt(t)'.tool = "click"
           /\ t \in refilled' => StepAt(t)'.tool = "fill"
           /\ sent'[t] <= (1 + Attempts(t)') * Most(t)'
    BY <1>1, <1>2, <1>5, <2>1 DEF Bounded, sentVars, onceVars
  <2>3. Attempts(Tag)' \in {0, 1} /\ Most(Tag)' \in Nat
    BY DEF Attempts, Most, Extra
  <2>4. 0 <= Attempts(Tag)' * Most(Tag)'
    <3>1. CASE Attempts(Tag)' = 0
      BY <2>3, <3>1
    <3>2. CASE Attempts(Tag)' = 1
      BY <2>3, <3>2
    <3> QED BY <2>3, <3>1, <3>2
  <2> QED BY <1>1, <1>5, <2>2, <2>4 DEF Bounded
\* A step at work.
<1>6. ASSUME UNCHANGED <<n, pass>>, NEW a \in {0, 1}, Attempts(Tag)' = a,
             Tag \in resubmitted' => Step.tool = "click",
             Tag \in refilled' => Step.tool = "fill",
             sent'[Tag] <= a * Most(Tag) + Most(Tag),
             pc' \in {"body", "resolve", "missed", "found"} => sent'[Tag] <= a * Most(Tag),
             pc' = "act" => sent'[Tag] <= a * Most(Tag) + Extra(Step, "reopens"),
             pc' = "repeat" => /\ Has("again") /\ Step.tool = "click"
                               /\ sent'[Tag] <= a * Most(Tag) + Extra(Step, "reopens") + 1
      PROVE  Bounded'
  <2>1. Tag' = Tag /\ Step' = Step /\ Most(Tag)' = Most(Tag) /\ (Has("again") <=> Has("again")')
    BY <1>1, <1>2, <1>6 DEF Tag, Step, Has, Most, StepAt
  <2>2. ASSUME NEW t \in Tags, t[1] <= Len(skill)
        PROVE  /\ t \in resubmitted' => StepAt(t).tool = "click"
               /\ t \in refilled' => StepAt(t).tool = "fill"
               /\ sent'[t] <= (1 + Attempts(t)') * Most(t)
    <3>1. CASE t = Tag
      <4>1. Attempts(t)' = a /\ Most(t) = Most(Tag)
        BY <1>6, <2>1, <3>1 DEF Attempts
      <4>2. (1 + a) * Most(Tag) = a * Most(Tag) + Most(Tag)
        <5>1. Most(Tag) \in Nat
          BY <1>1, Twice
        <5>2. CASE a = 0
          BY <5>1, <5>2
        <5>3. CASE a = 1
          BY <5>1, <5>3
        <5> QED BY <1>6, <5>2, <5>3
      <4> QED BY <1>1, <1>6, <3>1, <4>1, <4>2
    <3>2. CASE t # Tag
      <4>1. Attempts(t)' = Attempts(t) /\ sent'[t] = sent[t]
        BY <1>3, <3>2 DEF Attempts, Elsewhere
      <4> QED BY <1>3, <2>2, <3>2, <4>1 DEF Bounded, Elsewhere
    <3> QED BY <3>1, <3>2
  <2> QED BY <1>1, <1>2, <1>6, <2>1, <2>2 DEF Bounded
<1>7. CASE pc \notin {"body", "resolve", "missed", "found", "act", "repeat", "verify", "settle"}
  <2>1. UNCHANGED <<sentVars, onceVars>>
    BY <1>1, <1>7, FrameStep DEF PcType
  <2>2. CASE AtWork'
    BY <1>5, <1>7, <2>1, <2>2, Fresh
  <2>3. CASE ~AtWork'
    BY <1>5, <2>1, <2>3 DEF AtWork
  <2> QED BY <2>2, <2>3
<1>8. CASE Work
  <2> DEFINE A == Attempts(Tag)
             M == Most(Tag)
             S == sent[Tag]
             P == A * M
             X == Extra(Step, "reopens")
  <2>1. UNCHANGED <<n, pass>>
    BY <1>1, <1>8, WorkStep DEF posVars
  <2>2. /\ A \in {0, 1} /\ M \in Nat /\ P \in Nat /\ S \in Nat /\ X \in {0, 1}
        /\ M >= 1 + X
        /\ Has("links") => M >= 2 + X
        /\ Has("again") => M >= 2 + X
        /\ (1 + A) * M = P + M
    BY <1>1, <1>2, Twice DEF Extra, Has
  <2>3. /\ Tag \in resubmitted => Step.tool = "click"
        /\ Tag \in refilled => Step.tool = "fill"
        /\ S <= P + M
        /\ pc \in {"body", "resolve", "missed", "found"} => S <= P
        /\ pc = "act" => S <= P + X
        /\ pc = "repeat" => Has("again") /\ Step.tool = "click" /\ S <= P + X + 1
    BY <1>1, <1>4, <2>2 DEF Bounded
  <2>4. UNCHANGED onceVars => /\ Attempts(Tag)' = A
                              /\ Tag \in resubmitted' => Step.tool = "click"
                              /\ Tag \in refilled' => Step.tool = "fill"
    BY <2>1, <2>3 DEF Attempts, onceVars, Tag
  <2>5. \A k \in Nat, what \in Seen : Send(k, what) => sent'[Tag] = S + k
    BY <1>1, SendHere
  <2>6. {"unknown", "elsewhere", "shut", "no-effect", "lost"} \subseteq Seen /\ 0 \in Nat /\ 1 \in Nat /\ 2 \in Nat
    BY DEF Seen
  <2>7. UNCHANGED sentVars => sent'[Tag] = S
    BY DEF sentVars
  <2> HIDE DEF A, M, S, P, X
  <2>8. ASSUME UNCHANGED onceVars, NEW k \in 0..2, sent'[Tag] = S + k, S + k <= P + M,
               pc' \in {"body", "resolve", "missed", "found"} => S + k <= P,
               pc' = "act" => S + k <= P + X,
               pc' = "repeat" => Has("again") /\ Step.tool = "click" /\ S + k <= P + X + 1
        PROVE  Bounded'
    BY <1>6, <2>1, <2>2, <2>4, <2>8 DEF A, M, P, X
  <2>9. CASE Checks \/ Resolve \/ Heal \/ Absent
    <3>1. UNCHANGED <<sentVars, onceVars>> /\ pc' \in {"settle", "resolve", "found", "missed"}
          /\ pc \in {"body", "resolve", "missed", "found"}
      BY <2>9 DEF Checks, Resolve, Heal, Absent, Stop, Return, Missed
    <3>2. sent'[Tag] = S + 0 /\ S + 0 <= P /\ S + 0 <= P + M
      BY <2>2, <2>3, <2>7, <3>1
    <3> QED BY <2>8, <3>1, <3>2
  <2>10. CASE Navigate
    <3>1. UNCHANGED onceVars /\ pc' = "settle" /\ pc = "missed" /\ Has("links")
      BY <2>10 DEF Navigate, Stop, Return
    <3>2. PICK k \in 0..2 : sent'[Tag] = S + k
      BY <2>5, <2>6, <2>10 DEF Navigate
    <3>3. S + k <= P + M
      BY <2>2, <2>3, <3>1
    <3> QED BY <2>8, <3>1, <3>2, <3>3
  <2>11. CASE Found
    <3>1. UNCHANGED onceVars /\ pc' \in {"settle", "act", "threw", "done"} /\ pc = "found"
      BY <2>11 DEF Found, Stop, Return, Finish
    <3>2. PICK k \in 0..1 : sent'[Tag] = S + k /\ (k = 1 => Has("reopens"))
      <4>1. CASE UNCHANGED sentVars
        BY <2>2, <2>7, <4>1
      <4>2. CASE Has("reopens") /\ \E k \in 0..1, what \in Seen : Send(k, what)
        BY <2>5, <4>2
      <4> QED BY <2>6, <2>11, <4>1, <4>2 DEF Found
    <3>3. S + k <= P + X /\ S + k <= P + M
      BY <2>2, <2>3, <3>1, <3>2 DEF X, Extra, Has
    <3> QED BY <2>8, <3>1, <3>2, <3>3
  <2>12. CASE Look \/ Act
    <3>1. UNCHANGED onceVars /\ pc' \in {"settle", "verify", "repeat"} /\ pc = "act"
          /\ (pc' = "repeat" => Has("again") /\ Step.tool = "click")
      BY <2>12 DEF Look, Act, Stop, Return, PressAgain
    <3>2. PICK k \in 0..1 : sent'[Tag] = S + k
      <4>1. CASE UNCHANGED sentVars
        BY <2>2, <2>7, <4>1
      <4>2. CASE \E k \in 0..1, what \in Seen : Send(k, what)
        BY <2>5, <4>2
      <4>3. Look => UNCHANGED sentVars \/ \E k \in 0..1, what \in Seen : Send(k, what)
        BY <2>6 DEF Look
      <4>4. Act => UNCHANGED sentVars \/ \E k \in 0..1, what \in Seen : Send(k, what)
        BY <2>6 DEF Act
      <4> QED BY <2>12, <4>1, <4>2, <4>3, <4>4
    <3>3. S + k <= P + X + 1 /\ S + k <= P + M
      BY <2>2, <2>3, <3>1, <3>2
    <3> QED BY <2>8, <3>1, <3>2, <3>3
  <2>13. CASE Repeat
    <3>1. UNCHANGED onceVars /\ pc' \in {"settle", "verify"} /\ pc = "repeat"
      BY <2>13 DEF Repeat, Stop, Return
    <3>2. PICK k \in 0..1 : sent'[Tag] = S + k
      <4>1. CASE UNCHANGED sentVars
        BY <2>2, <2>7, <4>1
      <4>2. CASE \E k \in 0..1, what \in Seen : Send(k, what)
        BY <2>5, <4>2
      <4> QED BY <2>6, <2>13, <4>1, <4>2 DEF Repeat
    <3>3. S + k <= P + M
      BY <2>2, <2>3, <3>1, <3>2
    <3> QED BY <2>8, <3>1, <3>2, <3>3
  <2>14. CASE Pass \/ Refuse
    <3>1. UNCHANGED <<sentVars, onceVars>> /\ pc' = "settle"
      BY <2>14 DEF Pass, Refuse, Stop, Return
    <3>2. sent'[Tag] = S + 0 /\ S + 0 <= P + M
      BY <2>2, <2>3, <2>7, <3>1
    <3> QED BY <2>8, <3>1, <3>2
  <2>15. CASE Lost
    <3>1. A = 0
      BY <2>3, <2>15 DEF A, Attempts, Lost, Once
    <3>2. Attempts(Tag)' = 1
      BY <2>1, <2>15 DEF Attempts, Lost, Tag
    <3>3. /\ Tag \in resubmitted' => Step.tool = "click"
          /\ Tag \in refilled' => Step.tool = "fill"
          /\ sent'[Tag] = S /\ pc' = "body"
      BY <2>3, <2>15 DEF Lost, S
    <3>4. S <= 1 * M /\ S <= 1 * M + M
      <4>1. P = 0
        BY <2>2, <3>1 DEF P
      <4> QED BY <2>2, <2>3, <4>1
    <3> QED BY <1>6, <2>1, <3>2, <3>3, <3>4 DEF M
  <2> QED BY <1>8, <2>9, <2>10, <2>11, <2>12, <2>13, <2>14, <2>15 DEF Work
<1>9. CASE Settle
  <2>1. pc' \in {"done", "loop", "gate", "top"}
    <3>1. \A r, h : Finish(r, h) => pc' = "done"
      BY DEF Finish
    <3>2. \A r, h : Onward(r, h) => pc' \in {"gate", "top", "done"}
      BY <3>1 DEF Onward, Enter
    <3> QED BY <1>9, <3>1, <3>2 DEF Settle
  <2>2. UNCHANGED <<sentVars, onceVars>>
    BY <1>9 DEF Settle
  <2> QED BY <1>5, <2>1, <2>2
<1>10. CASE Abort
  <2>1. UNCHANGED <<skill, n, pass, pc, sent, resubmitted, refilled>>
    BY <1>10 DEF Abort, posVars, sentVars, onceVars
  <2> QED BY <2>1, <1>1 DEF Bounded, Attempts, Most, StepAt, Tag, Step, Has
<1> QED BY <1>7, <1>8, <1>9, <1>10 DEF Next, Run, Work, Begin, Gate, Top, Loop
----------------------------------------------------------------------------
LEMMA InitialInv == Init => ReplayInv
<1> SUFFICES ASSUME Init PROVE ReplayInv
  OBVIOUS
<1>1. TypeOK /\ Place /\ PosType
  BY InitialType, TypeParts
<1>2. /\ pc = "begin" /\ n = 1 /\ pass = 0 /\ res = NoResult
      /\ resubmitted = {} /\ refilled = {} /\ heals = <<>>
      /\ sent = [t \in Tags |-> 0] /\ how = [t \in Tags |-> "not-run"]
  BY DEF Init
<1>3. ~res.ok /\ ~res.acted /\ ~res.refused /\ res.failedAt = 0
  BY <1>2 DEF NoResult
<1>4. \A t \in Tags : sent[t] = 0 /\ how[t] = "not-run" /\ Untouched(t)
  BY <1>2 DEF Untouched
<1>5. Ahead
  BY <1>2, <1>4 DEF Ahead, AtWork
<1>6. Behind
  BY <1>2, <1>3, <1>4 DEF Behind
<1>7. Proposals
  BY <1>2 DEF Proposals
<1>8. Told
  BY <1>2, <1>3, <1>4 DEF Told, Harmless
<1>9. LastSeen
  BY <1>2 DEF LastSeen
<1>10. Bounded
  <2>1. \A t \in Tags : 0 <= (1 + Attempts(t)) * Most(t)
    <3> SUFFICES ASSUME NEW t \in Tags PROVE 0 <= (1 + Attempts(t)) * Most(t)
      OBVIOUS
    <3>1. Attempts(t) = 0 /\ Most(t) \in Nat
      BY <1>2, Twice DEF Attempts
    <3> QED BY <3>1
  <2> QED BY <1>2, <1>4, <2>1 DEF Bounded
<1> QED BY <1>1, <1>5, <1>6, <1>7, <1>8, <1>9, <1>10 DEF ReplayInv

LEMMA ReplayStep == ReplayInv /\ [Next]_vars => ReplayInv'
<1>1. ASSUME ReplayInv, Next PROVE ReplayInv'
  <2>1. /\ PosType /\ PcType /\ ResType /\ FlagType /\ OnceType /\ HealsType /\ SentType /\ HowType
        /\ Place /\ Ahead /\ Behind /\ Proposals /\ Told /\ LastSeen /\ Bounded
    BY <1>1, TypeParts DEF ReplayInv
  <2>2. PosType' /\ PcType' /\ ResType' /\ Place'
    BY <1>1, <2>1, PlaceStep
  <2>3. SentType' /\ HowType' /\ OnceType'
    BY <1>1, <2>1, FrameStep DEF Elsewhere
  <2>4. FlagType' /\ HealsType'
    BY <1>1, <2>1, FlagStep, HealsStep DEF Proposals
  <2>5. Ahead' /\ Behind' /\ Proposals'
    BY <1>1, <2>1, <2>2, AheadStep, BehindStep, ProposalsStep
  <2>6. Told' /\ LastSeen' /\ Bounded'
    BY <1>1, <2>1, <2>2, ToldStep, LastSeenStep, BoundedStep
  <2>7. TypeOK'
    BY <2>2, <2>3, <2>4 DEF TypeOK, PosType, PcType, ResType, Result, FlagType, OnceType, HealsType, Proposal, SentType, HowType
  <2> QED BY <2>2, <2>5, <2>6, <2>7 DEF ReplayInv
<1>2. ASSUME ReplayInv, UNCHANGED vars PROVE ReplayInv'
  <2> USE DEF vars, posVars, runVars, onceVars, sentVars
  <2>1. TypeOK'
    BY <1>2 DEF ReplayInv, TypeOK, Tags
  <2>2. Place' /\ Ahead' /\ Behind'
    BY <1>2 DEF ReplayInv, Place, Ahead, Behind, GateAt, AtWork, Untouched, Tag, Tags, Has, Step, ObservedNothing, Steps, Reads
  <2>3. Proposals' /\ Told'
    BY <1>2 DEF ReplayInv, Proposals, Proposal, Told, Tags, Tag, AtWork, Between, Stopping, StepAt, Harmless, IsRead, Step
  <2>4. LastSeen' /\ Bounded'
    BY <1>2 DEF ReplayInv, LastSeen, Bounded, Tag, Tags, StepAt, Attempts, Most, Has, Step
  <2> QED BY <2>1, <2>2, <2>3, <2>4 DEF ReplayInv
<1> QED BY <1>1, <1>2

\* The strengthening every property of a replay follows from (replaySkill,
\* runOneStep, runStepBody).
THEOREM Inductive == Spec => []ReplayInv
BY InitialInv, ReplayStep, PTL DEF Spec

----------------------------------------------------------------------------
\* The marks that allow a press more are counted.
LEMMA MarksCount ==
    ASSUME NEW step
    PROVE  Cardinality(step.marks \cap {"again", "reopens", "links"})
             = Extra(step, "again") + Extra(step, "reopens") + Extra(step, "links")
<1> DEFINE A == IF "again" \in step.marks THEN {"again"} ELSE {}
           B == A \cup (IF "reopens" \in step.marks THEN {"reopens"} ELSE {})
           C == B \cup (IF "links" \in step.marks THEN {"links"} ELSE {})
<1>1. step.marks \cap {"again", "reopens", "links"} = C
  OBVIOUS
<1>2. IsFiniteSet(A) /\ Cardinality(A) = Extra(step, "again")
  BY FS_EmptySet, FS_Singleton DEF Extra
<1>3. IsFiniteSet(B) /\ Cardinality(B) = Extra(step, "again") + Extra(step, "reopens")
  <2>1. "reopens" \notin A /\ Cardinality(A) \in Nat
    BY <1>2, FS_CardinalityType
  <2>2. CASE "reopens" \in step.marks
    <3>1. B = A \cup {"reopens"} /\ Extra(step, "reopens") = 1
      BY <2>2 DEF Extra
    <3> HIDE DEF A, B
    <3> QED BY <1>2, <2>1, <3>1, FS_AddElement
  <2>3. CASE "reopens" \notin step.marks
    <3>1. B = A /\ Extra(step, "reopens") = 0
      BY <2>3 DEF Extra
    <3> HIDE DEF A, B
    <3> QED BY <1>2, <2>1, <3>1
  <2> QED BY <2>2, <2>3
<1>4. Cardinality(C) = Extra(step, "again") + Extra(step, "reopens") + Extra(step, "links")
  <2>1. "links" \notin B /\ Cardinality(B) \in Nat
    BY <1>3, FS_CardinalityType
  <2>2. CASE "links" \in step.marks
    <3>1. C = B \cup {"links"} /\ Extra(step, "links") = 1
      BY <2>2 DEF Extra
    <3> HIDE DEF B, C
    <3> QED BY <1>3, <2>1, <3>1, FS_AddElement
  <2>3. CASE "links" \notin step.marks
    <3>1. C = B /\ Extra(step, "links") = 0
      BY <2>3 DEF Extra
    <3> HIDE DEF B, C
    <3> QED BY <1>3, <2>1, <3>1
  <2> QED BY <2>2, <2>3
<1> QED BY <1>1, <1>4

LEMMA InvPresses == ReplayInv => PressesBounded
<1> SUFFICES ASSUME ReplayInv, NEW t \in Tags, t[1] \in Steps
             PROVE  sent[t] <= 2 * (1 + Cardinality(StepAt(t).marks \cap {"again", "reopens", "links"}))
  BY DEF PressesBounded, StepAt
<1>1. t[1] <= Len(skill) /\ sent[t] \in Nat
  BY Procedure, TypeParts DEF ReplayInv, Steps, SentType
<1>2. sent[t] <= Attempts(t) * Most(t) + Most(t)
  BY <1>1, Twice DEF ReplayInv, Bounded
<1>3. 1 + Cardinality(StepAt(t).marks \cap {"again", "reopens", "links"}) = Most(t)
  BY MarksCount, Twice
<1>4. Attempts(t) * Most(t) <= Most(t)
  <2>1. CASE Attempts(t) = 0
    BY <2>1, Twice
  <2>2. CASE Attempts(t) = 1
    BY <2>2, Twice
  <2> QED BY <2>1, <2>2, Twice
<1>5. Most(t) \in Nat /\ Attempts(t) * Most(t) \in Nat
  BY Twice
<1> QED BY <1>1, <1>2, <1>3, <1>4, <1>5

\* For every set of procedures: the state has its types, no step is pressed
\* more often than its marks allow whatever the page does, and every proposal
\* of the healer is settled, verified only where the step passed.
THEOREM PressesAreBounded == Spec => []ReplayOK
<1>1. ReplayInv => TypeOK
  BY DEF ReplayInv
<1>2. ReplayInv => HealsSettled
  BY DEF ReplayInv, Proposals, HealsSettled, AtWork
<1> QED BY <1>1, <1>2, InvPresses, Inductive, PTL DEF ReplayOK

\* What a result says is true: ok leaves no condition unproven, and one that
\* does not say it acted dispatched nothing but what was seen to be harmless.
THEOREM ResultsAreTrue == Spec => []ResultMeans
<1>1. ReplayInv => OkMeansPassed
  <2> SUFFICES ASSUME ReplayInv, pc = "done", res.ok
               PROVE  /\ \A t \in Tags : how[t] # "stopped"
                      /\ \A i \in Steps : "assert" \in skill[i].marks => how[<<i, 0>>] = "passed"
                      /\ (Reads # {} /\ \A i \in Steps : skill[i].tool \in {"read", "wait", "goto"})
                           => \E i \in Reads : how[<<i, 0>>] = "passed"
    BY DEF OkMeansPassed
  <2>1. res.failedAt = 0 /\ n = Len(skill) + 1 /\ ~ObservedNothing(how) /\ Behind
    BY DEF ReplayInv, Behind
  <2>2. Steps = 1..(n - 1)
    BY <2>1, Procedure, TypeParts DEF ReplayInv, Steps
  <2>3. \A i \in Reads : how[<<i, 0>>] \in {"passed", "skipped"}
    BY <2>1, <2>2 DEF Behind, Reads
  <2> QED BY <2>1, <2>2, <2>3 DEF Behind, ObservedNothing
<1>2. ReplayInv => UntoldIsHarmless
  BY DEF ReplayInv, Told, Harmless, UntoldIsHarmless
<1> QED BY <1>1, <1>2, Inductive, PTL DEF ResultMeans

LEMMA SendsUnseen ==
    ASSUME ReplayInv, Next, NEW t \in Tags, sent'[t] > sent[t], sent[t] > 0
    PROVE  seen[t] \in {"no-effect", "shut", "elsewhere", "lost"}
<1>1. PosType /\ PcType /\ ResType /\ FlagType /\ OnceType /\ SentType /\ HowType /\ Place /\ LastSeen
  BY TypeParts DEF ReplayInv
<1>2. sent[t] \in Nat /\ sent' # sent
  BY <1>1 DEF SentType
<1>3. t = Tag
  BY <1>1, <1>2, FrameStep DEF Elsewhere
<1>4. pc \in {"missed", "found", "act", "repeat"}
  BY <1>2 DEF Next, Run, Begin, Gate, Top, Loop, Checks, Resolve, Heal, Navigate, Absent, Found,
     Look, Act, Repeat, Pass, Refuse, Lost, Settle, Abort, sentVars
<1> QED BY <1>1, <1>3, <1>4 DEF LastSeen

\* No step's action goes out twice on the strength of a press nobody watched.
THEOREM RepeatsAreJustified == Spec => SentAgainOnlyUnseen
<1>1. ReplayInv /\ [Next]_vars =>
        [\A t \in Tags : sent'[t] > sent[t] /\ sent[t] > 0 => seen[t] \in {"no-effect", "shut", "elsewhere", "lost"}]_vars
  BY SendsUnseen
<1> QED BY <1>1, Inductive, PTL DEF Spec, SentAgainOnlyUnseen
=============================================================================
