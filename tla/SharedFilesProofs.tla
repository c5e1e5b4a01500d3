-------------------------- MODULE SharedFilesProofs --------------------------
(***************************************************************************)
(* Three protocols of processes that meet only in files, for any number of *)
(* them: the lock file (FileLock), the counters a procedure's file carries *)
(* from run to run (SkillLifecycle), and the name of a session's socket    *)
(* (Sessions).                                                             *)
(***************************************************************************)
EXTENDS FileLock, SkillLifecycle, Sessions, TLAPS

-----------------------------------------------------------------------------
(* The lock file: withFileLock.  The inductive invariant is HolderHasFile: as  *)
(* long as no live holder's file was renamed away, the file at the lock's path *)
(* is the one its holder created, so a second exclusive create cannot win and  *)
(* the unconditional delete in the release removes the releaser's own file.    *)


\* Every variable keeps its type (processes, pids and flags).
LEMMA TypeCorrect == Spec => []TypeOK
<1>1. Init => TypeOK
  BY DEF Init, TypeOK, HoldStates, WaitStates
<1>2. TypeOK /\ [Next]_vars => TypeOK'
  <2> SUFFICES ASSUME TypeOK, [Next]_vars PROVE TypeOK'
    OBVIOUS
  <2> USE DEF TypeOK, HoldStates, WaitStates, lockVars, seenVars, Goto, NextRound, Forget, NoFile
  <2>1. CASE Age
    BY <2>1 DEF Age
  <2>2. ASSUME NEW p \in Proc, Call(p) \/ Expire(p) \/ Restart(p) PROVE TypeOK'
    BY <2>2 DEF Call, Expire, Restart
  <2>3. ASSUME NEW p \in Proc, Die(p) PROVE TypeOK'
    BY <2>3 DEF Die, Note
  <2>4. ASSUME NEW p \in Proc, Create(p) \/ CreateExists(p) \/ CreateContended(p) PROVE TypeOK'
    BY <2>4 DEF Create, CreateExists, CreateContended
  <2>5. ASSUME NEW p \in Proc, Stat(p) PROVE TypeOK'
    BY <2>5 DEF Stat
  <2>6. ASSUME NEW p \in Proc, ReadHolder(p) PROVE TypeOK'
    BY <2>6 DEF ReadHolder
  <2>7. ASSUME NEW p \in Proc, Judge(p) PROVE TypeOK'
    BY <2>7 DEF Judge
  <2>8. ASSUME NEW p \in Proc, Takeover(p) \/ TakeoverFails(p) PROVE TypeOK'
    BY <2>8 DEF Takeover, TakeoverFails, Note
  <2>9. ASSUME NEW p \in Proc, WritePid(p) \/ Finish(p) PROVE TypeOK'
    BY <2>9 DEF WritePid, Finish
  <2>10. ASSUME NEW p \in Proc, WritePidFails(p) \/ Release(p) \/ ReleaseFails(p) PROVE TypeOK'
    BY <2>10 DEF WritePidFails, Release, ReleaseFails, Note
  <2>11. CASE UNCHANGED vars
    BY <2>11 DEF vars
  <2> QED
    BY <2>1, <2>2, <2>3, <2>4, <2>5, <2>6, <2>7, <2>8, <2>9, <2>10, <2>11 DEF Next, Step
<1> QED
  BY <1>1, <1>2, PTL DEF Spec

----------------------------------------------------------------------------
\* One step preserves HolderHasFile: the part of each action that touches
\* the lock file, the holders or the history.
LEMMA HolderStep == TypeOK /\ TypeOK' /\ HolderHasFile /\ [Next]_vars => HolderHasFile'
<1> SUFFICES ASSUME TypeOK, TypeOK', HolderHasFile, [Next]_vars, ~disturbed',
                    NEW h \in Proc, Holds(h)'
             PROVE  owner' = h
  BY DEF HolderHasFile
<1> USE NobodyAssumption DEF TypeOK, HolderHasFile, Holds, HoldStates, WaitStates, lockVars, seenVars, Goto
<1>1. CASE Age
  BY <1>1 DEF Age
<1>2. ASSUME NEW p \in Proc, Call(p) \/ Expire(p) \/ Restart(p) PROVE owner' = h
  BY <1>2 DEF Call, Expire, Restart, Gone
<1>3. ASSUME NEW p \in Proc, Die(p) PROVE owner' = h
  <2>1. ~disturbed /\ owner' = owner /\ Holds(h)
    BY <1>3 DEF Die, Note
  <2> QED
    BY <2>1
<1>4. ASSUME NEW p \in Proc, Create(p) PROVE owner' = h
  \* The exclusive create wins only if nobody's file is there: no holder.
  <2>1. \A q \in Proc : ~Holds(q)
    BY <1>4 DEF Create
  <2> QED
    BY <1>4, <2>1 DEF Create
<1>5. ASSUME NEW p \in Proc, CreateExists(p) \/ CreateContended(p) \/ Stat(p) \/ ReadHolder(p) \/ Judge(p)
                               \/ TakeoverFails(p)
      PROVE owner' = h
  <2>1. Holds(h) /\ UNCHANGED <<owner, disturbed>>
    BY <1>5 DEF CreateExists, CreateContended, Stat, ReadHolder, Judge, TakeoverFails
  <2> QED
    BY <2>1
<1>6. ASSUME NEW p \in Proc, Takeover(p) PROVE owner' = h
  \* A file that is renamed away is not a live holder's, so nobody holds.
  <2>1. Holds(h)
    BY <1>6 DEF Takeover
  <2>2. CASE owner = Nobody
    BY <1>6, <2>1, <2>2 DEF Takeover
  <2>3. CASE owner # Nobody
    <3>1. ~(disturbed \/ Holds(owner))
      BY <1>6, <2>3 DEF Takeover, Note
    <3> QED
      BY <2>1, <2>3, <3>1
  <2> QED
    BY <2>2, <2>3
<1>7. ASSUME NEW p \in Proc, WritePid(p) \/ Finish(p) PROVE owner' = h
  <2>1. Holds(h) /\ UNCHANGED <<owner, disturbed>>
    BY <1>7 DEF WritePid, Finish
  <2> QED
    BY <2>1
<1>8. ASSUME NEW p \in Proc, WritePidFails(p) \/ ReleaseFails(p) PROVE owner' = h
  <2>1. ~disturbed /\ owner' = owner /\ Holds(h)
    BY <1>8 DEF WritePidFails, ReleaseFails, Note
  <2> QED
    BY <2>1
<1>9. ASSUME NEW p \in Proc, Release(p) PROVE owner' = h
  \* The releaser was the only holder, and it holds no longer.
  <2>1. ~disturbed /\ Holds(h) /\ h # p
    BY <1>9 DEF Release, Note
  <2>2. Holds(p)
    BY <1>9 DEF Release
  <2> QED
    BY <2>1, <2>2
<1>10. CASE UNCHANGED vars
  BY <1>10 DEF vars
<1> QED
  BY <1>1, <1>2, <1>3, <1>4, <1>5, <1>6, <1>7, <1>8, <1>9, <1>10 DEF Next, Step

\* HolderHasFile is an invariant for any deaths, reused pids, half-written
\* files, failed removals and ageing.
THEOREM HolderHasFileHolds == Spec => []HolderHasFile
<1>1. Init => HolderHasFile
  BY DEF Init, HolderHasFile, Holds, HoldStates
<1> QED
  BY <1>1, HolderStep, TypeCorrect, PTL DEF Spec

\* Two processes are inside at once only after a live holder's file was taken.
THEOREM OverlapNeedsTheft == Spec => []OverlapOnlyAfterTheft
<1>1. HolderHasFile => OverlapOnlyAfterTheft
  BY DEF HolderHasFile, OverlapOnlyAfterTheft, MutualExclusion, Holds, HoldStates
<1> QED
  BY <1>1, HolderHasFileHolds, PTL

----------------------------------------------------------------------------
\* With no deaths and no ageing nothing is ever judged abandoned.
Steady ==
    /\ ~disturbed /\ ~old
    /\ \A p \in Proc : pc[p] \notin {"gone", "rename"} /\ ~seenOld[p]

LEMMA SteadyHolds ==
  ASSUME Mortal = {}, MayAge = FALSE
  PROVE  Spec => []Steady
<1>1. Init => Steady
  BY DEF Init, Steady
<1>2. TypeOK /\ HolderHasFile /\ Steady /\ [Next]_vars => Steady'
  <2> SUFFICES ASSUME TypeOK, HolderHasFile, Steady, [Next]_vars PROVE Steady'
    OBVIOUS
  <2> USE DEF TypeOK, Steady, HoldStates, WaitStates, lockVars, seenVars, Goto, NextRound, Forget, NoFile
  <2>1. CASE Age
    BY <2>1 DEF Age
  <2>2. ASSUME NEW p \in Proc, Call(p) \/ Expire(p) \/ Restart(p) \/ Die(p) PROVE Steady'
    BY <2>2 DEF Call, Expire, Restart, Die, Gone
  <2>3. ASSUME NEW p \in Proc, Create(p) \/ CreateExists(p) \/ CreateContended(p) PROVE Steady'
    BY <2>3 DEF Create, CreateExists, CreateContended
  <2>4. ASSUME NEW p \in Proc, Stat(p) \/ ReadHolder(p) PROVE Steady'
    BY <2>4 DEF Stat, ReadHolder
  <2>5. ASSUME NEW p \in Proc, Judge(p) PROVE Steady'
    <3>1. ~Abandoned(p)
      BY NobodyAssumption DEF Abandoned, Gone
    <3> QED
      BY <2>5, <3>1 DEF Judge
  <2>6. ASSUME NEW p \in Proc, Takeover(p) \/ TakeoverFails(p) PROVE Steady'
    BY <2>6 DEF Takeover, TakeoverFails
  <2>7. ASSUME NEW p \in Proc, WritePid(p) \/ Finish(p) PROVE Steady'
    BY <2>7 DEF WritePid, Finish
  <2>8. ASSUME NEW p \in Proc, WritePidFails(p) \/ ReleaseFails(p) PROVE Steady'
    BY <2>8 DEF WritePidFails, ReleaseFails, Note
  <2>9. ASSUME NEW p \in Proc, Release(p) PROVE Steady'
    <3>1. owner = p
      BY <2>9 DEF Release, HolderHasFile, Holds
    <3> QED
      BY <2>9, <3>1 DEF Release, Note
  <2>10. CASE UNCHANGED vars
    BY <2>10 DEF vars
  <2> QED
    BY <2>1, <2>2, <2>3, <2>4, <2>5, <2>6, <2>7, <2>8, <2>9, <2>10 DEF Next, Step
<1> QED
  BY <1>1, <1>2, TypeCorrect, HolderHasFileHolds, PTL DEF Spec

\* Among live processes, with no lock outliving LOCK_STALE_MS, the section
\* is exclusive: what withFileLock's comment promises, with its premise.
THEOREM SteadyExclusion ==
  ASSUME Mortal = {}, MayAge = FALSE
  PROVE  Spec => []MutualExclusion
<1>1. Steady /\ OverlapOnlyAfterTheft => MutualExclusion
  BY DEF Steady, OverlapOnlyAfterTheft
<1> QED
  BY <1>1, SteadyHolds, OverlapNeedsTheft, PTL

\* The protocol implements the abstract Section, with any faults: a takeover of
\* a live lock is a Leave there, and what follows until the last holder has
\* left is a stutter.
THEOREM RefinesSection == Spec => Refines
<1> DEFINE in == IF disturbed THEN {} ELSE {p \in Proc : pc[p] = "section"}
<1>1. Init => Promise!Init
  BY DEF Init, Promise!Init
<1>2. TypeOK /\ TypeOK' /\ OverlapOnlyAfterTheft /\ OverlapOnlyAfterTheft' /\ [Next]_vars
        => [Promise!Next]_in
  <2> SUFFICES ASSUME TypeOK, TypeOK', OverlapOnlyAfterTheft, OverlapOnlyAfterTheft', [Next]_vars
               PROVE [Promise!Next]_in
    OBVIOUS
  <2> USE DEF TypeOK, HoldStates, WaitStates, lockVars, seenVars, Goto
  <2>0. CASE disturbed /\ disturbed'
    BY <2>0
  <2>1. ASSUME NEW p \in Proc, WritePid(p), ~disturbed PROVE Promise!Enter(p)
    <3>1. \A q \in Proc \ {p} : pc'[q] = pc[q]
      BY <2>1 DEF WritePid
    <3>2. pc[p] = "write" /\ pc'[p] = "section" /\ ~disturbed'
      BY <2>1 DEF WritePid
    <3> QED
      BY <3>1, <3>2, <2>1 DEF OverlapOnlyAfterTheft, MutualExclusion, Promise!Enter
  <2>2. ASSUME NEW p \in Proc, Finish(p), ~disturbed PROVE Promise!Leave(p)
    BY <2>2 DEF Finish, Promise!Leave
  \* The theft: whoever is in the section is alone there, and leaves.
  <2>3. ASSUME ~disturbed, disturbed' PROVE in' = in \/ Promise!Next
    <3>1. CASE in = {}
      BY <3>1, <2>3
    <3>2. CASE in # {}
      <4>1. PICK p \in Proc : in = {p}
        BY <3>2, <2>3 DEF OverlapOnlyAfterTheft, MutualExclusion
      <4>2. Promise!Leave(p)
        BY <4>1, <2>3 DEF Promise!Leave
      <4> QED
        BY <4>2 DEF Promise!Next
    <3> QED
      BY <3>1, <3>2
  \* It is over when nobody holds.
  <2>4. ASSUME disturbed, ~disturbed' PROVE in' = in
    <3>1. \A p \in Proc : pc'[p] # "section"
      BY <2>4 DEF Next, Step, Age, Call, Expire, Restart, Die, Create, CreateExists, CreateContended, Stat,
         ReadHolder, Judge, Takeover, TakeoverFails, WritePid, WritePidFails, Finish, Release, ReleaseFails, Note, vars
    <3> QED
      BY <3>1, <2>4
  <2>5. ASSUME NEW p \in Proc, ~disturbed, ~disturbed',
               \/ Call(p) \/ Expire(p) \/ Restart(p) \/ Die(p)
               \/ Create(p) \/ CreateExists(p) \/ CreateContended(p)
               \/ Stat(p) \/ ReadHolder(p) \/ Judge(p) \/ Takeover(p) \/ TakeoverFails(p)
               \/ WritePidFails(p) \/ Release(p) \/ ReleaseFails(p)
        PROVE  in' = in \/ Promise!Next
    <3>1. CASE Die(p) /\ pc[p] = "section"
      BY <3>1, <2>5 DEF Die, Promise!Next, Promise!Leave
    <3>2. CASE ~(Die(p) /\ pc[p] = "section")
      BY <3>2, <2>5 DEF Call, Expire, Restart, Die, Create, CreateExists, CreateContended, Stat,
                ReadHolder, Judge, Takeover, TakeoverFails, WritePidFails, Release, ReleaseFails, Gone
    <3> QED
      BY <3>1, <3>2
  <2>6. CASE Age \/ UNCHANGED vars
    BY <2>6 DEF Age, vars
  <2> QED
    BY <2>0, <2>1, <2>2, <2>3, <2>4, <2>5, <2>6 DEF Next, Step, Promise!Next
<1> QED
  BY <1>1, <1>2, TypeCorrect, OverlapNeedsTheft, PTL DEF Spec, Refines, Promise!Spec

-----------------------------------------------------------------------------
(* The promotion and demotion rules, for every procedure, every contract after *)
(* the first and any number of runs.  The inductive invariant ties the         *)
(* counters the store keeps to the history they summarise: the last strike to  *)
(* lastFailedAt, the clean runs to successes, the stamp to the evidence it     *)
(* stands for.                                                                 *)

\* What the stored counters mean.
Counters ==
    /\ strikes = <<>> => lastFailedAt = 0
    /\ strikes # <<>> => lastFailedAt = strikes[Len(strikes)]
    /\ StruckOut
    /\ status = "provisional" => successes <= clean
    /\ status = "validated" => clean >= 2
    /\ status = "validated" /\ verified # 0 => proven = TRUE

LifeInv == LifecycleTypeOK /\ Counters

\* Appending a strike makes a pair only with the strike before it.
LEMMA AppendPair ==
  ASSUME NEW s \in Seq(Steps), NEW step \in Steps
  PROVE  /\ Append(s, step) \in Seq(Steps) /\ Append(s, step) # <<>>
         /\ Append(s, step)[Len(Append(s, step))] = step
         /\ (\E i \in 1..(Len(Append(s, step)) - 1) : Append(s, step)[i] = Append(s, step)[i + 1])
              <=> \/ \E i \in 1..(Len(s) - 1) : s[i] = s[i + 1]
                  \/ s # <<>> /\ s[Len(s)] = step
<1> DEFINE t == Append(s, step)
<1>1. /\ t \in Seq(Steps) /\ t # <<>> /\ Len(t) = Len(s) + 1 /\ t[Len(s) + 1] = step
      /\ Len(s) \in Nat
      /\ \A i \in 1..Len(s) : t[i] = s[i]
  OBVIOUS
<1>2. s # <<>> <=> Len(s) >= 1
  OBVIOUS
<1>3. ASSUME NEW i \in 1..(Len(t) - 1), t[i] = t[i + 1], ~(s # <<>> /\ s[Len(s)] = step)
      PROVE  \E k \in 1..(Len(s) - 1) : s[k] = s[k + 1]
  <2>1. i # Len(s)
    BY <1>1, <1>2, <1>3
  <2>2. i \in 1..(Len(s) - 1) /\ i + 1 \in 1..Len(s)
    BY <2>1, <1>1
  <2> QED
    BY <2>2, <1>1, <1>3
<1>4. ASSUME NEW k \in 1..(Len(s) - 1), s[k] = s[k + 1]
      PROVE  \E i \in 1..(Len(t) - 1) : t[i] = t[i + 1]
  <2>1. k \in 1..(Len(t) - 1) /\ k \in 1..Len(s) /\ k + 1 \in 1..Len(s)
    BY <1>1
  <2> QED
    BY <2>1, <1>1, <1>4
<1>5. ASSUME s # <<>>, s[Len(s)] = step
      PROVE  \E i \in 1..(Len(t) - 1) : t[i] = t[i + 1]
  <2>1. Len(s) \in 1..(Len(t) - 1) /\ Len(s) \in 1..Len(s)
    BY <1>1, <1>2, <1>5
  <2> QED
    BY <2>1, <1>1, <1>5
<1> QED
  BY <1>1, <1>3, <1>4, <1>5

\* No pair of strikes appears when the strikes are forgotten or kept.
LEMMA Reset ==
  /\ strikes' = <<>> => strikes' \in Seq(Steps) /\ ~TwiceRunning'
  /\ strikes' = strikes => (TwiceRunning' <=> TwiceRunning)
<1>1. ASSUME strikes' = <<>> PROVE strikes' \in Seq(Steps) /\ Len(strikes') = 0
  BY <1>1
<1>2. ASSUME Len(strikes') = 0 PROVE ~TwiceRunning'
  BY <1>2 DEF TwiceRunning
<1>3. ASSUME strikes' = strikes PROVE TwiceRunning' <=> TwiceRunning
  BY <1>3 DEF TwiceRunning
<1> QED
  BY <1>1, <1>2, <1>3

LEMMA LifeInit == LifecycleInit => LifeInv
<1> SUFFICES ASSUME LifecycleInit PROVE LifeInv
  OBVIOUS
<1>1. /\ status \in {"provisional", "validated"} /\ successes \in Nat /\ verified \in Nat
      /\ clean \in Nat
      /\ status = "provisional" => successes <= clean
      /\ status = "validated" => clean >= 2
  BY ContractAssumption DEF LifecycleInit, Born
<1>2. strikes = <<>> /\ strikes \in Seq(Steps) /\ lastFailedAt = 0
  BY DEF LifecycleInit
<1>3. ~TwiceRunning
  <2>1. Len(strikes) = 0
    BY <1>2
  <2> QED
    BY <2>1 DEF TwiceRunning
<1>6. stopStreak \in Nat /\ gates \subseteq Steps /\ runs \in 0..MaxRuns
  BY ContractAssumption DEF LifecycleInit
<1>7. failedAtStep \in [Steps -> Nat]
  BY DEF LifecycleInit
<1>8. retired \in BOOLEAN /\ proven \in BOOLEAN
  BY DEF LifecycleInit
<1>9. status = "validated" => proven = TRUE
  BY DEF LifecycleInit, Born
<1>4. LifecycleTypeOK
  BY <1>1, <1>2, <1>6, <1>7, <1>8 DEF LifecycleTypeOK
<1>5. Counters
  BY <1>1, <1>2, <1>3, <1>9 DEF Counters, StruckOut
<1> QED
  BY <1>4, <1>5 DEF LifeInv

\* A replay that stopped: the one step that strikes.
LEMMA StopStep ==
  ASSUME LifeInv, NEW step \in Steps, NEW harmless \in BOOLEAN, Stop(step, harmless)
  PROVE  LifeInv' /\ (status # "demoted" /\ status' = "demoted" => TwiceRunning')
<1> USE DEF Stop, Count, Forgiven, StrikesOut
<1>1. /\ strikes \in Seq(Steps) /\ strikes' \in Seq(Steps)
      /\ 0 \notin Steps
  BY AppendPair, StepsAssumption DEF LifeInv, LifecycleTypeOK
<1>2. LifecycleTypeOK'
  BY <1>1, ContractAssumption DEF LifeInv, LifecycleTypeOK
<1>3. CASE Forgiven(step, harmless)
  <2>1. UNCHANGED <<strikes, lastFailedAt, status, successes, clean, verified, proven>>
    BY <1>3
  <2> QED
    BY <2>1, <1>2 DEF LifeInv, Counters, StruckOut, TwiceRunning
<1>4. CASE ~Forgiven(step, harmless)
  <2>1. /\ strikes' = Append(strikes, step) /\ lastFailedAt' = step
        /\ status' = IF lastFailedAt = step THEN "demoted" ELSE status
        /\ UNCHANGED <<successes, clean, verified, proven>>
    BY <1>4
  <2>2. strikes' # <<>> /\ strikes'[Len(strikes')] = step
    BY <2>1, <1>1, AppendPair
  <2>3. TwiceRunning' <=> TwiceRunning \/ (strikes # <<>> /\ strikes[Len(strikes)] = step)
    <3> DEFINE t == Append(strikes, step)
    <3>1. (\E i \in 1..(Len(t) - 1) : t[i] = t[i + 1])
            <=> \/ \E i \in 1..(Len(strikes) - 1) : strikes[i] = strikes[i + 1]
                \/ strikes # <<>> /\ strikes[Len(strikes)] = step
      BY <1>1, AppendPair
    <3>2. TwiceRunning' = \E i \in 1..(Len(t) - 1) : t[i] = t[i + 1]
      BY <2>1 DEF TwiceRunning
    <3> QED
      BY <3>1, <3>2 DEF TwiceRunning
  <2>4. (strikes # <<>> /\ strikes[Len(strikes)] = step) <=> lastFailedAt = step
    BY <1>1 DEF LifeInv, Counters
  <2>5. Counters'
    BY <2>1, <2>2, <2>3, <2>4 DEF LifeInv, Counters, StruckOut, LifecycleTypeOK
  <2> QED
    BY <1>2, <2>1, <2>3, <2>4, <2>5 DEF LifeInv
<1> QED
  BY <1>3, <1>4

\* Every other transaction leaves the strikes alone, or forgets them all.
LEMMA OtherStep ==
  ASSUME LifeInv,
         \/ CleanRun \/ UnobservedRun \/ FailedAround \/ Merge \/ Generalise \/ Retire
         \/ \E step \in Steps : Relax(step)
         \/ UNCHANGED lifecycleVars
  PROVE  LifeInv' /\ (status = "demoted" => status' = "demoted")
                  /\ (status # "demoted" /\ status' = "demoted" => retired')
<1>1. CASE CleanRun \/ Merge
  <2>1. /\ successes' = successes + 1 /\ clean' = clean + 1 /\ retired' = retired
        /\ \/ status = "provisional" /\ successes' >= 2 /\ status' = "validated"
             /\ verified' = Contract /\ proven' = TRUE
           \/ ~(status = "provisional" /\ successes' >= 2)
             /\ status' = status /\ verified' = verified /\ proven' = proven
    BY <1>1 DEF CleanRun, Merge, Promote
  <2>2. /\ runs' \in 0..MaxRuns /\ stopStreak' \in Nat
        /\ failedAtStep' = failedAtStep /\ gates' = gates
    BY <1>1, ContractAssumption DEF CleanRun, Merge, Count, LifeInv, LifecycleTypeOK
  <2>3. \/ strikes' = <<>> /\ lastFailedAt' = 0
        \/ strikes' = strikes /\ lastFailedAt' = lastFailedAt
    BY <1>1 DEF CleanRun, Merge
  <2> QED
    <3>3. proven' \in BOOLEAN /\ retired' \in BOOLEAN
      BY <2>1 DEF LifeInv, LifecycleTypeOK
    <3>4. strikes' \in Seq(Steps) /\ lastFailedAt' \in Steps \cup {0}
      BY <2>3, Reset DEF LifeInv, LifecycleTypeOK
    <3>5. successes' \in Nat /\ clean' \in Nat /\ verified' \in Nat
          /\ status' \in {"provisional", "validated", "demoted"}
      BY <2>1, ContractAssumption DEF LifeInv, LifecycleTypeOK
    <3>1. LifecycleTypeOK'
      BY <2>2, <3>3, <3>4, <3>5 DEF LifeInv, LifecycleTypeOK
    <3>2. Counters'
      BY <2>1, <2>3, Reset, ContractAssumption DEF LifeInv, LifecycleTypeOK, Counters, StruckOut
    <3> QED
      BY <3>1, <3>2, <2>1 DEF LifeInv
<1>2. CASE UnobservedRun \/ FailedAround \/ Generalise \/ Retire \/ \E step \in Steps : Relax(step)
  <2>1. /\ successes' = successes /\ clean' = clean
        /\ \/ verified' = 0 /\ proven' = FALSE
           \/ verified' = verified /\ proven' = proven
        /\ \/ status' = "demoted" /\ retired' = TRUE
           \/ status' = status /\ retired' = retired
    BY <1>2 DEF UnobservedRun, FailedAround, Generalise, Retire, Relax, GiveUpValidation, histVars
  <2>2. /\ runs' \in 0..MaxRuns /\ stopStreak' \in Nat
        /\ failedAtStep' = failedAtStep /\ gates' \subseteq gates
    BY <1>2, ContractAssumption DEF UnobservedRun, FailedAround, Generalise, Retire, Relax, GiveUpValidation, histVars, Count, LifeInv, LifecycleTypeOK
  <2>3. \/ strikes' = <<>> /\ lastFailedAt' = 0
        \/ strikes' = strikes /\ lastFailedAt' = lastFailedAt
    BY <1>2 DEF UnobservedRun, FailedAround, Generalise, Retire, Relax, GiveUpValidation, histVars
  <2> QED
    <3>3. proven' \in BOOLEAN /\ retired' \in BOOLEAN
      BY <2>1 DEF LifeInv, LifecycleTypeOK
    <3>4. strikes' \in Seq(Steps) /\ lastFailedAt' \in Steps \cup {0}
      BY <2>3, Reset DEF LifeInv, LifecycleTypeOK
    <3>5. successes' \in Nat /\ clean' \in Nat /\ verified' \in Nat
          /\ status' \in {"provisional", "validated", "demoted"}
      BY <2>1 DEF LifeInv, LifecycleTypeOK
    <3>1. LifecycleTypeOK'
      BY <2>2, <3>3, <3>4, <3>5 DEF LifeInv, LifecycleTypeOK
    <3>2. Counters'
      BY <2>1, <2>3, Reset DEF LifeInv, LifecycleTypeOK, Counters, StruckOut
    <3> QED
      BY <3>1, <3>2, <2>1 DEF LifeInv
<1>3. CASE UNCHANGED lifecycleVars
  BY <1>3 DEF lifecycleVars, LifeInv, LifecycleTypeOK, Counters, StruckOut, TwiceRunning
<1> QED
  BY <1>1, <1>2, <1>3

\* The counters always summarise the history.
LEMMA LifeInvHolds == LifecycleSpec => []LifeInv
<1>1. LifeInv /\ [LifecycleNext]_lifecycleVars => LifeInv'
  BY StopStep, OtherStep DEF LifecycleNext
<1> QED
  BY <1>1, LifeInit, PTL DEF LifecycleSpec

\* No second strike running is ever lost.
THEOREM TwoStrikesDemote == LifecycleSpec => []StruckOut
<1>1. LifeInv => StruckOut
  BY DEF LifeInv, Counters
<1> QED
  BY <1>1, LifeInvHolds, PTL

\* An outcome demotes only on two strikes running at one step.
THEOREM DemotionHasCause == LifecycleSpec => DemotedForCause
<1>1. LifeInv /\ [LifecycleNext]_lifecycleVars
        => [status # "demoted" /\ status' = "demoted" => retired' \/ TwiceRunning']_lifecycleVars
  BY StopStep, OtherStep DEF LifecycleNext
<1> QED
  BY <1>1, LifeInvHolds, PTL DEF LifecycleSpec, DemotedForCause

\* A demoted procedure is never brought back by later outcomes.
THEOREM DemotionIsFinal == LifecycleSpec => DemotedStays
<1>1. LifeInv /\ [LifecycleNext]_lifecycleVars => [status = "demoted" => status' = "demoted"]_lifecycleVars
  <2>1. ASSUME NEW step \in Steps, NEW harmless \in BOOLEAN, Stop(step, harmless), status = "demoted"
        PROVE  status' = "demoted"
    BY <2>1 DEF Stop
  <2> QED
    BY <2>1, OtherStep DEF LifecycleNext
<1> QED
  BY <1>1, LifeInvHolds, PTL DEF LifecycleSpec, DemotedStays

\* A validated procedure was seen to work twice.
THEOREM PromotionIsEarned == LifecycleSpec => []PromotionEarned
<1>1. LifeInv => PromotionEarned
  BY DEF LifeInv, Counters, PromotionEarned
<1> QED
  BY <1>1, LifeInvHolds, PTL

\* After contract 1, a status counts as evidence only for the promise the
\* procedure makes now (under contract 1 TLC finds that it does not).
THEOREM EvidenceStaysCurrent == ASSUME Contract > 1 PROVE LifecycleSpec => []EvidenceIsCurrent
<1>1. LifeInv => EvidenceIsCurrent
  BY ContractAssumption DEF LifeInv, Counters, EvidenceIsCurrent, IsVerified, LifecycleTypeOK
<1> QED
  BY <1>1, LifeInvHolds, PTL

-----------------------------------------------------------------------------
(* The daemons of a session and the jobs of an MCP server, for any commands,   *)
(* stores and jobs.                                                            *)

Starting(c) == at[c] = "poll" \/ daemon[c] \in {"look", "unlink", "bind", "up"}

\* A wait is for a job that runs.
Waits == \A j \in Jobs : wait[j] # "nothing" /\ (wait[j] = "yes" => job[j] = "running")

\* A command has no daemon before it spawned one, and talks to somebody's.
Own ==
    \A c \in Cmd :
        /\ at[c] \in {"idle", "connect", "ping", "spawn"} => daemon[c] = "none"
        /\ at[c] \in {"ping", "use", "hung"} => peer[c] \in Cmd

\* While nothing raced: who is about to spawn, or whose daemon is starting or
\* up, is alone in it and beside no daemon that stops.
SpawnsAlone ==
    \A c, d \in Cmd : c # d /\ at[c] = "spawn" => at[d] # "spawn" /\ ~Starting(d) /\ daemon[d] # "stopping"
StartsAlone ==
    \A c, d \in Cmd : c # d /\ Starting(c) => ~Starting(d) /\ daemon[d] # "stopping"

\* So the name is that of the daemon that accepts, and what is used serves.
Named == \A d \in Cmd : Accepts(d) => path = d
Served == \A c \in Cmd \ Stops : at[c] \in {"use", "hung", "served"} => Want[c] \in {None, Want[peer[c]]}

Alone == SpawnsAlone /\ StartsAlone /\ Named /\ Served
SessionInv == SessionTypeOK /\ Waits /\ Own /\ (~raced => Alone)

LEMMA InitInv == SessionInit => SessionInv
  BY CmdAssumption DEF SessionInit, SessionInv, SessionTypeOK, Waits, Own, Alone, SpawnsAlone, StartsAlone, Named, Served, Starting, Accepts, Ended

\* A command's own steps.
LEMMA CommandStep ==
  ASSUME SessionInv, NEW c \in Cmd, Invoke(c) \/ Connect(c) \/ Ping(c) \/ Spawn(c) \/ Poll(c) \/ PollExpires(c) \/ Use(c) \/ Hang(c)
  PROVE  SessionInv'
<1> USE CmdAssumption DEF SessionInv, daemonVars, jobVars, MovesTo, Turns
<1>1. CASE Invoke(c)
  <2>1. SessionTypeOK' /\ Waits' /\ Own'
    BY <1>1 DEF Invoke, SessionTypeOK, Waits, Own, Ended
  <2>2. ~raced' => Alone'
    BY <1>1 DEF Invoke, SessionTypeOK, Alone, SpawnsAlone, StartsAlone, Named, Served, Starting, Accepts
  <2> QED BY <2>1, <2>2
<1>2. CASE Connect(c)
  <2>1. CASE path # None /\ Accepts(path)
    <3>1. at' = [at EXCEPT ![c] = IF c \in Stops THEN "use" ELSE "ping"] /\ peer' = [peer EXCEPT ![c] = path] /\ path \in Cmd
      BY <1>2, <2>1 DEF Connect, SessionTypeOK
    <3>2. SessionTypeOK'
      BY <1>2, <2>1, <3>1 DEF Connect, SessionTypeOK
    <3>3. Waits' /\ Own'
      BY <1>2, <2>1, <3>1 DEF Connect, SessionTypeOK, Waits, Own
    <3>4. ~raced' => Alone'
      BY <1>2, <2>1, <3>1 DEF Connect, SessionTypeOK, Alone, SpawnsAlone, StartsAlone, Named, Served, Starting, Accepts
    <3> QED BY <3>2, <3>3, <3>4
  <2>2. CASE ~(path # None /\ Accepts(path))
    <3>1. at' = [at EXCEPT ![c] = IF c \in Stops THEN "not-running" ELSE "spawn"] /\ raced' = (raced \/ Another(c)) /\ UNCHANGED peer
      BY <1>2, <2>2 DEF Connect
    <3>2. SessionTypeOK'
      BY <1>2, <3>1 DEF Connect, SessionTypeOK, Ended
    <3>3. Waits' /\ Own'
      BY <1>2, <3>1 DEF Connect, SessionTypeOK, Waits, Own
    <3>4. \A d \in Cmd : ~raced => ~Accepts(d)
      BY <2>2, CmdAssumption DEF Alone, Named
    <3>5. ~raced' => \A d \in Cmd \ {c} : at[d] # "spawn" /\ ~Starting(d) /\ daemon[d] # "stopping"
      BY <3>1, <3>4 DEF Another, Starting, Accepts, SessionTypeOK
    <3>6. ~raced' => SpawnsAlone'
      BY <1>2, <3>1, <3>5 DEF Connect, SessionTypeOK, Starting, SpawnsAlone
    <3>7. ~raced' => StartsAlone' /\ Named' /\ Served'
      BY <1>2, <3>1 DEF Connect, SessionTypeOK, Alone, StartsAlone, Named, Served, Starting, Accepts
    <3> QED BY <3>2, <3>3, <3>6, <3>7 DEF Alone
  <2> QED BY <2>1, <2>2
<1>3. CASE Ping(c)
  <2>1. SessionTypeOK' /\ Waits' /\ Own'
    BY <1>3 DEF Ping, SessionTypeOK, Waits, Own, Ended
  <2>2. ~raced' => SpawnsAlone'
    <3>1. CASE at'[c] = "spawn" /\ ~raced'
      <4>1. \A d \in Cmd \ {c} : at[d] # "spawn" /\ ~Starting(d) /\ daemon[d] # "stopping"
        BY <1>3, <3>1 DEF Ping, SessionTypeOK, Beside, Another, Accepts, Starting
      <4> QED BY <1>3, <3>1, <4>1 DEF Ping, SessionTypeOK, Alone, SpawnsAlone, Starting
    <3>2. CASE at'[c] # "spawn"
      BY <1>3, <3>2 DEF Ping, SessionTypeOK, Alone, SpawnsAlone, Starting
    <3> QED BY <3>1, <3>2
  <2>3. ~raced' => StartsAlone' /\ Named' /\ Served'
    BY <1>3 DEF Ping, SessionTypeOK, Alone, StartsAlone, Named, Served, Serves, Starting, Accepts
  <2> QED BY <2>1, <2>2, <2>3 DEF Alone
<1>4. CASE Spawn(c)
  <2>1. SessionTypeOK' /\ Waits' /\ Own'
    BY <1>4 DEF Spawn, SessionTypeOK, Waits, Own, Ended
  <2>2. ~raced' => SpawnsAlone' /\ StartsAlone'
    BY <1>4 DEF Spawn, SessionTypeOK, Alone, SpawnsAlone, StartsAlone, Starting, Another
  <2>3. ~raced' => Named' /\ Served'
    BY <1>4 DEF Spawn, SessionTypeOK, Own, Alone, Named, Served, Accepts
  <2> QED BY <2>1, <2>2, <2>3 DEF Alone
<1>5. CASE Poll(c)
  <2>1. SessionTypeOK' /\ Waits' /\ Own'
    BY <1>5 DEF Poll, SessionTypeOK, Waits, Own, Ended
  <2>2. ~raced => path = c
    BY <1>5 DEF Poll, SessionTypeOK, Alone, StartsAlone, Starting, Accepts
  <2>3. ~raced' => Alone'
    BY <1>5, <2>2 DEF Poll, SessionTypeOK, Alone, SpawnsAlone, StartsAlone, Named, Served, Starting, Accepts
  <2> QED BY <2>1, <2>3
<1>6. CASE PollExpires(c)
  <2>1. SessionTypeOK' /\ Waits' /\ Own'
    BY <1>6 DEF PollExpires, SessionTypeOK, Waits, Own, Ended
  <2>2. ~raced' => Alone'
    BY <1>6 DEF PollExpires, SessionTypeOK, Alone, SpawnsAlone, StartsAlone, Named, Served, Starting, Accepts
  <2> QED BY <2>1, <2>2
<1>7. CASE Use(c)
  <2>1. SessionTypeOK' /\ Waits' /\ Own'
    BY <1>7 DEF Use, Taken, SessionTypeOK, Waits, Own, Ended
  <2>2. ~raced' => SpawnsAlone' /\ StartsAlone'
    BY <1>7 DEF Use, Taken, SessionTypeOK, Own, Alone, SpawnsAlone, StartsAlone, Starting
  <2>3. ~raced' => Named' /\ Served'
    BY <1>7 DEF Use, Taken, SessionTypeOK, Own, Alone, Named, Served, Accepts
  <2> QED BY <2>1, <2>2, <2>3 DEF Alone
<1>8. CASE Hang(c)
  <2>1. SessionTypeOK' /\ Waits' /\ Own'
    BY <1>8 DEF Hang, SessionTypeOK, Waits, Own, Ended
  <2>2. ~raced' => Alone'
    BY <1>8 DEF Hang, SessionTypeOK, Alone, SpawnsAlone, StartsAlone, Named, Served, Starting, Accepts
  <2> QED BY <2>1, <2>2
<1> QED BY <1>1, <1>2, <1>3, <1>4, <1>5, <1>6, <1>7, <1>8

\* A daemon's.
LEMMA DaemonStep ==
  ASSUME SessionInv, NEW d \in Cmd, Serve(d) \/ Crash(d)
  PROVE  SessionInv'
<1> USE CmdAssumption DEF SessionInv, cmdVars, jobVars, Turns
<1>1. SessionTypeOK' /\ Waits' /\ Own'
  BY DEF Serve, Look, Unlink, Bind, Close, Exit, Crash, SessionTypeOK, Waits, Own, Ended
<1>2. ~raced' => SpawnsAlone' /\ StartsAlone' /\ Served'
  BY DEF Serve, Look, Unlink, Bind, Close, Exit, Crash, SessionTypeOK, Alone, SpawnsAlone, StartsAlone, Served, Starting
<1>3. ~raced' => Named'
  BY DEF Serve, Look, Unlink, Bind, Close, Exit, Crash, SessionTypeOK, Alone, StartsAlone, Named, Starting, Accepts
<1> QED BY <1>1, <1>2, <1>3 DEF Alone

\* The MCP server's.
LEMMA JobStep ==
  ASSUME SessionInv, Shutdown \/ \E j \in Jobs : Start(j) \/ JobEnds(j) \/ Status(j) \/ WaitExpires(j)
  PROVE  SessionInv'
<1> USE CmdAssumption DEF SessionInv, cmdVars, daemonVars, MovesTo
<1>1. CASE Shutdown
  <2>1. SessionTypeOK' /\ Waits' /\ Own'
    BY <1>1 DEF Shutdown, SessionTypeOK, Waits, Own, Ended
  <2>2. ~raced' => Alone'
    BY <1>1 DEF Shutdown, SessionTypeOK, Alone, SpawnsAlone, StartsAlone, Named, Served, Starting, Accepts
  <2> QED BY <2>1, <2>2
<1>2. ASSUME NEW j \in Jobs, Start(j) PROVE SessionInv'
  <2>1. PICK past \in SUBSET Prunable : job' = [i \in Jobs |-> IF i = j THEN "running" ELSE IF i \in past THEN "gone" ELSE job[i]]
    BY <1>2 DEF Start
  <2>2. SessionTypeOK' /\ Own'
    BY <1>2, <2>1 DEF Start, SessionTypeOK, Own, Ended
  <2>3. Waits'
    BY <1>2, <2>1 DEF Start, SessionTypeOK, Waits, Prunable
  <2>4. ~raced' => Alone'
    BY <1>2 DEF Start, SessionTypeOK, Alone, SpawnsAlone, StartsAlone, Named, Served, Starting, Accepts
  <2> QED BY <2>2, <2>3, <2>4
<1>3. ASSUME NEW j \in Jobs, JobEnds(j) \/ Status(j) \/ WaitExpires(j) PROVE SessionInv'
  <2>1. SessionTypeOK' /\ Own'
    BY <1>3 DEF JobEnds, Status, WaitExpires, SessionTypeOK, Own
  <2>2. Waits'
    BY <1>3 DEF JobEnds, Status, WaitExpires, SessionTypeOK, Waits
  <2>3. ~raced' => Alone'
    BY <1>3 DEF JobEnds, Status, WaitExpires, Alone, SpawnsAlone, StartsAlone, Named, Served, Starting, Accepts
  <2> QED BY <2>1, <2>2, <2>3
<1> QED BY <1>1, <1>2, <1>3

LEMMA SessionInvariant == SessionSpec => []SessionInv
<1>1. SessionInv /\ [SessionNext]_sessionVars => SessionInv'
  <2> SUFFICES ASSUME SessionInv, [SessionNext]_sessionVars PROVE SessionInv'
    OBVIOUS
  <2>1. CASE UNCHANGED sessionVars
    BY <2>1 DEF sessionVars, cmdVars, daemonVars, jobVars, SessionInv, SessionTypeOK, Waits, Own, Alone, SpawnsAlone, StartsAlone, Named, Served, Starting, Accepts
  <2>2. CASE SessionNext
    BY <2>2, CommandStep, DaemonStep, JobStep DEF SessionNext, Command
  <2> QED BY <2>1, <2>2
<1> QED BY InitInv, <1>1, PTL DEF SessionSpec

\* A wait for a job finds it when it ends, and every state has its type.
THEOREM WaitsAreAnswered == SessionSpec => []SessionsOK
<1>1. SessionInv => SessionsOK
  BY DEF SessionInv, Waits, SessionsOK, WaitFindsJob
<1> QED BY SessionInvariant, <1>1, PTL

\* An orphaned daemon takes two daemons started beside each other, however
\* many commands, stops, crashes and late starts there are; so does a command
\* served by a daemon of another skill store.
THEOREM FaultsNeedRaces == SessionSpec => []FaultsNeedRace
<1>1. SessionInv => OrphanNeedsRace
  BY DEF SessionInv, Alone, Named, Accepts, OrphanNeedsRace, Orphan
<1>2. SessionInv => WrongStoreNeedsRace
  BY DEF SessionInv, Alone, Served, WrongStoreNeedsRace
<1>3. SessionInv => FaultsNeedRace
  BY <1>1, <1>2 DEF FaultsNeedRace
<1> QED BY SessionInvariant, <1>3, PTL
=============================================================================
