--------------------------- MODULE SkillLifecycle ---------------------------
(***************************************************************************)
(* The life of one stored procedure (src/skills/store.ts): how replay      *)
(* outcomes promote, demote or leave it, how a harmless stop relaxes what  *)
(* it requires, and when its validated status counts as evidence.  Each    *)
(* action is one transaction of SkillStore's update or put.                *)
(***************************************************************************)
EXTENDS Integers, Sequences

CONSTANTS
    Steps,      \* the steps of the procedure
    Effects,    \* those that carry a page effect (a popup, a close, a tab)
    Contract,   \* the contract it is written under
    MaxRuns     \* replays and changes looked at: the bound on every counter

ASSUME StepsAssumption == Steps \subseteq Nat \ {0} /\ Effects \subseteq Steps
ASSUME ContractAssumption == Contract \in Nat \ {0} /\ MaxRuns \in Nat

VARIABLES
    status,
    successes,
    lastFailedAt,  \* step of the last strike, 0 if forgiven
    failedAtStep,  \* stops ever made at each step
    stopStreak,
    verified,      \* stats.verifiedContract, 0 if absent
    gates,         \* steps that still have an expectation to relax
    runs,          \* transactions so far
    \* history
    clean,         \* clean observed runs, the recording included
    strikes,       \* steps struck since the last successful full replay
    proven,        \* promoted, or stored as validated, since that weakening
    retired        \* demoted by a decision other than an outcome

lifecycleVars == <<status, successes, lastFailedAt, failedAtStep, stopStreak, verified, gates,
          runs, clean, strikes, proven, retired>>
histVars == <<clean, strikes, proven, retired>>

LifecycleTypeOK ==
    /\ status \in {"provisional", "validated", "demoted"}
    /\ successes \in Nat
    /\ lastFailedAt \in Steps \cup {0}
    /\ failedAtStep \in [Steps -> Nat]
    /\ stopStreak \in Nat
    /\ verified \in Nat
    /\ gates \subseteq Steps
    /\ runs \in 0..MaxRuns
    /\ clean \in Nat
    /\ strikes \in Seq(Steps)
    /\ proven \in BOOLEAN /\ retired \in BOOLEAN

\* A fresh compile counts its own recording as a success, a repair variant
\* starts from nothing, a spec lowered for staging is stored as validated.
\* A procedure of contract 1 was stored by an older build, without a stamp.
Born(st, wins, stamp, evidence) ==
    status = st /\ successes = wins /\ verified = stamp /\ clean = evidence

LifecycleInit ==
    /\ \/ Contract > 1 /\ Born("provisional", 1, Contract, 1) /\ proven = FALSE
       \/ Contract > 1 /\ Born("validated", 0, Contract, 2) /\ proven = TRUE
       \/ Contract = 1 /\ Born("validated", 2, 0, 2) /\ proven = TRUE
       \/ Born("provisional", 0, 0, 0) /\ proven = FALSE
    /\ lastFailedAt = 0 /\ stopStreak = 0
    /\ failedAtStep = [s \in Steps |-> 0]
    /\ gates = Steps \ Effects
    /\ runs = 0
    /\ strikes = <<>> /\ retired = FALSE

Count == runs < MaxRuns /\ runs' = runs + 1

\* isVerified: a missing stamp reads as contract 1.
IsVerified == status = "validated" /\ (IF verified = 0 THEN 1 ELSE verified) = Contract

\* Promotion on the second success, stamped with the contract it is under.
Promote ==
    IF status = "provisional" /\ successes' >= 2
      THEN status' = "validated" /\ verified' = Contract /\ proven' = TRUE
      ELSE UNCHANGED <<status, verified, proven>>

\* A full replay that was seen to work, inside a successful instruction.
CleanRun ==
    /\ Count
    /\ successes' = successes + 1
    /\ Promote
    /\ lastFailedAt' = 0 /\ stopStreak' = 0
    /\ clean' = clean + 1
    /\ strikes' = <<>>
    /\ UNCHANGED <<failedAtStep, gates, retired>>

\* Bug variant: what nobody observed counts as a success.
UnobservedCounts ==
    /\ Count
    /\ successes' = successes + 1
    /\ Promote
    /\ lastFailedAt' = 0 /\ stopStreak' = 0
    /\ strikes' = <<>>
    /\ UNCHANGED <<failedAtStep, gates, clean, retired>>

\* A full replay with a step whose effect nobody could capture.
UnobservedRun ==
    /\ Count
    /\ lastFailedAt' = 0 /\ stopStreak' = 0
    /\ strikes' = <<>>
    /\ UNCHANGED <<status, successes, failedAtStep, verified, gates, clean, proven, retired>>

\* A full replay inside an instruction that failed.
FailedAround ==
    /\ Count
    /\ stopStreak' = 0
    /\ UNCHANGED <<status, successes, lastFailedAt, failedAtStep, verified, gates, histVars>>

\* Bug variant: forgiven at a page effect too.
ForgivenAnywhere(at, harmless) == harmless

\* A stop is forgiven when the recovery changed nothing, never at a step
\* with a page effect: later steps were recorded on the page it opens.
Forgiven(at, harmless) == harmless /\ at \notin Effects

\* Bug variant: two strikes at any steps.
StruckBefore(at) == lastFailedAt # 0

\* The same step failing twice in a row.
StrikesOut(at) == lastFailedAt = at

\* A replay that stopped at a step; harmless says that the instruction
\* succeeded and nothing changed the page after the stop.
Stop(at, harmless) ==
    /\ Count
    /\ stopStreak' = stopStreak + 1
    /\ failedAtStep' = [failedAtStep EXCEPT ![at] = @ + 1]
    /\ IF Forgiven(at, harmless)
         THEN UNCHANGED <<status, lastFailedAt>>
         ELSE /\ status' = IF StrikesOut(at) THEN "demoted" ELSE status
              /\ lastFailedAt' = at
    /\ strikes' = IF harmless /\ at \notin Effects THEN strikes ELSE Append(strikes, at)
    /\ UNCHANGED <<successes, verified, gates, clean, proven, retired>>

\* A recording merged into this procedure (learn.ts keep): a success.
Merge ==
    /\ Count /\ status # "demoted"
    /\ successes' = successes + 1
    /\ Promote
    /\ clean' = clean + 1
    /\ UNCHANGED <<lastFailedAt, failedAtStep, stopStreak, gates, strikes, retired>>

\* Bug variant: the validation stays.
KeepValidation == UNCHANGED verified

GiveUpValidation == verified' = 0

\* relaxExpectation: the recorded expectation a harmless stop proved wrong
\* is dropped, and the validation it carried is given up.
Relax(at) ==
    /\ Count /\ at \in gates
    /\ gates' = gates \ {at}
    /\ GiveUpValidation
    /\ stopStreak' = 0
    /\ proven' = FALSE
    /\ UNCHANGED <<status, successes, lastFailedAt, failedAtStep, clean, strikes, retired>>

\* keepGeneralisations: a url segment or page line is widened.  Where that asks
\* no less than before (contractWeakening), another replay having widened it
\* already, the validation stays.
Generalise ==
    /\ Count
    /\ \/ GiveUpValidation /\ proven' = FALSE
       \/ UNCHANGED <<verified, proven>>
    /\ UNCHANGED <<status, successes, lastFailedAt, failedAtStep, stopStreak, gates, clean, strikes, retired>>

\* supersede, and the export's quarantine of a leaked recording.
Retire ==
    /\ Count /\ status # "demoted"
    /\ status' = "demoted" /\ retired' = TRUE
    /\ UNCHANGED <<successes, lastFailedAt, failedAtStep, stopStreak, verified, gates, clean, strikes, proven>>

LifecycleNext ==
    \/ CleanRun \/ UnobservedRun \/ FailedAround \/ Merge \/ Generalise \/ Retire
    \/ \E at \in Steps : Relax(at) \/ \E harmless \in BOOLEAN : Stop(at, harmless)

LifecycleSpec == LifecycleInit /\ [][LifecycleNext]_lifecycleVars

----------------------------------------------------------------------------
\* A validated procedure was seen to work twice, wherever the evidence came
\* from: replays nobody could observe and forgiven stops never add up to it.
PromotionEarned == status = "validated" => clean >= 2

\* Demoted exactly when the same step was struck twice running with no
\* successful full replay between, or by decision: a harmless stop or a
\* strike elsewhere never makes up the second strike, none is lost, and a
\* later success does not bring a demoted procedure back.
TwiceRunning == \E i \in 1..(Len(strikes) - 1) : strikes[i] = strikes[i + 1]
StruckOut == TwiceRunning => status = "demoted"
DemotedForCause ==
    [][status # "demoted" /\ status' = "demoted" => retired' \/ TwiceRunning']_lifecycleVars
DemotedStays == [][status = "demoted" => status' = "demoted"]_lifecycleVars

\* relaxExpectation: "the validation it carried is given up".  A status is
\* trusted only if it was earned under the promise the procedure makes now.
EvidenceIsCurrent == IsVerified => proven
=============================================================================
