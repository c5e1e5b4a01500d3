------------------------------ MODULE Converge ------------------------------
(***************************************************************************)
(* build --converge (src/spec/converge.ts and the seams src/cli.ts gives   *)
(* it): compile the recording, check the spec that comes out, re-record    *)
(* the step a refusal or a failure names, and again.  A re-record takes    *)
(* the step's procedure out of the store for the time of its runs, has the *)
(* flow run with the step on a model, and keeps the result if a run pinned *)
(* the step and the last one came to its end at tier A.                    *)
(*                                                                         *)
(* Which steps are named, and how a check or a run ends, is anything.  The *)
(* pins of the other steps are FlowRunner's and stay here.                 *)
(***************************************************************************)
EXTENDS Integers, Sequences, FiniteSets

CONSTANTS
    Steps,        \* the steps of the flow, 1..N in its order
    Lost,         \* those the recording did and the flow left out
    Proc, First,  \* procedures; the one each step is pinned to at first
    MaxRounds, RerecordRuns,
    NoProc

ASSUME StepsAssumption == Steps \subseteq Nat /\ IsFiniteSet(Steps) /\ Lost \subseteq Steps
Statuses == {"converged", "stuck", "stuck-repin", "timed-out", "unavailable", "exhausted"}

ASSUME ProcAssumption == NoProc \notin Proc \cup Statuses /\ First \in [Steps -> Proc \cup {NoProc}]
ASSUME BoundsAssumption == MaxRounds \in Nat \ {0} /\ RerecordRuns \in Nat \ {0}

VARIABLES
    kind, hasReset, hasKey,  \* what is given; a reset command; a model's key
    allowDemoted, placed,    \* the flag; what the export placed and nothing undid
    file, steps, omitted,    \* the recording: its pins, its steps, what it left out
    store, carried,          \* the procedures; the demoted ones a bundle holds
    phase, round, status,
    refused, lastOk,         \* refused re-records of each step; how the last one ended
    job, runs,               \* the step being re-recorded, the runs left
    staged, retired,         \* its pins and procedures while it is
    last,                    \* how the latest run's step ended
    app,                     \* what the app holds of earlier runs
    \* history
    version, compiled, good,  \* re-recordings kept; the latest compiled; the pins
                              \* that were last seen to pass
    gone, was                 \* procedures replaced for good; what the attempts
                              \* at a step since then were to replace

flowGiven == <<kind, hasReset, hasKey, allowDemoted, placed>>
recording == <<file, steps, omitted, store, carried>>
attempt == <<job, runs, staged, retired, last>>
convergeHistory == <<version, compiled, good, gone, was>>
convergeVars == <<flowGiven, recording, phase, round, status, refused, lastOk, attempt, app, convergeHistory>>

Pins == [Steps -> Proc \cup {NoProc}]
Stores == [Proc -> {"absent", "live", "demoted"}]

ConvergeTypeOK ==
    /\ kind \in {"flow", "bundle"} /\ hasReset \in BOOLEAN /\ hasKey \in BOOLEAN
    /\ allowDemoted \in BOOLEAN /\ placed \subseteq Lost
    /\ file \in Pins /\ steps \subseteq Steps /\ omitted \subseteq Lost
    /\ store \in Stores /\ carried \subseteq Proc
    /\ phase \in {"compile", "reset", "check", "stage", "run", "done", "exited"}
    /\ round \in 1..MaxRounds + 1 /\ status \in Statuses \cup {NoProc}
    /\ refused \in [Steps -> 0..2] /\ lastOk \in BOOLEAN
    /\ job \in Steps \cup {NoProc} /\ runs \in 0..(IF RerecordRuns > 3 THEN RerecordRuns ELSE 3)
    /\ staged \in Pins /\ retired \subseteq Proc
    /\ last \in {"unreached", "failed", "model", "tierA"}
    /\ app \in {"clean", "used"}
    /\ version \in Nat /\ compiled \in -1..version /\ good \in Pins \cup {NoProc}
    /\ gone \subseteq Proc /\ was \in [Steps -> Seq(Proc \cup {NoProc})]

\* A flow's procedures are in the user's store; a bundle brings its own, as it
\* was saved.
Pinned(pins) == {pins[s] : s \in Steps} \ {NoProc}
Imported == [p \in Proc |-> IF p \notin Pinned(file) THEN "absent"
                            ELSE IF p \in carried THEN "demoted" ELSE "live"]

ConvergeInit ==
    /\ kind \in {"flow", "bundle"} /\ hasReset \in BOOLEAN /\ hasKey \in BOOLEAN
    /\ allowDemoted \in BOOLEAN /\ placed \in SUBSET Lost
    /\ file = [s \in Steps |-> IF s \in Lost THEN NoProc ELSE First[s]]
    /\ steps = Steps \ Lost /\ omitted = Lost
    /\ carried = {} /\ store = Imported
    /\ phase = "compile" /\ round = 1 /\ status = NoProc
    /\ refused = [s \in Steps |-> 0] /\ lastOk = FALSE
    /\ job = NoProc /\ runs = 0 /\ staged = file /\ retired = {} /\ last = "unreached"
    /\ app = "used"
    /\ version = 0 /\ compiled = -1 /\ good = NoProc /\ gone = {} /\ was = [s \in Steps |-> <<>>]

----------------------------------------------------------------------------
\* The round after the last only compiles and checks what the last one left.
Final == round > MaxRounds

\* The break before that round, and the end of the rounds.
Over == Final /\ ~lastOk

Done(what) == phase' = "done" /\ status' = what /\ UNCHANGED <<job, runs>>

\* Bug variant: one attempt more after the second refusal.
ThreeTimes(s) == refused[s] > 2

RefusedTwice(s) == refused[s] >= 2

\* rerecordStep, up to the call: without a model, or refused twice, it is not made.
Rerecord(s) ==
    \/ ~hasKey /\ Done("unavailable")
    \/ hasKey /\ RefusedTwice(s) /\ Done("stuck-repin")
    \/ /\ hasKey /\ ~RefusedTwice(s)
       /\ job' = s /\ runs' = IF refused[s] > 0 /\ RerecordRuns < 3 THEN 3 ELSE RerecordRuns
       /\ phase' = "stage" /\ UNCHANGED status

FirstOf(s, named) == s \in named /\ \A t \in named : s <= t

Refusal(named) ==
    \/ (named = {} \/ Final) /\ Done("stuck")
    \/ ~Final /\ \E s \in Steps : FirstOf(s, named) /\ Rerecord(s)

\* recoverable: what the export placed, if no step of the flow has it pinned.
\* The rest of what was left out is a warning.
Recoverable == {s \in omitted \cap placed : file[s] = NoProc}

\* Work that was left out is redone before the spec is looked at.
LeftOut ==
    \/ Final /\ Done("exhausted")
    \/ ~Final /\ \E s \in Steps : FirstOf(s, Recoverable) /\ Rerecord(s)

\* A step without a procedure blocks the compile, and names nothing.
Missing == {s \in steps : file[s] = NoProc}

OutOfUse(s) == IF kind = "flow" THEN store[file[s]] = "demoted" ELSE file[s] \in carried

\* A demoted pin does name its step, if the flag does not let it pass.
Demotions == {s \in steps : ~allowDemoted /\ file[s] # NoProc /\ OutOfUse(s)}

\* What else a compile is refused for is anything.
Compile ==
    /\ phase = "compile" /\ ~Over
    /\ compiled' = version
    /\ \/ \E named \in SUBSET steps : Demotions \subseteq named /\ Refusal(named)
       \/ /\ Missing = {} /\ Demotions = {}
          /\ \/ Recoverable # {} /\ LeftOut
             \/ Recoverable = {} /\ phase' = "reset" /\ UNCHANGED <<status, job, runs>>
    /\ UNCHANGED <<flowGiven, recording, round, refused, lastOk, staged, retired, last, app, version, good, gone, was>>

Exhausted ==
    /\ phase = "compile" /\ Over
    /\ Done("exhausted")
    /\ UNCHANGED <<flowGiven, recording, round, refused, lastOk, staged, retired, last, app, convergeHistory>>

\* Without a reset command the check takes the app as it is; one that fails
\* ends the process.
Reset ==
    /\ phase = "reset"
    /\ phase' \in {"check", "exited"}
    /\ app' = IF hasReset THEN "clean" ELSE app
    /\ UNCHANGED <<flowGiven, recording, round, status, refused, lastOk, attempt, convergeHistory>>

\* A failure, or a fallback that blocks, names a step of the flow, something
\* else, or nothing.
NamesStep(s) ==
    \/ Final /\ Done("exhausted")
    \/ ~Final /\ s = NoProc /\ Done("stuck")
    \/ ~Final /\ s # NoProc /\ Rerecord(s)

\* Bug variant: a spec that passes is enough, whatever it fell back on.
DriftIgnored(passed, drift) == passed

CleanCheck(passed, drift) == passed /\ ~drift

Check ==
    /\ phase = "check"
    /\ app' = "used"
    /\ \/ Done("unavailable") /\ UNCHANGED good
       \/ Done("timed-out") /\ UNCHANGED good
       \/ \E passed, drift \in BOOLEAN :
            /\ IF CleanCheck(passed, drift) THEN Done("converged") ELSE \E s \in steps \cup {NoProc} : NamesStep(s)
            /\ good' = IF passed /\ ~drift /\ (hasReset => app = "clean") THEN file ELSE good
    /\ UNCHANGED <<flowGiven, recording, round, refused, lastOk, staged, retired, last, version, compiled, gone, was>>

----------------------------------------------------------------------------
\* Bug variant: the procedure that is replaced stays a candidate.
RetireNothing(s) == {}

\* chainToRetire: what the step is pinned to.
Retires(s) == IF file[s] = NoProc THEN {} ELSE {file[s]}

\* The step is put in if it was left out, unpinned, and its procedure demoted.
\* Of a flow all this is done in place.
Stage ==
    /\ phase = "stage"
    /\ LET pins == [file EXCEPT ![job] = NoProc]
           from == IF kind = "flow" THEN store ELSE Imported
       IN /\ staged' = pins
          /\ file' = IF kind = "flow" THEN pins ELSE file
          /\ steps' = IF kind = "flow" THEN steps \cup {job} ELSE steps
          /\ retired' = {p \in Retires(job) : from[p] = "live"}
          /\ store' = [p \in Proc |-> IF p \in Retires(job) /\ from[p] = "live" THEN "demoted" ELSE from[p]]
    /\ last' = "unreached" /\ phase' = "run"
    /\ was' = [was EXCEPT ![job] = Append(@, file[job])]
    /\ UNCHANGED <<flowGiven, omitted, carried, round, status, refused, lastOk, job, runs, app, version, compiled, good, gone>>

\* decideRepin: the pin stays, or moves to a procedure that is in use, or new.
Repins ==
    \/ UNCHANGED <<staged, store>>
    \/ \E p \in {p \in Proc : store[p] # "demoted"} :
         staged' = [staged EXCEPT ![job] = p] /\ store' = [store EXCEPT ![p] = "live"]

\* One run of the staged flow (FlowRunner), after a reset.  Without any
\* procedure in use the step is a model's; else it may end at tier A: its pin
\* was replayed, or another procedure was, or a model finished what a replay
\* began, and the last two may move the pin.
RunStaged ==
    /\ phase = "run" /\ runs > 0
    /\ runs' = runs - 1 /\ app' = "used"
    /\ \/ last' \in {"unreached", "failed"} /\ UNCHANGED <<staged, store>>
       \/ last' = "model" /\ Repins
       \/ last' = "tierA" /\ (\E p \in Proc : store[p] = "live") /\ Repins
    /\ file' = IF kind = "flow" THEN staged' ELSE file
    /\ UNCHANGED <<flowGiven, steps, omitted, carried, phase, round, status, refused, lastOk, job, retired, convergeHistory>>

\* The run could not be made at all: fail() ends the process where it is.
RunFails ==
    /\ phase = "run" /\ runs > 0
    /\ phase' = "exited"
    /\ UNCHANGED <<flowGiven, recording, round, status, refused, lastOk, attempt, app, convergeHistory>>

\* rerecordVerdict: some run pinned the step and the last one ended at tier A.
\* Which procedure it replayed is never known: the daemon reports "n/m".
RerecordVerdict == staged[job] # NoProc /\ last = "tierA"

PinsKept ==
    /\ file' = staged /\ steps' = steps \cup {job} /\ omitted' = omitted \ {job}
    /\ carried' = {p \in Pinned(staged) : kind = "bundle" /\ store[p] = "demoted"}
    /\ version' = version + 1 /\ gone' = gone \cup retired
    /\ was' = [was EXCEPT ![job] = <<>>]
    /\ UNCHANGED <<store, refused>>

\* Bug variant: what was retired stays retired.
RestoreNone == store

\* The procedures get their status back.
Restored == [p \in Proc |-> IF p \in retired THEN "live" ELSE store[p]]

\* A flow keeps the attempt, a bundle stays as it was.
GivenUp ==
    /\ store' = Restored
    /\ refused' = [refused EXCEPT ![job] = @ + 1]
    /\ UNCHANGED <<file, steps, omitted, carried, version, gone, was>>

Judge ==
    /\ phase = "run" /\ runs = 0
    /\ lastOk' = RerecordVerdict
    /\ IF RerecordVerdict THEN PinsKept ELSE GivenUp
    /\ retired' = {} /\ job' = NoProc
    /\ phase' = "compile" /\ round' = round + 1
    /\ UNCHANGED <<flowGiven, status, runs, staged, last, app, compiled, good>>

ConvergeNext == Compile \/ Exhausted \/ Reset \/ Check \/ Stage \/ RunStaged \/ RunFails \/ Judge

ConvergeSpec == ConvergeInit /\ [][ConvergeNext]_convergeVars

----------------------------------------------------------------------------
\* converge.ts: "the loop must not end on an untested recording".
LastIsCompiled == phase = "done" => compiled = version

\* So it does not, in a state of the right types.
ConvergeOK == ConvergeTypeOK /\ LastIsCompiled

\* What the artifact is called converged for: the pins as they are now were
\* seen to pass with no fallback that blocks, on an app that was reset if there
\* is a reset command; every step of the flow has a procedure, one in use unless
\* the flag lets a demoted one pass; and what the recording did beside the flow
\* is a step of it by now, but for what the export did not place or was undone.
ConvergedMeans ==
    status = "converged" =>
        /\ good = file /\ compiled = version
        /\ \A s \in steps : file[s] # NoProc /\ (allowDemoted \/ ~OutOfUse(s))
        /\ omitted \cap placed \subseteq steps

\* cli.ts: "restored to its old status if the re-record fails, so a failed
\* attempt leaves the store as it was": between re-records the only procedures
\* out of use are those a kept one replaced.
StoreAsItWas ==
    kind = "flow" /\ phase \in {"compile", "reset", "check", "done"} =>
        {p \in Proc : store[p] = "demoted"} = gone

\* rerecord.ts: what is retired is "so the store's re-pin rule cannot hand the
\* step back the procedure it was asked to replace": what is kept was not, and
\* of a bundle (a flow was unpinned by the attempt before) nor was what any
\* attempt since the last kept one was to replace.
NewProcedure ==
    [][version' # version =>
         \A i \in DOMAIN was[job] : (i = Len(was[job]) \/ kind = "bundle") => staged[job] # was[job][i]]_convergeVars
=============================================================================
