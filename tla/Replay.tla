------------------------------- MODULE Replay -------------------------------
(***************************************************************************)
(* replaySkill (src/skills/replay.ts): one recorded procedure is replayed  *)
(* on a live page without a model.  Every step climbs the same ladder      *)
(* (checks, resolve, skip, act, verify, and at most one repetition) and    *)
(* the result says what a caller may do next: in particular whether        *)
(* anything was dispatched, after which no other procedure may be tried.   *)
(*                                                                         *)
(* The page is the environment: what a look at it answers is any answer    *)
(* the code can get.  A step is its tool and the recorded marks that steer *)
(* the ladder; locators, urls and texts are left out.                      *)
(***************************************************************************)
EXTENDS Integers, Sequences, FiniteSets

CONSTANTS
    Skills,  \* the procedures looked at: sequences of steps
    Body,    \* the step a folded loop repeats
    MaxPass  \* the passes of a folded loop (LoopOptions.max)

Tool == {"read", "wait", "goto", "click", "fill", "loop"}
Mark == {"assert",   \* a condition of an assert instruction
         "again",    \* repeatIfNoEffect
         "reopens",  \* closedBefore: an opener the recording shut first
         "links",    \* a url expectation: a lost target may be navigated to
         "heals",    \* a dead chain may be healed inline
         "mints",    \* it brings a record into existence
         "anywhere"} \* it aims at nothing of the page: a key without a target, a read of the url
\* An assertion keeps its waits only, and a click only is an opener.
StepType == {s \in [tool : Tool, marks : SUBSET Mark] :
               /\ "assert" \in s.marks => s.tool = "wait"
               /\ "reopens" \in s.marks => s.tool = "click"
               /\ "anywhere" \in s.marks => s.tool # "loop" /\ s.marks \cap {"reopens", "links"} = {}}

ASSUME SkillAssumption == Skills \subseteq Seq(StepType) /\ <<>> \notin Skills
ASSUME BodyAssumption == Body \in StepType /\ Body.tool # "loop"
ASSUME PassAssumption == MaxPass \in Nat \ {0}

VARIABLES
    skill,
    pc,
    n, pass,      \* the step, and the pass of the loop it is (0: no loop)
    res,          \* ReplayResult, what a caller reads of it
    verdict,      \* what runStepBody returned
    actedBefore,  \* res.acted as it was when the lifecycle began
    met,          \* absenceMet or countedNone: there is nothing to act on
    dialog,       \* a dialog this run found absent (absentDialog)
    fills,        \* the ledger of standing fills: none, standing, sent with a submit
    resubmitted, refilled, \* the steps repeated once
    heals,        \* pendingHeals: the step, and how each proposal was settled
    aborted,
    \* history
    sent,         \* dispatches per step
    seen,         \* what the last of them was seen to do
    how           \* how the step ended

posVars == <<skill, n, pass>>
runVars == <<actedBefore, met, dialog, fills>>
onceVars == <<resubmitted, refilled>>
sentVars == <<sent, seen>>
vars == <<posVars, pc, res, verdict, runVars, onceVars, heals, aborted, sentVars, how>>

Steps == 1..Len(skill)
Tag == <<n, pass>>
Tags == (UNION {DOMAIN s : s \in Skills}) \X (0..MaxPass)
Step == IF skill[n].tool = "loop" THEN Body ELSE skill[n]
Has(mark) == mark \in Step.marks
IsRead == Step.tool = "read"
Mutates == Step.tool \in {"click", "fill"}

Outcomes == {"none", "not-dispatched", "unknown"}
Seen == {"nothing", "unknown", "no-effect", "shut", "elsewhere", "lost"}

TypeOK ==
    /\ skill \in Skills /\ n \in 1..Len(skill) + 1 /\ pass \in 0..MaxPass
    /\ pc \in {"begin", "gate", "top", "loop", "body", "resolve", "missed", "found",
               "act", "repeat", "verify", "settle", "done", "threw"}
    /\ verdict \in {"none", "ran", "skipped", "stop"}
    /\ res \in [ok : BOOLEAN, refused : BOOLEAN, gateRefused : BOOLEAN, failedAt : 0..Len(skill),
                stepsRun : 0..Len(skill), acted : BOOLEAN, outcome : Outcomes, stopGate : BOOLEAN,
                created : BOOLEAN, assertFailed : BOOLEAN, unobserved : BOOLEAN]
    /\ actedBefore \in BOOLEAN /\ met \in BOOLEAN /\ dialog \in BOOLEAN /\ aborted \in BOOLEAN
    /\ fills \in {"none", "standing", "sent"}
    /\ resubmitted \subseteq Tags /\ refilled \subseteq Tags
    /\ \A i \in DOMAIN heals : heals[i] \in [tag : Tags, state : {"pending", "refused", "verified", "wrong"}]
    /\ sent \in [Tags -> Nat] /\ seen \in [Tags -> Seen]
    /\ how \in [Tags -> {"not-run", "passed", "skipped", "stopped"}]

NoResult == [ok |-> FALSE, refused |-> FALSE, gateRefused |-> FALSE, failedAt |-> 0, stepsRun |-> 0,
             acted |-> FALSE, outcome |-> "none", stopGate |-> FALSE, created |-> FALSE,
             assertFailed |-> FALSE, unobserved |-> FALSE]

Init ==
    /\ skill \in Skills
    /\ pc = "begin" /\ n = 1 /\ pass = 0
    /\ res = NoResult /\ verdict = "none"
    /\ actedBefore = FALSE /\ met = FALSE /\ dialog = FALSE /\ fills = "none"
    /\ resubmitted = {} /\ refilled = {} /\ heals = <<>>
    /\ aborted = FALSE
    /\ sent = [t \in Tags |-> 0] /\ seen = [t \in Tags |-> "nothing"]
    /\ how = [t \in Tags |-> "not-run"]

----------------------------------------------------------------------------
\* The gate stands before the first step that depends on the page.
DependsOnPage(s) == s.tool # "goto" /\ "anywhere" \notin s.marks
GateAt(i) == DependsOnPage(skill[i]) /\ \A j \in 1..(i - 1) : ~DependsOnPage(skill[j])
Enter(i) == IF GateAt(i) THEN "gate" ELSE "top"

Reads == {i \in Steps : skill[i].tool = "read"}
FirstRead == {i \in Reads : \A j \in Reads : i <= j}

\* Bug variant: reads that were skipped count as taken.
SeesNothing(h) == FALSE

\* A procedure that only looks, and all of whose reads were skipped.
ObservedNothing(h) ==
    /\ \A i \in Steps : skill[i].tool \in {"read", "wait", "goto"}
    /\ Reads # {} /\ \A i \in Reads : h[<<i, 0>>] = "skipped"

\* The end of the procedure, which steps having ended how.
Finish(r, h) ==
    LET whole == r.stepsRun = Len(skill) /\ r.failedAt = 0
        blind == whole /\ ObservedNothing(h)
    IN /\ pc' = "done"
       /\ \E at \in IF blind THEN FirstRead ELSE {r.failedAt} :
            res' = [r EXCEPT !.ok = whole /\ ~blind, !.failedAt = at]

\* A contract this build cannot honour, a slot of an acting step without a value.
Begin ==
    /\ pc = "begin"
    /\ \/ pc' = "done" /\ res' = [res EXCEPT !.refused = TRUE]
       \/ pc' = Enter(1) /\ UNCHANGED res
    /\ UNCHANGED <<posVars, verdict, runVars, onceVars, heals, aborted, sentVars, how>>

\* A page that is not the recorded one, or another record's, refuses the
\* procedure, or stops it when a step before the gate has acted.
GateRefusal(unseen) ==
    IF res.acted THEN [res EXCEPT !.failedAt = n, !.unobserved = @ \/ unseen]
    ELSE [res EXCEPT !.refused = TRUE, !.gateRefused = ~unseen, !.unobserved = @ \/ unseen]

Gate ==
    /\ pc = "gate"
    /\ \/ pc' = "top" /\ UNCHANGED res
       \/ pc' = "done" /\ \E unseen \in BOOLEAN : res' = GateRefusal(unseen)
    /\ UNCHANGED <<posVars, verdict, runVars, onceVars, heals, aborted, sentVars, how>>

\* The loop over the steps: the abort check, then the step or its first pass.
Top ==
    /\ pc = "top"
    /\ IF aborted
         THEN Finish([res EXCEPT !.failedAt = n], how)
         ELSE pc' = (IF skill[n].tool = "loop" THEN "loop" ELSE "body") /\ UNCHANGED res
    /\ UNCHANGED <<posVars, verdict, runVars, onceVars, heals, aborted, sentVars, how>>

\* On to the step after this one, or the end.
Onward(r, h) ==
    /\ pass' = 0
    /\ n' = n + 1
    /\ IF n = Len(skill) THEN Finish(r, h) ELSE pc' = Enter(n + 1) /\ res' = r

\* runLoop: FoldedLoop says when it makes a pass and how it ends.
Loop ==
    /\ pc = "loop"
    /\ \/ /\ pass < MaxPass /\ ~aborted
          /\ pass' = pass + 1 /\ pc' = "body"
          /\ UNCHANGED <<n, res>>
       \/ Onward([res EXCEPT !.stepsRun = @ + 1], how)
       \/ Finish([res EXCEPT !.failedAt = n], how) /\ UNCHANGED <<n, pass>>
    /\ UNCHANGED <<skill, verdict, runVars, onceVars, heals, aborted, sentVars, how>>

----------------------------------------------------------------------------
\* runStepBody ends with v; runOneStep settles it.
Return(v, r) == pc' = "settle" /\ verdict' = v /\ res' = r
Stop(r) == Return("stop", [r EXCEPT !.failedAt = n])
\* A condition that did not hold, or that nothing was found to judge by.
Missed == Return("stop", [res EXCEPT !.failedAt = n, !.assertFailed = TRUE])

\* An unfilled slot, another page of the browser, a pick this run already
\* applied; what a submit takes with it; the page settles.
Checks ==
    /\ pc = "body"
    /\ \/ Stop([res EXCEPT !.stopGate = FALSE])
       \/ pass = 0 /\ Step.tool = "click" /\ Return("skipped", [res EXCEPT !.stopGate = FALSE])
       \/ pc' = "resolve" /\ res' = [res EXCEPT !.stopGate = FALSE] /\ UNCHANGED verdict
    /\ fills' = CASE Step.tool = "click" /\ fills = "standing" -> "sent"
                  [] Step.tool \in {"click", "goto"} -> "none"
                  [] OTHER -> fills
    /\ met' = FALSE
    /\ UNCHANGED <<posVars, actedBefore, dialog, onceVars, heals, aborted, sentVars, how>>

\* Where the resolution of the targets may lead: what is waited to be gone or
\* is counted as none, a click that a positional verdict decides.
Resolve ==
    /\ pc = "resolve"
    /\ \/ pc' \in (IF Step.tool = "goto" THEN {"found"} ELSE {"found", "missed"}) /\ met' = FALSE /\ UNCHANGED <<verdict, res>>
       \/ Step.tool \in {"wait", "read"} /\ pc' = "found" /\ met' = TRUE /\ UNCHANGED <<verdict, res>>
       \/ Step.tool = "click" /\ pass = 0 /\ UNCHANGED met
          /\ (Return("skipped", res) \/ Stop(res))
    /\ UNCHANGED <<posVars, actedBefore, dialog, fills, onceVars, heals, aborted, sentVars, how>>

\* tryHeal: a proposal that names another control, or several, is settled at
\* once; one that is taken waits for what the step's own checks say.
Heal ==
    /\ pc = "resolve" /\ Has("heals") /\ ~Has("assert") /\ pass = 0
    /\ \E state \in {"refused", "pending"} :
         /\ heals' = Append(heals, [tag |-> Tag, state |-> state])
         /\ pc' = IF state = "pending" THEN "found" ELSE "missed"
    /\ met' = FALSE
    /\ UNCHANGED <<posVars, actedBefore, dialog, fills, onceVars, verdict, res, aborted, sentVars, how>>

\* A dispatch and what is known of it afterwards.
Send(k, what) ==
    /\ sent' = [sent EXCEPT ![Tag] = @ + k]
    /\ seen' = IF k = 0 THEN seen ELSE [seen EXCEPT ![Tag] = what]

\* navigateToDestination: another link, then the address.  A click that may
\* have landed ends it; one proven not to have gone out does not.
Navigate ==
    /\ pc = "missed" /\ Has("links") /\ pass = 0 /\ Step.tool = "click"
    /\ \/ /\ Send(1, "unknown")
          /\ Stop([res EXCEPT !.acted = TRUE, !.outcome = "unknown"])
       \/ \E k \in 1..2 : Send(k, "elsewhere") /\ Return("ran", res)
       \/ \E k \in 0..2 : Send(k, "elsewhere") /\ Stop(res)
    /\ UNCHANGED <<posVars, runVars, onceVars, heals, aborted, how>>

\* What else a target that is not there means: a condition not met, a read
\* lost, a control of an absent dialog, an effect that is there already, a stop.
Absent ==
    /\ pc = "missed"
    /\ \/ Has("assert") /\ Missed /\ UNCHANGED dialog
       \/ ~Has("assert") /\ IsRead /\ Return("skipped", res) /\ UNCHANGED dialog
       \/ ~Has("assert") /\ ~IsRead /\ dialog /\ ~Has("mints") /\ Return("skipped", res) /\ UNCHANGED dialog
       \/ Step.tool = "click" /\ Return("skipped", res) /\ dialog' \in {dialog, FALSE}
       \/ ~Has("assert") /\ ~IsRead /\ ~(Has("links") /\ Step.tool = "click" /\ pass = 0)
          /\ Stop(res) /\ dialog' \in {dialog, FALSE}
    /\ UNCHANGED <<posVars, actedBefore, met, fills, onceVars, heals, aborted, sentVars, how>>

\* The ladder between the target and the action, for a click: close the popup
\* first, or leave alone what already shows; a loop's repeated pass.
Found ==
    /\ pc = "found"
    /\ dialog' = FALSE
    /\ \/ pc' = "act" /\ UNCHANGED <<verdict, res, sentVars>>
       \/ Step.tool = "click" /\ ~Has("reopens") /\ Return("skipped", res) /\ UNCHANGED sentVars
       \/ Step.tool = "click" /\ Stop(res) /\ UNCHANGED sentVars
       \/ Has("reopens") /\ Send(1, "shut")
          /\ ((pc' = "act" /\ UNCHANGED <<verdict, res>>) \/ Stop(res))
       \/ Has("reopens") /\ pc' = "threw" /\ UNCHANGED <<verdict, res>>
          /\ \E k \in 0..1 : Send(k, "unknown")
       \/ pass > 0 /\ Finish([res EXCEPT !.failedAt = n], how) /\ UNCHANGED <<verdict, sentVars>>
    /\ UNCHANGED <<posVars, actedBefore, met, fills, onceVars, heals, aborted, how>>

----------------------------------------------------------------------------
\* The lifecycle: prepare marks the replay as having acted, act dispatches.
Prepared == [res EXCEPT !.acted = @ \/ ~IsRead]

\* Bug variant: a failure without proof is taken for nothing dispatched.
NoProof == [Prepared EXCEPT !.acted = res.acted, !.outcome = "unknown"]

\* A failure that carries no proof may have reached the page.
Unknown == [Prepared EXCEPT !.outcome = "unknown"]
NotDispatched(before) == [Prepared EXCEPT !.acted = before, !.outcome = "not-dispatched"]

\* Nothing to dispatch, or nothing that changes state: a read taken, lost or
\* in error; a condition that held, perhaps elsewhere, or did not.
Look ==
    /\ pc = "act" /\ ~Mutates
    /\ actedBefore' = res.acted
    /\ \/ pc' = "verify" /\ res' = Prepared /\ Send(IF Step.tool = "goto" THEN 1 ELSE 0, "unknown") /\ UNCHANGED verdict
       \/ ~met /\ IsRead /\ (Stop(res) \/ Return("skipped", res)) /\ UNCHANGED sentVars
       \/ /\ ~met /\ ~IsRead
          /\ IF Has("assert") /\ ~aborted
               THEN Return("stop", [Prepared EXCEPT !.failedAt = n, !.assertFailed = TRUE])
               ELSE Stop(Prepared)
          /\ \E k \in IF Step.tool = "goto" THEN 0..1 ELSE {0} : Send(k, "unknown")
    /\ UNCHANGED <<posVars, met, dialog, fills, onceVars, heals, aborted, how>>

\* Bug variant: a press nobody could watch is pressed again.
PressBlind(what) == Step.tool = "click" /\ Has("again") /\ what \in {"no-effect", "unknown"}

\* A press that was seen to change nothing, where the recording pressed twice.
PressAgain(what) == Step.tool = "click" /\ Has("again") /\ what = "no-effect"

\* The action goes out; a wrong keyboard pick or a popup that never opened
\* stops the step after it.
Act ==
    /\ pc = "act" /\ Mutates
    /\ actedBefore' = res.acted
    /\ \/ Stop(NotDispatched(res.acted)) /\ UNCHANGED sentVars
       \/ Stop(Unknown) /\ \E k \in 0..1 : Send(k, "unknown")
       \/ \E what \in {"unknown", "no-effect"} :
            /\ Send(1, what)
            /\ IF PressAgain(what) THEN pc' = "repeat" /\ res' = Prepared /\ UNCHANGED verdict
               ELSE (pc' = "verify" /\ res' = Prepared /\ UNCHANGED verdict) \/ Stop(Prepared)
    /\ UNCHANGED <<posVars, met, dialog, fills, onceVars, heals, aborted, how>>

Repeat ==
    /\ pc = "repeat"
    /\ \/ Stop(NotDispatched(actedBefore)) /\ UNCHANGED sentVars
       \/ Stop(Unknown) /\ \E k \in 0..1 : Send(k, "unknown")
       \/ Send(1, "unknown") /\ ((pc' = "verify" /\ UNCHANGED <<res, verdict>>) \/ Stop(res))
    /\ UNCHANGED <<posVars, runVars, onceVars, heals, aborted, how>>

----------------------------------------------------------------------------
\* Bug variant: a submit is repeated as often as its form is found empty.
AnyNumber == TRUE

Once == Tag \notin resubmitted

\* What the step brought into existence is bound before it is judged.
Bound == {[res EXCEPT !.created = @ \/ made] : made \in IF Has("mints") THEN BOOLEAN ELSE {FALSE}}

\* The gates (url, changes, removals, alerts, error page, landing) all pass.
Pass ==
    /\ pc = "verify"
    /\ \E r \in Bound, unseen \in BOOLEAN : Return("ran", [r EXCEPT !.unobserved = @ \/ unseen])
    /\ dialog' \in (IF Step.tool = "click" THEN {dialog, TRUE} ELSE {dialog})
    /\ fills' = IF Step.tool = "fill" THEN "standing" ELSE fills
    /\ UNCHANGED <<posVars, actedBefore, met, onceVars, heals, aborted, sentVars, how>>

\* The first gate that does not pass stops the step.
Refuse ==
    /\ pc = "verify"
    /\ \E r \in Bound, gate \in IF pass = 0 /\ ~Has("assert") THEN BOOLEAN ELSE {FALSE} :
         Stop([r EXCEPT !.stopGate = gate])
    /\ UNCHANGED <<posVars, runVars, onceVars, heals, aborted, sentVars, how>>

\* The page replaced its document under the submit, or under the fill: the
\* form is empty again, and the step is run once more.
Lost ==
    /\ pc = "verify"
    /\ res' \in Bound
    /\ \/ /\ Step.tool = "click" /\ fills = "sent" /\ Once
          /\ resubmitted' = resubmitted \cup {Tag} /\ fills' = "standing"
          /\ UNCHANGED refilled
       \/ /\ Step.tool = "fill" /\ Tag \notin refilled
          /\ refilled' = refilled \cup {Tag}
          /\ UNCHANGED <<resubmitted, fills>>
    /\ seen' = [seen EXCEPT ![Tag] = "lost"]
    /\ pc' = "body"
    /\ UNCHANGED <<posVars, verdict, actedBefore, met, dialog, heals, aborted, sent, how>>

----------------------------------------------------------------------------
\* runOneStep: a condition is never silently skipped, every heal is settled by
\* what its step came to, and a step that did not stop is counted.
Final == IF Has("assert") /\ verdict # "ran" /\ ~res.assertFailed /\ ~aborted THEN "stop" ELSE verdict

\* Bug variant: a heal is good once its locator was used.
Used(v) == v # "skipped"

Verified(v) == v = "ran"

Counted(r) == IF pass > 0 THEN r ELSE [r EXCEPT !.stepsRun = @ + 1]

Settle ==
    /\ pc = "settle"
    /\ LET stopped == Final # verdict
           r == IF stopped THEN [res EXCEPT !.failedAt = n, !.assertFailed = TRUE] ELSE res
           h == [how EXCEPT ![Tag] = CASE Final = "ran" -> "passed" [] Final = "skipped" -> "skipped" [] OTHER -> "stopped"]
       IN /\ how' = h
          /\ IF Final = "stop" THEN Finish(r, h) /\ UNCHANGED <<n, pass>>
             ELSE IF pass > 0 THEN pc' = "loop" /\ res' = Counted(r) /\ UNCHANGED <<n, pass>>
             ELSE Onward(Counted(r), h)
    /\ heals' = [i \in DOMAIN heals |->
                   IF heals[i].state # "pending" THEN heals[i]
                   ELSE [heals[i] EXCEPT !.state = IF Verified(Final) THEN "verified" ELSE "wrong"]]
    /\ verdict' = "none"
    /\ UNCHANGED <<skill, runVars, onceVars, aborted, sentVars>>

\* The instruction's budget runs out (opts.signal).
Abort ==
    /\ pc \notin {"done", "threw"} /\ ~aborted
    /\ aborted' = TRUE
    /\ UNCHANGED <<posVars, pc, res, verdict, runVars, onceVars, heals, sentVars, how>>

Run ==
    \/ Begin \/ Gate \/ Top \/ Loop
    \/ Checks \/ Resolve \/ Heal \/ Navigate \/ Absent \/ Found
    \/ Look \/ Act \/ Repeat \/ Pass \/ Refuse \/ Lost \/ Settle

Next == Run \/ Abort

Spec == Init /\ [][Next]_vars

----------------------------------------------------------------------------
\* A replay that says ok left no condition unproven and no step stopped, and
\* one that only looks saw something (replaySkill's res.ok, observedNothing).
OkMeansPassed ==
    pc = "done" /\ res.ok =>
        /\ \A t \in Tags : how[t] # "stopped"
        /\ \A i \in Steps : "assert" \in skill[i].marks => how[<<i, 0>>] = "passed"
        /\ (Reads # {} /\ \A i \in Steps : skill[i].tool \in {"read", "wait", "goto"})
             => \E i \in Reads : how[<<i, 0>>] = "passed"

\* A result that does not say that it acted dispatched nothing, but for what
\* was seen to be harmless: a popup shut, a way to the recorded page, a press
\* without effect.  One that says refused dispatched nothing at all.  It is
\* what lets a caller try another procedure (ReplayResult.acted, .refused).
UntoldIsHarmless ==
    pc = "done" /\ (~res.acted \/ res.refused) =>
        \A t \in Tags : sent[t] = 0 \/ (~res.refused /\ seen[t] \in {"shut", "elsewhere", "no-effect"})

\* No step's action goes out again unless the last time was seen to do
\* nothing, to be lost with its document, or to have been something else
\* (repeatIfNoEffect, standingFillsLost, fillLost, closeBeforeReopen).
SentAgainOnlyUnseen ==
    [][\A t \in Tags : sent'[t] > sent[t] /\ sent[t] > 0 => seen[t] \in {"no-effect", "shut", "elsewhere", "lost"}]_vars

\* Every proposal of the healer is settled when the replay returns, and called
\* verified only if the step it was for passed its own checks (runOneStep).
HealsSettled ==
    pc = "done" => \A i \in DOMAIN heals :
        /\ heals[i].state # "pending"
        /\ heals[i].state = "verified" => how[heals[i].tag] = "passed"

\* Whatever the page does under it, a step is attempted twice at most, and an
\* attempt presses once more only for a popup to shut, a press without effect
\* or a way to the recorded page (resubmitted, refilled).
PressesBounded ==
    \A t \in Tags : t[1] \in Steps =>
        LET step == IF skill[t[1]].tool = "loop" THEN Body ELSE skill[t[1]]
        IN sent[t] <= 2 * (1 + Cardinality(step.marks \cap {"again", "reopens", "links"}))

\* Both, in a state of the right types.
ReplayOK == TypeOK /\ PressesBounded /\ HealsSettled
\* What a caller reads off the result is true.
ResultMeans == OkMeansPassed /\ UntoldIsHarmless
============================================================================
