---------------------------- MODULE Instruction ----------------------------
(***************************************************************************)
(* One instruction in the hands of a model: runInstruction and             *)
(* runEscalatingInstruction (src/agent/loop.ts).  Turn by turn the model   *)
(* is asked, its tool calls are run and answered in order, and a report    *)
(* ends the instruction unless a hold asks about it first; beside the      *)
(* model a first-tier actor may act (src/agent/actor-act.ts).  A blocked   *)
(* instruction is tried once more by a stronger model.  A stop, and the    *)
(* deadline, may come at any step.                                         *)
(*                                                                         *)
(* What the model answers, and how a tool call ends, is anything.  What a  *)
(* stopped call still does to the page is Daemon's.                        *)
(***************************************************************************)
EXTENDS Integers, FiniteSets

CONSTANTS
    MaxTurns,   \* the turn cap of the first attempt
    MaxCalls,   \* tool calls of one completion: a bound
    MaxActs,    \* MAX_ACTS of the actor
    Names       \* what a report may name: two names of one value are one here

ASSUME BoundsAssumption == MaxTurns \in Nat \ {0} /\ MaxCalls \in Nat \ {0} /\ MaxActs \in Nat

VARIABLES
    assert, actor, fallback,  \* an assertion; there is an actor; there is a stronger model
    steady,                   \* the model does nothing but report success
    attempt, pc,
    turn, cap, idle, warned, retried,  \* the turn, unproductive ones, what was said of cap and report
    asked, acts, nudged,      \* holds asked; gestures since the last nudge
    acted, silent,            \* the actor's calls; whether it takes no more
    left, owed, tool,         \* calls of the turn to handle, calls in the history without a result
    asserted,                 \* a wait_for held
    stop, late,
    held, sought,             \* names a report held back gave; those whose source was asked for
    status, bail, values,     \* the report
    \* history
    accepted, ever            \* a report was accepted; all names held back

given == <<assert, actor, fallback, steady>>
turns == <<turn, cap, idle, warned, retried>>
holding == <<asked, held, sought, ever>>
gestures == <<acts, nudged>>
acting == <<acted, silent>>
calls == <<left, owed, tool>>
signals == <<stop, late>>
result == <<status, bail, values, accepted>>
vars == <<given, attempt, pc, turns, holding, gestures, acting, calls, asserted, signals, result>>

Holds == {"unchecked", "contradiction", "naming", "sourcing"}
Reports == {"success", "failure", "blocked"}
Bails == {"turn-cap", "timeout", "stalled", "stopped", "invalid-report", "looping"}

\* Every tool call on an assistant message must get a tool result: the history
\* is whole whenever it is sent.
Answered == owed = left /\ (pc \notin {"calls", "tool"} => owed = 0)

\* It is, in a state of the right types.
InstructionOK ==
    /\ assert \in BOOLEAN /\ actor \in BOOLEAN /\ fallback \in BOOLEAN /\ steady \in BOOLEAN
    /\ attempt \in 1..2 /\ pc \in {"start", "top", "ask", "calls", "tool", "done", "returned", "thrown"}
    /\ turn \in Nat /\ cap \in Nat /\ idle \in 0..3 /\ warned \in BOOLEAN /\ retried \in BOOLEAN
    /\ asked \subseteq Holds /\ held \subseteq Names /\ sought \subseteq Names /\ ever \subseteq Names
    /\ acts \in 0..3 /\ nudged \in BOOLEAN /\ acted \in 0..MaxActs /\ silent \in BOOLEAN
    /\ left \in 0..MaxCalls /\ tool \in {"none", "act", "wait", "actor"}
    /\ asserted \in BOOLEAN /\ stop \in BOOLEAN /\ late \in BOOLEAN
    /\ status \in Reports \cup {"none"} /\ bail \in Bails \cup {"none"} /\ values \subseteq Names
    /\ accepted \in BOOLEAN
    /\ Answered

\* The actor may still be silent from the same instruction given before.
Init ==
    /\ assert \in BOOLEAN /\ actor \in BOOLEAN /\ fallback \in BOOLEAN /\ steady \in BOOLEAN
    /\ (assert => ~actor) /\ (steady => ~actor)
    /\ attempt = 1 /\ pc = "start"
    /\ turn = 1 /\ cap = MaxTurns /\ idle = 0 /\ warned = FALSE /\ retried = FALSE
    /\ asked = {} /\ held = {} /\ sought = {} /\ ever = {} /\ acts = 0 /\ nudged = FALSE
    /\ acted = 0 /\ silent \in (IF actor THEN BOOLEAN ELSE {TRUE})
    /\ left = 0 /\ owed = 0 /\ tool = "none" /\ asserted = FALSE /\ stop = FALSE /\ late = FALSE
    /\ status = "none" /\ bail = "none" /\ values = {} /\ accepted = FALSE

----------------------------------------------------------------------------
Goto(where) == pc' = where

\* finish: the report, and why if the model did not give it.
Finish(what, why) == Goto("done") /\ status' = what /\ bail' = why

\* Bug variant: what was no turn is not counted.
SameTurn == turn' = turn /\ Goto("top")

NextTurn == turn' = turn + 1 /\ Goto("top")

\* An attempt starts from nothing but the history.
Start ==
    /\ pc = "start" /\ Goto("top")
    /\ turn' = 1 /\ idle' = 0 /\ warned' = FALSE /\ retried' = FALSE
    /\ asked' = {} /\ held' = {} /\ sought' = {} /\ ever' = {} /\ acts' = 0 /\ nudged' = FALSE /\ asserted' = FALSE
    /\ status' = "none" /\ bail' = "none" /\ values' = {} /\ accepted' = FALSE
    /\ UNCHANGED <<given, attempt, cap, acting, calls, signals>>

\* The head of the turn loop; near the cap the model is warned.
Top ==
    /\ pc = "top"
    /\ \/ turn > cap /\ Finish("blocked", "turn-cap") /\ UNCHANGED warned
       \/ turn <= cap /\ stop /\ Finish("blocked", "stopped") /\ UNCHANGED warned
       \/ turn <= cap /\ ~stop /\ late /\ Finish("blocked", "timeout") /\ UNCHANGED warned
       \/ turn <= cap /\ ~stop /\ ~late /\ Goto("ask") /\ warned' = (warned \/ turn > cap - 2) /\ UNCHANGED <<status, bail>>
    /\ UNCHANGED <<given, attempt, turn, cap, idle, retried, holding, gestures, acting, calls, asserted, signals, values, accepted>>

\* While the model thinks the actor acts: the model's call is given up, and
\* the turn starts again.
ActorActs ==
    /\ pc = "ask" /\ actor /\ ~silent /\ acted < MaxActs
    /\ acted' = acted + 1 /\ tool' = "actor" /\ Goto("tool")
    /\ UNCHANGED <<given, attempt, turns, holding, gestures, silent, left, owed, asserted, signals, result>>

\* A turn without a tool call; the third in a row ends the instruction.
Unproductive ==
    /\ idle' = idle + 1
    /\ IF idle + 1 >= 3 THEN Finish("blocked", "stalled") /\ UNCHANGED turn
       ELSE NextTurn /\ UNCHANGED <<status, bail>>

Complete ==
    /\ pc = "ask"
    /\ \/ /\ ~steady /\ Unproductive /\ UNCHANGED calls
       \/ /\ \E n \in 1..(IF steady THEN 1 ELSE MaxCalls) : left' = n /\ owed' = owed + n
          /\ idle' = 0 /\ Goto("calls") /\ UNCHANGED <<turn, tool, status, bail>>
    /\ UNCHANGED <<given, attempt, cap, warned, retried, holding, gestures, acting, asserted, signals, values, accepted>>

\* The watchdog gives the model's call up: a stop, the deadline, or the time
\* of a turn.
GivenUp ==
    /\ pc = "ask" /\ (steady => stop \/ late)
    /\ \/ stop /\ NextTurn /\ UNCHANGED <<idle, status, bail>>
       \/ ~stop /\ late /\ Finish("blocked", "timeout") /\ UNCHANGED <<turn, idle>>
       \/ ~stop /\ ~late /\ Unproductive
    /\ UNCHANGED <<given, attempt, cap, warned, retried, holding, gestures, acting, calls, asserted, signals, values, accepted>>

\* The provider fails: the error is the caller's.
Throw ==
    /\ pc = "ask" /\ ~steady /\ Goto("thrown")
    /\ UNCHANGED <<given, attempt, turns, holding, gestures, acting, calls, asserted, signals, result>>

----------------------------------------------------------------------------
\* Bug variant: the calls that are not run are not answered.
StubNone == owed - 1

\* stubFrom: the call at hand and those after it have their results.
StubRest == owed - left

\* The turn is over, or ends early.
TurnEnds ==
    /\ pc = "calls" /\ (left = 0 \/ stop \/ late)
    /\ left' = 0 /\ owed' = StubRest /\ NextTurn
    /\ UNCHANGED <<given, attempt, cap, idle, warned, retried, holding, gestures, acting, tool, asserted, signals, result>>

Handling == pc = "calls" /\ left > 0 /\ ~stop /\ ~late

\* Arguments that are no JSON.
Malformed ==
    /\ Handling /\ ~steady
    /\ left' = left - 1 /\ owed' = owed - 1
    /\ UNCHANGED <<given, attempt, pc, turns, holding, gestures, acting, tool, asserted, signals, result>>

Call(kind) ==
    /\ Handling /\ ~steady
    /\ tool' = kind /\ Goto("tool")
    /\ UNCHANGED <<given, attempt, turns, holding, gestures, acting, left, owed, asserted, signals, result>>

\* The actor's call fails, or changes nothing: it takes no more.
ActorReturns ==
    /\ pc = "tool" /\ tool = "actor"
    /\ tool' = "none" /\ silent' \in BOOLEAN /\ Goto("top")
    /\ UNCHANGED <<given, attempt, turns, holding, gestures, acted, left, owed, asserted, signals, result>>

\* A wait_for of an assertion counts if it held and was not stopped.
Counts(ok) == tool = "wait" /\ assert /\ ok /\ ~stop

\* loopingCycle: three gestures since the nudge may be a cycle.
Looping == tool = "act" /\ acts + 1 >= 3
Gestures == IF tool = "act" /\ acts < 3 THEN acts + 1 ELSE acts

\* A call returns, or is given up at the stop or the deadline.
Return ==
    /\ pc = "tool" /\ tool # "actor"
    /\ tool' = "none"
    /\ \E ok \in BOOLEAN : asserted' = (asserted \/ Counts(ok))
    /\ \/ /\ Goto("calls") /\ left' = left - 1 /\ owed' = owed - 1
          /\ acts' = Gestures /\ UNCHANGED <<nudged, status, bail>>
       \/ /\ Looping /\ ~nudged /\ Goto("calls") /\ left' = left - 1 /\ owed' = owed - 1
          /\ nudged' = TRUE /\ acts' = 0 /\ UNCHANGED <<status, bail>>
       \/ /\ Looping /\ nudged /\ Finish("blocked", "looping")
          /\ left' = 0 /\ owed' = StubRest /\ acts' = 0 /\ UNCHANGED nudged
    /\ UNCHANGED <<given, attempt, turns, holding, acting, signals, values, accepted>>

----------------------------------------------------------------------------
\* The second report that is not valid ends the instruction.
Invalid ==
    /\ Handling /\ ~steady
    /\ IF retried THEN Finish("blocked", "invalid-report") /\ left' = 0 /\ owed' = StubRest /\ UNCHANGED retried
       ELSE retried' = TRUE /\ left' = left - 1 /\ owed' = owed - 1 /\ UNCHANGED <<pc, status, bail>>
    /\ UNCHANGED <<given, attempt, turn, cap, idle, warned, holding, gestures, acting, tool, asserted, signals, values, accepted>>

\* Bug variant: a report of the last turn may be held back as well.
RoomTooLate == turn <= cap /\ ~late

\* Not on the last turn: a report held back there is lost.
RoomToHold == turn < cap /\ ~late

\* Whether the hold asks is known of the first only; the others ask the page
\* and the report's words.
Asks(h, what) ==
    /\ h \notin asked /\ what = "success"
    /\ h = "unchecked" => assert /\ ~asserted
    /\ h \in {"naming", "sourcing"} => ~assert
    /\ h = "sourcing" => "naming" \notin asked
Before(h) == IF h = "unchecked" THEN {} ELSE {"unchecked"}

Hold(what, names) ==
    /\ Handling /\ RoomToHold
    /\ \E h \in Holds :
         /\ Asks(h, what) /\ \A g \in Before(h) : ~Asks(g, what)
         /\ asked' = asked \cup {h}
         /\ held' = IF h \in {"naming", "sourcing"} THEN names ELSE held
         /\ ever' = IF h \in {"naming", "sourcing"} THEN ever \cup names ELSE ever
         /\ IF h = "sourcing" THEN sought' \in SUBSET names ELSE UNCHANGED sought
    /\ left' = left - 1 /\ owed' = owed - 1
    /\ UNCHANGED <<given, attempt, pc, turns, gestures, acting, tool, asserted, signals, result>>

\* Bug variant: the report is taken as it is.
OnlyLast(names, read) == names

\* mergeReportValues: what was held back is put back, but what has since been
\* read under its own name and is empty.
Merged(names, read) == names \cup (held \ read)

\* Bug variant: a success is a success.
AsSaid(what) == what

\* An assertion that checked nothing has failed, an answer to the warning is
\* no checked answer.
Filed(what) ==
    IF assert /\ what = "success" /\ ~asserted THEN "failure"
    ELSE IF warned /\ what # "success" THEN "blocked" ELSE what

Accept(what, names) ==
    /\ Handling
    /\ RoomToHold => ~Asks("unchecked", what)
    /\ Finish(Filed(what), IF Filed(what) = "blocked" /\ warned THEN "turn-cap" ELSE "none")
    /\ left' = 0 /\ owed' = StubRest
    /\ \E read \in SUBSET sought : values' = Merged(names, read)
    /\ accepted' = TRUE
    /\ UNCHANGED <<given, attempt, turns, holding, gestures, acting, tool, asserted, signals>>

Report(what, names) == (steady => what = "success") /\ (Hold(what, names) \/ Accept(what, names))

----------------------------------------------------------------------------
\* Bug variant: whatever the reason, it is tried again.
Unasked == status = "blocked" /\ attempt = 1

\* Blocked, not stopped, and a stronger model is there.
Escalates == status = "blocked" /\ fallback /\ ~stop /\ attempt = 1

\* A cap that was reached is raised by half; the time starts anew.
Escalate ==
    /\ pc = "done" /\ Escalates
    /\ attempt' = 2 /\ Goto("start")
    /\ cap' = IF bail = "turn-cap" THEN (3 * cap + 1) \div 2 ELSE cap
    /\ acted' = 0 /\ silent' = ~actor /\ late' = FALSE
    /\ UNCHANGED <<given, turn, idle, warned, retried, holding, gestures, calls, asserted, stop, result>>

HandBack ==
    /\ pc = "done" /\ ~Escalates
    /\ Goto("returned")
    /\ UNCHANGED <<given, attempt, turns, holding, gestures, acting, calls, asserted, signals, result>>

Stop ==
    /\ pc \notin {"returned", "thrown"} /\ ~stop /\ stop' = TRUE
    /\ UNCHANGED <<given, attempt, pc, turns, holding, gestures, acting, calls, asserted, late, result>>

Deadline ==
    /\ pc \notin {"start", "done", "returned", "thrown"} /\ ~late /\ late' = TRUE
    /\ UNCHANGED <<given, attempt, pc, turns, holding, gestures, acting, calls, asserted, stop, result>>

Step ==
    \/ Start \/ Top \/ ActorActs \/ Complete \/ GivenUp \/ Throw \/ TurnEnds
    \/ Malformed \/ Call("act") \/ Call("wait") \/ ActorReturns \/ Return \/ Invalid
    \/ \E what \in Reports, names \in SUBSET Names : Report(what, names)
    \/ Escalate \/ HandBack
Next == Step \/ Stop \/ Deadline

Spec == Init /\ [][Next]_vars

\* The model, the tools and the page answer, or are given up.
LiveSpec == Spec /\ WF_vars(Step)

----------------------------------------------------------------------------
\* loop.ts: a success an assert step is compiled from is no "model's say-so",
\* and "`failure` is a verified negative answer": a wait_for of the attempt
\* that reports held, and no failure answers the warning (but an assertion
\* that checked nothing is called one).
VerdictMeans ==
    pc \in {"done", "returned"} =>
        /\ status = "success" /\ assert => asserted
        /\ status = "failure" => ~warned \/ (assert /\ ~asserted)

\* loop.ts: "losing a completed instruction costs far more than anything a hold
\* can win": a model that only ever repeats its report of success is heard,
\* whatever is asked about it and however short the cap.
ReportGetsThrough ==
    pc = "done" /\ steady /\ ~stop /\ ~late => status = "success" \/ (assert /\ status = "failure")

\* loop.ts: "every value the held report named is kept", unless its source was
\* asked for and found empty.  Where naming is asked after sourcing the names
\* of the first report are forgotten.
ValuesKept == accepted /\ ~({"naming", "sourcing"} \subseteq asked) => ever \ sought \subseteq values

\* What a report says holds, and says what was read.
ReportMeans == VerdictMeans /\ ValuesKept

\* loop.ts: escalating after a stop "would restart work the operator just
\* killed": nor is any model asked again.
StopIsFinal == [][stop => attempt' = attempt /\ (pc' = "ask" => pc = "ask")]_vars

\* Every instruction is answered, by turns alone: no deadline is needed.
InstructionEnds == pc = "start" ~> pc \in {"returned", "thrown"}
=============================================================================
