------------------------------- MODULE Daemon -------------------------------
(***************************************************************************)
(* One session's daemon (src/daemon/server.ts, daemon/browser.ts, and the  *)
(* instruction loop's treatment of its signal, agent/loop.ts).             *)
(*                                                                         *)
(* Queued commands are served one at a time in arrival order; screenshot   *)
(* and stop are served at once, beside whatever is running.  An            *)
(* instruction (do, assert, run) is a sequence of tool calls; each call    *)
(* that lands on the page appends a step to the session's recording.  A    *)
(* call still in flight at the deadline, or at a stop, is abandoned: the   *)
(* instruction ends, the call is left to settle.  The escalation to a      *)
(* second model is part of the instruction.                                *)
(***************************************************************************)
EXTENDS Naturals, Sequences, FiniteSets

CONSTANTS
    Do,        \* the instructions: do, assert, run
    Look,      \* the other queued commands that drive the page: open, peek
    Shot,      \* screenshots
    Stop,      \* stops, each exporting the session as a flow
    Hung,      \* commands whose page or renderer never answers
    MaxRequests, \* requests sent to one daemon: the bound on arrivals
    MaxSteps,  \* steps one instruction makes: the bound on the recording
    None       \* no instruction, no flow

Queued == Do \cup Look
Request == Queued \cup Shot \cup Stop

ASSUME KindAssumption ==
    /\ Do \cap Look = {} /\ Queued \cap Shot = {} /\ (Queued \cup Shot) \cap Stop = {}
    /\ None \notin Request
    /\ Hung \subseteq Queued
ASSUME BoundAssumption == MaxSteps \in Nat /\ MaxRequests \in Nat

VARIABLES
    phase,      \* how far each request is
    queue,      \* queued commands not yet begun
    inflight,   \* whose AbortController stop would abort
    aborted,    \* instructions whose signal was aborted
    late,       \* instructions past their deadline
    at,         \* where each instruction is: between calls, or awaiting one
    call,       \* its tool call: being prepared, past dispatch's look at the
                \* signal, sent to the page, or none
    record,     \* the recording: who made each step
    overran,    \* actions sent to the page since stop aborted the instruction
    mark,       \* its length when each instruction began
    took,       \* the steps each finished instruction is learned from
    context,    \* BrowserSession.context: none, one whose browser is live, or one
                \* whose browser had gone before anybody listened for its close
    launching,  \* launches under way, their journal's attachment included
    fresh,      \* the browser of a launch that the session does not know yet
    browsers,   \* live browsers
    stopAt,     \* where each stop is
    waits,      \* the commands its drain waits for
    flow,       \* what was running when the flow was exported, and whether
                \* the drain had run out of time
    after,      \* instructions that arrived while a stop was being served
    exited

cmdVars == <<phase, queue, inflight>>
instrVars == <<aborted, late, at, call, record, overran, mark, took>>
browserVars == <<context, launching, fresh, browsers>>
stopVars == <<stopAt, waits, flow>>
vars == <<cmdVars, instrVars, browserVars, stopVars, after, exited>>

TypeOK ==
    /\ phase \in [Request -> {"unsent", "queued", "running", "done", "lost"}]
    /\ queue \in Seq(Queued)
    /\ inflight \in Do \cup {None}
    /\ aborted \subseteq Do /\ late \subseteq Do
    /\ at \in [Do -> {"off", "turn", "tool"}]
    /\ call \in [Do -> {"none", "prep", "checked", "sent"}]
    /\ record \in Seq(Queued) /\ overran \in [Do -> Nat]
    /\ mark \in [Do -> Nat]
    /\ took \in [Do -> Seq(Queued)]
    /\ context \in {"none", "live", "dead"} /\ fresh \in {"none", "live", "dead"}
    /\ launching \in Nat /\ browsers \in Nat
    /\ stopAt \in [Stop -> {"off", "drain", "close", "closing", "reply", "closing2", "exit"}]
    /\ waits \in [Stop -> SUBSET Queued]
    /\ flow \in [open : SUBSET Do, cut : BOOLEAN] \cup {None}
    /\ after \subseteq Do
    /\ exited \in BOOLEAN

Init ==
    /\ phase = [r \in Request |-> "unsent"]
    /\ queue = <<>>
    /\ inflight = None
    /\ aborted = {} /\ late = {}
    /\ at = [r \in Do |-> "off"]
    /\ call = [r \in Do |-> "none"]
    /\ record = <<>> /\ overran = [r \in Do |-> 0]
    /\ mark = [r \in Do |-> 0]
    /\ took = [r \in Do |-> <<>>]
    /\ context = "none" /\ launching = 0 /\ fresh = "none" /\ browsers = 0
    /\ stopAt = [s \in Stop |-> "off"]
    /\ waits = [s \in Stop |-> {}]
    /\ flow = None
    /\ after = {}
    /\ exited = FALSE

Running(r) == phase[r] = "running"
Stopping == \E s \in Stop : Running(s)
\* Bug variant: the deadline alone ends an instruction.
PastDeadline(r) == r \in late
Ended(r) == r \in aborted \/ r \in late
Answer(r, how) == phase' = [phase EXCEPT ![r] = how]

----------------------------------------------------------------------------
\* A request arrives on a connection.
MaySend == Cardinality({r \in Request : phase[r] # "unsent"}) < MaxRequests
Sent(r) == ~exited /\ phase[r] = "unsent" /\ MaySend /\ after' = IF Stopping THEN after \cup ({r} \cap Do) ELSE after

Enqueue(r) ==
    /\ Sent(r)
    /\ Answer(r, "queued")
    /\ queue' = Append(queue, r)
    /\ UNCHANGED <<inflight, instrVars, browserVars, stopVars, exited>>

Unqueued(r) ==
    /\ Sent(r)
    /\ Answer(r, "running")
    /\ UNCHANGED <<queue, inflight, instrVars, browserVars, stopVars, exited>>

\* The promise chain: the next command begins when the one before settled.
Idle == ~\E r \in Queued : Running(r)
Next1(r) == ~exited /\ Idle /\ queue # <<>> /\ Head(queue) = r /\ queue' = Tail(queue)

\* Bug variant: the mark is not taken.
BeginDoUnmarked(r) ==
    /\ Next1(r)
    /\ Answer(r, "running")
    /\ inflight' = r
    /\ at' = [at EXCEPT ![r] = "turn"]
    /\ UNCHANGED <<mark, aborted, late, call, record, overran, took, browserVars, stopVars, after, exited>>

BeginDo(r) ==
    /\ Next1(r)
    /\ Answer(r, "running")
    /\ inflight' = r
    /\ at' = [at EXCEPT ![r] = "turn"]
    /\ mark' = [mark EXCEPT ![r] = Len(record)]
    /\ UNCHANGED <<aborted, late, call, record, overran, took, browserVars, stopVars, after, exited>>

\* No API key: the provider throws before the controller exists.
RefuseDo(r) ==
    /\ Next1(r)
    /\ Answer(r, "done")
    /\ UNCHANGED <<inflight, instrVars, browserVars, stopVars, after, exited>>

BeginLook(r) ==
    /\ Next1(r)
    /\ Answer(r, "running")
    /\ UNCHANGED <<inflight, instrVars, browserVars, stopVars, after, exited>>

\* open, peek, screenshot: getPage, then the page answers, or it throws.
PageCommand(r) == ~exited /\ Running(r)
Look1(r) ==
    /\ PageCommand(r) /\ context = "live"
    /\ Answer(r, "done")
    /\ \/ UNCHANGED record
       \/ r \in Look /\ record' = Append(record, r)  \* open commits its own navigation
    /\ UNCHANGED <<queue, inflight, aborted, late, at, call, overran, mark, took, browserVars, stopVars, after, exited>>
LookFails(r) ==
    /\ PageCommand(r)
    /\ Answer(r, "done")
    /\ UNCHANGED <<queue, inflight, instrVars, browserVars, stopVars, after, exited>>

----------------------------------------------------------------------------
\* The instruction loop: the model asks for a tool call, unless the
\* instruction was stopped or is past its deadline (runTool's own check, and
\* the loop's).
Made(r) == Cardinality({i \in 1..Len(record) : record[i] = r})
Call(r) ==
    /\ ~exited /\ at[r] = "turn" /\ call[r] = "none" /\ ~Ended(r) /\ Made(r) < MaxSteps
    /\ at' = [at EXCEPT ![r] = "tool"]
    /\ call' = [call EXCEPT ![r] = "prep"]
    /\ UNCHANGED <<cmdVars, aborted, late, record, overran, mark, took, browserVars, stopVars, after, exited>>

\* The targets are described; dispatch looks at the signal, once ...
Check(r) ==
    /\ ~exited /\ call[r] = "prep" /\ context = "live" /\ ~Ended(r)
    /\ call' = [call EXCEPT ![r] = "checked"]
    /\ UNCHANGED <<cmdVars, aborted, late, at, record, overran, mark, took, browserVars, stopVars, after, exited>>

\* ... and sends the action after awaiting the page and the target.
Dispatch(r) ==
    /\ ~exited /\ call[r] = "checked" /\ context = "live"
    /\ call' = [call EXCEPT ![r] = "sent"]
    /\ overran' = IF r \in aborted THEN [overran EXCEPT ![r] = @ + 1] ELSE overran
    /\ UNCHANGED <<cmdVars, aborted, late, at, record, mark, took, browserVars, stopVars, after, exited>>

\* The call returns to whoever still waits for it.
Settle(r) ==
    /\ call' = [call EXCEPT ![r] = "none"]
    /\ at' = [at EXCEPT ![r] = IF @ = "tool" THEN "turn" ELSE @]
    /\ UNCHANGED <<cmdVars, aborted, late, overran, mark, took, browserVars, stopVars, after, exited>>

\* The action took effect, and the recorder files the step.
Land(r) ==
    /\ ~exited /\ call[r] = "sent"
    /\ record' = Append(record, r)
    /\ Settle(r)

\* The action failed, or was cancelled before it was sent.
Miss(r) ==
    /\ ~exited /\ call[r] # "none"
    /\ Settle(r)
    /\ UNCHANGED record

\* runTool gives the call up, at the deadline or on the abort; the call goes on.
Abandon(r) ==
    /\ ~exited /\ at[r] = "tool"
    /\ at' = [at EXCEPT ![r] = "turn"]
    /\ late' = IF r \in aborted THEN late ELSE late \cup {r}
    /\ UNCHANGED <<cmdVars, aborted, call, record, overran, mark, took, browserVars, stopVars, after, exited>>

\* What the recording gained since the instruction's mark.
Taken(r) == SubSeq(record, mark[r] + 1, Len(record))

\* Bug variant: a call in flight is awaited.
FinishAwaitsCall(r) ==
    /\ ~exited /\ at[r] = "turn" /\ call[r] = "none"
    /\ at' = [at EXCEPT ![r] = "off"]
    /\ took' = [took EXCEPT ![r] = Taken(r)] /\ mark' = [mark EXCEPT ![r] = 0]
    /\ inflight' = IF inflight = r THEN None ELSE inflight
    /\ Answer(r, "done")
    /\ UNCHANGED <<queue, aborted, late, call, record, overran, browserVars, stopVars, after, exited>>

\* The instruction reports (or is reported blocked), is learned from, and
\* answers.
Finish(r) ==
    /\ ~exited /\ at[r] = "turn"
    /\ at' = [at EXCEPT ![r] = "off"]
    /\ took' = [took EXCEPT ![r] = Taken(r)] /\ mark' = [mark EXCEPT ![r] = 0]
    /\ inflight' = IF inflight = r THEN None ELSE inflight
    /\ Answer(r, "done")
    /\ UNCHANGED <<queue, aborted, late, call, record, overran, browserVars, stopVars, after, exited>>

----------------------------------------------------------------------------
\* getContext: whoever needs a page, and finds no context, launches one.
NeedsPage ==
    \/ \E r \in Look \cup Shot : Running(r)
    \/ \E r \in Do : call[r] \in {"prep", "checked"}

\* Bug variant: every caller starts a launch of its own.
LaunchAgain ==
    /\ ~exited /\ context = "none" /\ NeedsPage /\ launching < 2
    /\ launching' = launching + 1
    /\ UNCHANGED <<cmdVars, instrVars, context, fresh, browsers, stopVars, after, exited>>

Launch ==
    /\ ~exited /\ context = "none" /\ NeedsPage /\ launching = 0
    /\ launching' = 1
    /\ UNCHANGED <<cmdVars, instrVars, context, fresh, browsers, stopVars, after, exited>>

\* The browser is up; the journal is attached to it before anybody knows it.
Launched ==
    /\ ~exited /\ launching > 0 /\ fresh = "none"
    /\ fresh' = "live" /\ browsers' = browsers + 1
    /\ UNCHANGED <<cmdVars, instrVars, context, launching, stopVars, after, exited>>

\* The attachment ended, or failed (it is caught): the session takes the
\* context, whatever became of its browser, and listens for its close.
Attached ==
    /\ ~exited /\ fresh # "none"
    /\ context' = fresh /\ fresh' = "none" /\ launching' = launching - 1
    /\ UNCHANGED <<cmdVars, instrVars, browsers, stopVars, after, exited>>

LaunchFails ==
    /\ ~exited /\ launching > 0 /\ fresh = "none"
    /\ launching' = launching - 1
    /\ UNCHANGED <<cmdVars, instrVars, context, fresh, browsers, stopVars, after, exited>>

\* The browser crashes or its window is closed: the context's close event, if
\* the session listens for it yet.
BrowserDies ==
    /\ ~exited /\ browsers > 0
    /\ \/ context = "live" /\ context' = "none" /\ UNCHANGED fresh
       \/ fresh = "live" /\ fresh' = "dead" /\ UNCHANGED context
    /\ browsers' = browsers - 1
    /\ UNCHANGED <<cmdVars, instrVars, launching, stopVars, after, exited>>

----------------------------------------------------------------------------
StopTo(s, a) == stopAt' = [stopAt EXCEPT ![s] = a]

\* exportFlow reads the recording of this take.
ExportTo(s, cut) ==
    /\ flow' = [open |-> {r \in Do : Running(r)}, cut |-> cut]
    /\ waits' = [waits EXCEPT ![s] = {}]
    /\ StopTo(s, "close")

\* Bug variant: waits for the aborted instruction only.
WaitsForInflight == {inflight}

\* The queue as it is at the stop: what runs and everything behind it.
WaitsFor == {r \in Queued : phase[r] \in {"queued", "running"}}

AbortedNow == aborted \cup ({inflight} \ {None})

\* stop: abort what is in flight and drain, or export at once.
StopCall(s) ==
    /\ Sent(s)
    /\ Answer(s, "running")
    /\ aborted' = AbortedNow
    /\ IF inflight # None
         THEN StopTo(s, "drain") /\ waits' = [waits EXCEPT ![s] = WaitsFor] /\ UNCHANGED flow
         ELSE ExportTo(s, FALSE)
    /\ UNCHANGED <<queue, inflight, late, at, call, record, overran, mark, took, browserVars, exited>>

Drained(s) == \A r \in waits[s] : phase[r] \notin {"queued", "running"}

\* Bug variant: the drain has no time limit.
DrainToTheEnd(s) ==
    /\ ~exited /\ stopAt[s] = "drain" /\ Drained(s)
    /\ ExportTo(s, FALSE)
    /\ UNCHANGED <<cmdVars, instrVars, browserVars, after, exited>>

\* Drained, or STOP_DRAIN_MS passed.
Export(s) ==
    /\ ~exited /\ stopAt[s] = "drain"
    /\ ExportTo(s, ~Drained(s))
    /\ UNCHANGED <<cmdVars, instrVars, browserVars, after, exited>>

\* browser.close() up to the context's own close, if there is one to close.
CloseFrom(s, closing, next) ==
    /\ StopTo(s, IF context = "live" THEN closing ELSE next)
    /\ context' = "none"

CloseBrowser(s) ==
    /\ ~exited /\ stopAt[s] = "close"
    /\ CloseFrom(s, "closing", "reply")
    /\ UNCHANGED <<cmdVars, instrVars, launching, fresh, browsers, waits, flow, after, exited>>

\* The context's close event clears this.context, whichever context it is.
Closed(s, closing, next) ==
    /\ ~exited /\ stopAt[s] = closing
    /\ StopTo(s, next)
    /\ context' = "none" /\ browsers' = browsers - 1
    /\ UNCHANGED <<cmdVars, instrVars, launching, fresh, waits, flow, after, exited>>
BrowserClosed(s) == Closed(s, "closing", "reply")

\* The result frame is sent, and shutdown() closes again.
Reply(s) ==
    /\ ~exited /\ stopAt[s] = "reply"
    /\ Answer(s, "done")
    /\ CloseFrom(s, "closing2", "exit")
    /\ UNCHANGED <<queue, inflight, instrVars, launching, fresh, browsers, waits, flow, after, exited>>
ClosedAgain(s) == Closed(s, "closing2", "exit")

\* process.exit: whoever still waits is not answered.
Exit(s) ==
    /\ ~exited /\ stopAt[s] = "exit"
    /\ exited' = TRUE
    /\ phase' = [r \in Request |-> IF phase[r] \in {"queued", "running"} THEN "lost" ELSE phase[r]]
    /\ queue' = <<>> /\ inflight' = None
    /\ at' = [r \in Do |-> "off"] /\ call' = [r \in Do |-> "none"] /\ mark' = [r \in Do |-> 0]
    /\ context' = "none" /\ launching' = 0 /\ fresh' = "none" /\ browsers' = 0
    /\ stopAt' = [t \in Stop |-> "off"] /\ waits' = [t \in Stop |-> {}]
    /\ UNCHANGED <<aborted, late, record, overran, took, flow, after>>

Arrive == (\E r \in Queued : Enqueue(r)) \/ (\E r \in Shot : Unqueued(r)) \/ (\E s \in Stop : StopCall(s))
Begin == (\E r \in Do : BeginDo(r) \/ RefuseDo(r)) \/ (\E r \in Look : BeginLook(r))
PageStep(r) == Look1(r) \/ LookFails(r)
DoStep(r) == Call(r) \/ Check(r) \/ Dispatch(r) \/ Land(r) \/ Miss(r) \/ Abandon(r) \/ Finish(r)
StopStep(s) ==
    \/ Export(s) \/ CloseBrowser(s) \/ BrowserClosed(s) \/ Reply(s)
    \/ ClosedAgain(s) \/ Exit(s)

Next ==
    \/ Arrive \/ Begin
    \/ \E r \in Look \cup Shot : PageStep(r)
    \/ \E r \in Do : DoStep(r)
    \/ Launch \/ Launched \/ Attached \/ LaunchFails \/ BrowserDies
    \/ \E s \in Stop : StopStep(s)

Spec == Init /\ [][Next]_vars

\* The event loop runs what is ready and timers fire; a hung command's page
\* need not answer, and no tool call in flight need ever settle.
Fairness ==
    /\ WF_vars(Begin)
    /\ \A r \in (Look \cup Shot) \ Hung : WF_vars(PageStep(r))
    /\ \A r \in Do \ Hung : SF_vars(Abandon(r)) /\ WF_vars(Finish(r))
    /\ \A s \in Stop : WF_vars(StopStep(s))

LiveSpec == Spec /\ Fairness

----------------------------------------------------------------------------
\* What stop would abort is the instruction that is running: it never
\* reaches one that ended, and never misses one that runs.
InflightRuns == \A r \in Do : inflight = r <=> Running(r)

\* Until a stop closes it, at most one browser is live, and it is the one the
\* session knows or is about to: a screenshot beside the first launch, or a
\* crash between two commands, orphans none.  A browser that goes while its
\* journal is attached leaves the session a dead context.
BrowserOwned ==
    (\A s \in Stop : stopAt[s] \in {"off", "drain", "close"})
        => browsers = IF context = "live" \/ fresh = "live" THEN 1 ELSE 0

\* After stop aborted it, an instruction sends at most one more action to the
\* page: the one that was past its only look at the signal.
OneOverrunAtMost == \A r \in Do : overran[r] <= 1

\* The flow a stop exports holds no instruction half done, unless the drain
\* ran out of time or the instruction was sent after the stop.
ExportWhole == flow # None => flow.cut \/ flow.open \subseteq after

\* The three, in a state of the right types.
DaemonOK == TypeOK /\ InflightRuns /\ BrowserOwned /\ ExportWhole

\* An instruction is learned from its own steps, and from nobody else's
\* unless that other instruction ended with a call still in flight.
LearnsOwnUnlessAbandoned ==
    \A r \in Do : \A i \in 1..Len(took[r]) : took[r][i] # r => Ended(took[r][i])

\* A stop ends the daemon, whatever the running command does.
StopEnds == \A s \in Stop : Running(s) ~> exited

\* A queued command is served, unless a hung command holds the queue.
QueueMoves ==
    \A r \in Queued :
        phase[r] = "queued" ~> (phase[r] # "queued" \/ \E h \in Hung : Running(h))
=============================================================================
