# Verification of sitelooper

TLA+ modules, TLC configurations and TLAPS proofs about sitelooper: the daemon
that drives a browser on an agent's instructions, records what it did, and keeps
it as procedures that later instructions replay. The modules are translated from
the code under `src/`; paths and line numbers below are those of the repository.

    tlc -workers 2 -config FileLockLive.cfg FileLock.tla
    tlapm SharedFilesProofs.tla

## 1. The system

| part | state | operations | talks to |
|---|---|---|---|
| file lock, `withFileLock` (`skills/store.ts`) | one lock file per procedure or recipe file | exclusive create, read of the holder's pid, judgement, takeover by rename, release by name | the file system; every process on the machine |
| procedure store, `SkillStore` (`skills/store.ts`) | a JSON file per procedure with a `revision`, a legacy whole-file store per origin | `get`, `list`, `put` (compare-and-set), `update` (read-modify-write in the lock), `remove`, `clear`, `dropLegacy` | the lock; daemon, CLI, learning, repair |
| procedure lifecycle (`recordOutcome`, `relaxExpectation`, `supersede`, `isVerified`) | `status`, success and failure counts, `verifiedContract` | one outcome per replay, a merge per recording | replay and the flow runner produce the outcomes, lookup reads the status |
| folded loop, `runFoldedLoop` (`execution/loop.ts`) | pass, cursor, previous signature and count | count, body, recount, shrink wait | replay and compiled tests supply the hooks; the page changes beside it |
| session daemon (`daemon/server.ts`, `daemon/browser.ts`) | a promise chain as queue, the controller in flight, the browser context and its launch | `open`, `do`, `assert`, `run`, `screenshot`, `stop`, ... | one socket, many CLI processes; instruction loop; browser |
| instruction loop (`agent/loop.ts`, `agent/tools.ts`, `agent/actor*.ts`) | turns, deadline, holds, tool call in flight | model turn, tool call, first-tier act, report, escalation | daemon (signal), recorder, page |
| recording (`daemon/recorder.ts`, `journal*.ts`) | steps in order, with marks | commit, `entriesSince`, attribution | tool calls append, learning reads |
| replay (`skills/replay.ts`, `execution/*`) | position in the steps, gates passed, budgets | resolve, gate, act, verify, heal, repeat, stop | store, lifecycle, page |
| standing fills (`execution/refill.ts`) | the values a segment filled, with the document each ran in, and what the last submit took | note a fill, refill before a submit, repeat a submit or a fill lost with its document, keep a type off its own value | replay and compiled tests call it around each step; the page reloads and drops values beside it |
| flow runner (`server.ts runFlow`, `skills/learn.ts`) | the flow's steps, their pins | run a pin, try candidates, walk a chain, recover, record outcomes, write the flow back | replay, store |
| learning (`skills/learn.ts`, `ledger.ts`, `compile.ts`) | segments of a chain, ledger of run values | compile, fold, merge into a twin, keep | recording, store |
| repair (`skills/repair.ts`, `spec/repair.ts`) | tickets and variants as files, evidence per locator | drain, promote, patch, gather evidence, reorder, write | replay, store |
| spec tools (`spec/*`) | a spec, its readiness, rounds | lower, emit, check, converge, re-record | store, flow runner |
| MCP server (`mcp/*`) | table of jobs | start, wait, kill, prune | spawns the CLI |
| command line (`cli.ts`) | none | find or start a daemon, send one request | daemon |

`PROJECT.json` lists every part with what is modelled of it.

What makes them hard:

* **Processes that share files.** Every daemon and CLI on a machine uses one
  store, and one name per session for a socket. Between any two file-system
  calls another process may run, die, or be replaced by one with its pid.
* **A queue with exceptions.** Commands run one at a time, but `screenshot` and
  `stop` run beside whatever is running, and a tool call given up at a deadline
  goes on running after its instruction has answered.
* **A page that changes by itself.** Rows are rendered, leave and are refilled
  between a count and the decision made on it; a look at the page may answer
  anything, and an action may have worked although its answer was lost.
* **Evidence that accumulates.** Trust in a procedure, and in a locator, depends
  on a history of outcomes of several kinds, in any order; later changes take
  some of that evidence away.
* **Long protocols with a way back.** A flow run, a re-record, a repair each take
  something out of use, try, and put it back unless the attempt is kept.

The properties that make each part correct: one holder per lock and no lock
left for ever; no acknowledged update lost, and revisions that identify
contents; trust that is earned, for the promise the procedure makes today;
every record given its pass once, and a loop that says what it left; a stop that
reaches the instruction that runs, ends the daemon and orphans no browser; an
instruction learned from its own steps; a replay whose result is true, and that
sends nothing again that may have worked; a form
that is sent as it was recorded, whatever the page replaced on the way; a replay banked once, no procedure
started over on a page another one touched, and no mutating procedure owned by
two steps; a report that was checked, that gets through, and that a stop ends; a
converged recording whose pins were seen to pass, and a failed re-record that leaves
the store as it was; a file written only over a step that came through every
judged run at tier A; one daemon per session, and a job that is answered.

## 2. Modules

| module | models | state and actions |
|---|---|---|
| `Section` | what a lock promises | `inside`; one process enters an empty section and leaves |
| `FileLock` | `withFileLock`, `removeQuietly`, `holderIsGone` (`store.ts`) | one action per file-system call: `Create` is `open(..., 'wx')`, `CreateContended` the EPERM branch on Windows, `Stat`, `ReadHolder`, `Judge`, `Takeover` (rename, then unlink), `TakeoverFails` (the rename refused), `WritePid`, `Release` (unlink by name) and their failures; `Die`, `Restart` with the same pid, `Age` past `LOCK_STALE_MS`, `Expire` past `LOCK_WAIT_MS` |
| `SkillStore` | class `SkillStore` | one action per unlocked read, and three per locked operation (lock, read, write): `Update*`, `Put*`, `RemoveFile`, `DropRead`/`DropWrite`, `Abort` for a throw or a death. A procedure is its revision and the set of edits it contains |
| `SkillLifecycle` | `recordOutcome`, `relaxExpectation`, `supersede`, `keepGeneralisations`, `keep`'s merge, `isVerified` | one action per store transaction, with the history of runs beside it |
| `FoldedLoop` | `runFoldedLoop` and the hooks of `runLoop` (`replay.ts`) | one action per await of the loop, a body step carried out (`Act`) or skipped (`Skip`); the page (`RowLeaves`, `Render`) and `Abort` run between them |
| `Replay` | `replaySkill` and the step it climbs (`replay.ts`, `execution/lifecycle.ts`) | one action per rung of the ladder: checks, resolve, skip or stop, navigate, act, pass, refuse, lost, press again, repeat, heal, and the passes of a folded loop; what a look at the page answers is any answer |
| `StandingFills` | the ledger of `refill.ts` and the part of `runStepBody` that calls it | one action per look, refill, confirmation and second pass of the check, per dispatch, throw of one whose document went (`Thrown`), judgement, note and repeat; the form, its widgets, reloads and the server run between them. Each recorded gesture carries the page it left (`seen`), which the replay is judged by |
| `FlowRunner` | `runFlow` (`server.ts`), `replayDirectOnce`, `learnFromInstruction`, `canAdoptPin` | one action per replay, per candidate, per segment of a chain, for the recovery on a model, for what is learned and where the pin goes, and for the write of the file. A replay is what `Replay` says of it |
| `Converge` | `converge` (`spec/converge.ts`), the re-record (`spec/rerecord*.ts`) and the seams `cli.ts` gives them | `Compile`, the reset and the check, `Stage`, each run of a re-record, `Judge` (keep or put back). A compile is refused for a step without a procedure or with a demoted one; what else it is refused for, and what a check and a run come to, is anything |
| `Sessions` | `connectOrSpawn` and `stop` (`cli.ts`), `listen` and `shutdown` (`server.ts`), `JobTable` (`mcp/jobs.ts`) | one action per connection, ping, spawn, unlink, bind and poll of each command and its daemon; a request is answered, lost, or hangs (`Hang`); jobs start, are waited for, end, are pruned |
| `Instruction` | `runInstruction`, `runEscalatingInstruction` (`agent/loop.ts`), when the actor acts (`actor-act.ts`) | one action per model answer, tool call, hold, warning, report and escalation; a stop and the deadline come at any step |
| `Repair` | `repairFlowCommand` (`cli.ts`), `drainDrift`, `recordCandidateEvidence`, `orderByEvidence` (`skills/repair.ts`), `spec/repair.ts`, the resolution of one step (`execution/resolve.ts`) | one step and its chain of locators, run after run: `Resolve`, the ticket and its triage, promotion, patch, evidence, the verdict |
| `Daemon` | `Daemon.handleConnection`, `serve`, `execute`, `BrowserSession`, `runTool`, `runStep`, `shutdown` | one action per piece of code between two awaits: arrival, begin, tool call, dispatch's look at the signal (`Check`) and its send (`Dispatch`), landing, abandonment, finish, a browser launched and its journal attached (`Launched`, `Attached`), crash, and each stage of a stop |
| `SharedFilesProofs` | theorems about `FileLock`, `SkillLifecycle` and `Sessions` | |
| `SpecProofs` | theorems about `Repair` and `Converge` | |
| `PageProofs` | theorems about `FoldedLoop` and `StandingFills` | |
| `SkillStoreProofs`, `DaemonProofs`, `FlowRunnerProofs`, `InstructionProofs`, `ReplayProofs` | theorems about the module they are named for | |
| `MC*` | symmetry sets and model values for TLC | |

How they fit together. `FileLock` implements `Section` (`Refines`, by
`INSTANCE ... WITH`) under every fault it models: where a live holder's lock is
taken, the abstract holder has left, and the section is open again once the last
of them is out. `SkillStore` is written over the promise of `Section`: its
`inside` is who holds each file's lock. `SkillLifecycle` is written over the
promise of `SkillStore`: each of its actions is one `update` or `put` that is not
lost. `Replay` uses the outcomes of `FoldedLoop`, and lets the page answer what `StandingFills` works out for a form; `FlowRunner` uses the results
of `Replay`, and `Converge` the runs of `FlowRunner`; `Instruction` is what runs
inside a command of `Daemon`, and `Daemon` is one of the daemons of `Sessions`.
These are levels, each taking the one below it as what that one is shown to
promise; they are not composed into one state space.

The names of the code are kept where TLA+ allows. A definition under the
comment "Bug variant" is not part of any specification: it is what the
definition after it would be with a plausible bug, kept to show that the
properties can tell the two apart. An invariant named `...OK` is a module's type
invariant with the smaller safety invariants defined above it.

Variables declared under "history" (`FileLock.disturbed`, `SkillStore.acked`,
`SkillLifecycle.clean`, `strikes`, ..., `FoldedLoop.acted`, `again`, `skipped`,
`upset`, `Daemon.took`, `overran`, `after`, `flow`, `Replay.sent`, `seen`, `how`, `FlowRunner.runs`,
`late`, `Converge.version`, `compiled`, `good`, `gone`, `was`, `Sessions.raced`,
`Instruction.accepted`, `ever`, `StandingFills.gone`, `unseen`, `astray`, `slow`,
`posts`, `Repair.hits`, `misses`, `shifted`) are read by
properties; no guard of a step that models code depends on what they say of the
past (`RowLeaves` looks at `acted` so that a record the page brings in is a new
one; of `FlowRunner.runs` the steps read which segment the latest replay ran and
how it ended, never what was banked).

## 3. Runs

| run | what it asks | bounds |
|---|---|---|
| `file_lock_live` | with a process that may die and return under its pid, failing writes and removals and ageing locks: `FileLock` implements `Section` but while the damage of a takeover of a live lock lasts; a lock left behind is retired (`StaleRetired`) and no call spins on a lock that does not change hands (`NoStall`), both but where the rename of an abandoned lock fails again and again | 3 processes, one mortal |
| `store` | no promised edit is lost, a revision identifies a content and grows by one, whatever is read stale, thrown or killed, beside a legacy store and removals | 2 processes, procedures `a` and `b`, `b` legacy and removable, 2 edits |
| `lifecycle` | promotion, demotion and evidence follow the history of runs | 3 steps, one with a page effect, 7 transactions |
| `loop` | complete means that every record had its pass, and is done unless that pass skipped its last step; the remainder reported is the remainder, nothing is consumed or edited twice (`LoopOK`); the loop ends | 3 records, 1 refill, body of 2 steps each of which may be skipped, caps 1, 2, 5 |
| `replay` | ok means every condition held and no step was stopped, a result that does not say it acted sent nothing that could matter (`ResultMeans`); no action goes out again that may have worked; each heal is settled and each step bounded (`ReplayOK`) | all procedures of 1 or 2 steps over 11 kinds of step that between them carry every tool and mark, 3 of 3 steps, loop of 2 passes, the budget running out at any step |
| `fills` | what the server takes is what was recorded (`SentWhole`); a submit goes out again only where a reload cut its answer off (`FillsOK`); one reload does not stop a replay without a reason that is named, a call it cut among them (`Robust`) | 2 fields, one of a key-driven widget whose fill empties the other, which is required; 2 values; all recordings of 3 gestures of 10 kinds, of 4 of 5 kinds, four longer ones, and a submit; 2 reloads at any moment, fields built in any order or never |
| `flow` | every replay is banked once; no procedure is started over on a page another one touched; the model that goes on is told and no two steps own one mutating procedure (`RunnerOK`); success means every step | an assertion, a chain of 3 segments with a detour, a reading procedure, one newly compiled; 2 attempts; the last segment present or missing |
| `converge` | the loop ends on the recording it compiled (`ConvergeOK`), converged means that these pins were last seen to pass, that each step has a procedure, in use unless `--allow-demoted`, and that all that was placed and not undone is a step (`ConvergedMeans`); a failed re-record leaves the store as it was, a kept one has a new procedure | 3 steps, one of them left out, 4 procedures, 3 rounds, 2 runs per re-record |
| `session` | an orphaned daemon or a foreign store takes two daemons started beside each other, a wait finds its job (`SessionsOK`), every command ends but one that hangs for ever at a daemon that stays up (`CommandEnds`) | 2 jobs with two stores and a stop, daemons that crash, come up late or do not answer |
| `instruction` | the history is whole (`InstructionOK`), a report means what it says, a repeated one is heard, a stop is final, the instruction ends | 3 turns of up to 2 calls, 1 act of the actor, one name, with and without a stronger model |
| `repair` | a locator is charged and credited only with what it did, a name that answered leads, a file is written only over a step that kept its expectation, whose pin is not demoted, and that came through every judged run at tier A, one retired locator forgiven (`RepairOK`) | one chain of a name, a locator with a slot and a position, a spare; one drained run and 2 that must be clean |
| `daemon_all` | the controller in flight, the browser and the exported flow (`DaemonOK`), what an instruction learns, what is sent after a stop (`OneOverrunAtMost`), the end of a stop, the queue | 3 of 5 requests (two instructions, an open that may hang, a screenshot, a stop), 1 step per instruction |

Why the bounds are enough. The lock has one name, and what goes wrong
needs a holder, one that misjudges and one that creates in between: three
processes, of which one that dies and returns is enough to leave a dead lock.
A lost update needs a stale copy and two writes under it, which two processes
with two edits make. The strike logic compares neighbours, and a demotion, its
forgiveness and a relaxation fit in seven transactions. The loop compares one
pass with the one before; three records give two passes beyond the first, caps 1
and 2 run out, cap 5 does not. A replay looks at no other step than the one it
is at and at totals over those behind it: two or three steps with each mark in
each position that the code tells apart. With two attempts (the code's
`MAX_CANDIDATE_ATTEMPTS` is 3) a second candidate is tried and the budget ends
before the candidates do; a chain of three has a first, a middle (the detour) and
a last segment. Two refused re-records of one
step end its attempts, and a kept one between them starts the count again: three
rounds. Two commands are what races for a socket; the third stops the daemon
under either. Three turns hold an answer that is held back, the question, and
the report; `cap` is extended once. The evidence codemod retires a locator at
two misses, so one that comes with a miss is retired in the first run and tried
in the two after it. The ledger holds one entry per field and
compares documents for equality; two reloads reach a reload within the second
pass and one under a repeated step, and three gestures a fill that is cleared,
retyped, retired or swept before its submit. Three requests reach every pair that runs side by side
(instruction and instruction, instruction and screenshot, instruction and stop)
with a third command in the queue or the launch. The bounds are `MaxEdits`,
`MaxRuns`, `MaxPass`, `BodySteps`, `MaxRequests`, `MaxSteps`, `MaxCalls`,
`MaxAttempts`, `MaxReloads` and `MaxRounds`; the bounded runs do end, and so do the protocols
that end by themselves (a replay, a run, a repair, an instruction), so deadlock
is not checked there. It is checked in the lock's runs, where some call can
always be made.

## 4. What does not hold

The properties are stated with the exception that makes each of these possible,
so that the runs show that nothing else breaks them.

* `store.ts:880`, `withFileLock` after a death. Two processes find the lock of a
  dead one. The first renames it away and creates its own; the second, which
  judged the dead lock, renames whatever has the name now: the first one's. Both
  are inside. `store.ts:875` says only one can win. `OverlapOnlyAfterTheft` is
  proved: this is the one way in; and `Refines`: the section is sound again once
  the holders have left.
* `store.ts:879`-883: a rename that fails for any reason (EPERM, EACCES, EBUSY)
  goes round again with no pause and no look at the deadline. A call whose rename
  keeps failing spins on a lock that never changes hands; `NoStall` and
  `StaleRetired` except exactly such calls.
* `store.ts:1278`: `remove` takes no lock, so an update that has re-read the
  procedure writes it back (`store.ts:1164`: "A procedure deleted since is simply
  not updated"). `store.ts:1265`: two removers bring a legacy entry back.
* `store.ts:1342`: only a provisional procedure is stamped, so a validated one
  that gave up its evidence stays unverified (`store.ts:305`: "not trusted until
  it is re-earned").
* `agent/tools.ts:1114`: a tool call abandoned at a deadline commits its step when
  it lands, past the next instruction's mark (`server.ts:973`).
  `LearnsOwnUnlessAbandoned` shows that nothing else gets in.
* `agent/tools.ts:1589`-1607: `dispatch` looks at the signal, then awaits the page
  and the target, and sends without a second look: an action can go out after the
  stop. `OneOverrunAtMost` shows that it is one at most.
* `browser.ts:178`-188: the session listens for its context's close only once the
  journal is attached, which takes up to 5 s. A browser that dies in between
  leaves a context that stays set until a stop: no command launches another
  (`BrowserOwned` speaks of live browsers).
* `replay.ts:2076`-2083: only a stop breaks a pass of a folded loop. One whose last
  step was skipped counts as carried out, and the loop may say complete over a
  record nothing was done to (`CompleteMeansDone` and `LeftMeansLeft` count
  passes, `PassedFor`).
* `execution/loop.ts:193`: the repeat check compares the pass so far with the
  whole previous pass, so in a body of several steps all but the last act again.
  `NeverTwice` is about the last.
* `server.ts:2724`-2734: a pin put off to the end of the run is taken without
  asking again whether another step took it (`OneOwner` excepts `late`).
* `server.ts:3078`, 3204: a replay whose result was lost tells the recovery
  nothing, though it may have touched the page (`HandedOver` excepts it).
* `learn.ts:167`: a replay that saw nothing of what it did is credited as one
  that worked (`BankedOnce` counts `blind` as success).
* `rerecord.ts:299`, `cli.ts:2341`: a raw flow's second re-record may be handed
  the procedure the first one was to replace (`NewProcedure` asks it of the last
  attempt only). `cli.ts:1681`, 1690: a run that cannot be made leaves retired
  procedures demoted. `rerecord.ts:306`: a procedure another step shares is
  retired with it.
* `rerecord.ts:335`: "the LAST run must have replayed this step at tier A — no
  model, no repair — with the skill this rerecord pinned". Neither half is held.
  The check of the skill (389-396) is dead: it reads an id from what a run says it
  replayed, and the daemon says "n/m" (`server.ts:2686`). And tier A includes a
  replay that the model finished (`server.ts:2679`-2685). `RunStaged` lets a run
  at tier A be any of these, and `RerecordVerdict` asks what the code asks.
* `ir.ts:428`-451: work that was left out is redone only if the export placed it and
  it was not undone; any other is a warning, over which the loop may converge
  (`ConvergedMeans` speaks of the placed). `converge.ts:282`, `index.ts:178`: a raw
  flow whose failed attempt left its step without a pin is refused the next
  compile for a reason that names no step, and the loop ends as stuck.
* `cli.ts:394`: the wait for a started daemon takes any daemon without the store
  check of `cli.ts:366` (`FaultsNeedRace`). `jobs.ts:88`: the table forgets
  finished jobs by when they started, so a result nobody has read may go.
* `cli.ts:403`-407: only a ping and a stop have a time limit at the client
  (`cli.ts:406`: "the daemon enforces its own instruction deadline", which speaks
  of `do` only). A command hangs as long as what it asked for, or what is before it
  in the queue, does not return and the daemon stays up: `CommandEnds` excepts it.
* `loop.ts:540`, 625: where naming is asked after sourcing, the names of the first
  report are forgotten (`ValuesKept`). `loop.ts:1438`: an assertion that checked
  nothing is filed as a failure, which is not escalated (`VerdictMeans`).
  `actor-act.ts:137`: what the actor took, or that it fell silent, is kept for the
  next instruction of the same text.
* `repair.ts:660`-672: a locator inside a folded loop is credited once per pass
  (`EvidenceIsTrue` excepts loops). `replay.ts:1208`, `repair.ts:202`: places in
  the chain without its unfilled slots are applied to the whole chain (`shifted`).
  `replay.ts:1350`: the ticket names the first locator as missed even if it was not
  the one tried. `spec/repair.ts:315` may put a locator into a chain twice, whose
  ticket then stays news. `cli.ts:2033`: a request to re-record is dropped when
  anything else was changed. `resolve.ts:191` and `recorder.ts:215` disagree on
  which one-step paths are positions (`recorder.ts:204`). `spec/repair.ts:714`-724:
  "Named coverage: the run itself said it replayed something else" never comes
  true, as the run says "n/m" (`server.ts:2686`, `cli.ts:1846`): a flow whose pin
  another procedure stands in for at tier A in every run is written.
  `spec/repair.ts:549`: a step that a model finished is at tier A, and passes where
  its only tickets are about locators that are retired. With `--converge 0`
  (`cli.ts:1784`) no run is judged. `WrittenMeans` claims what is left.

Of a replay that a reload meets: `replay.ts:1717`-1770 turns a document that goes
under a call that acts (`browser.ts:436`-443, 497) into a stop, which `replay.ts:1855`
returns before `fillLost` or `standingFillsLost` is asked: one reload does stop a
replay there (`Robust` names it, `torn`).

Of the ledger of standing fills (`refill.ts`). `SentWhole`, `FillsOK` and `Robust`
hold but for these, and TLC finds each of them where its exception is taken away:

* `:48`: "A submit that went through ... is never repeated". One whose answer was
  cut off by a reload at the same url is: the document is gone, the url the same,
  the fields empty (`SentOnce` excepts posts that were `cut`).
* `:132`: a fill with nothing returns before the older entry of its field is
  removed, so a later click fills in what was cleared (`Sure`). A `type` leaves
  the older entry as well: when a refill of another field empties this one, or a
  reload does, the older value is sent (`Swept`, `Unkept`).
* `:137`: the document is read when the fill is noted, after it was judged. A
  reload between the two makes the loss look like the document's own state, and a
  field not built yet is left alone (`unseen`).
* `:243`: "nothing takes focus off it" ahead of a key. The refill of the next
  field does, and a widget that drops its value at the blur has dropped it after
  it was confirmed (`Swept` for a key press).
* `:235`: an action that retires the ledger forgets a fill that a reload has
  already emptied, without looking (`Forgotten`). Any click that submits nothing
  also ends the protection of what was filled before it (`Unkept`).
* `:387`: a field is cleared before a `type` if this segment filled it, though
  the recording may have typed on; and a field that was refilled before a click
  is not, once another submitting or retiring action has gone by (`astray`).

Read beside the modules, in code that is not modelled: `toggles.ts:169` drops a
reload that in the recording also emptied another field. `compile.ts:4816` takes
an accepted submit that showed nothing for a repeat, though the journal holds
its write. `journal-attribute.ts:3` says nothing reads the attribution, which
the compile passes do. `discarded-detour.ts` takes an app that writes by
websocket as well as over HTTP for one that wrote nothing.

## 5. Fairness

* `FileLock`: a live process runs its own synchronous code (`WF` of `Step`), and
  time passes (`WF` of `Age` and `Expire`). `SF` of `CreateExists`: the name is
  not pending deletion at every attempt. Only processes that may not die are
  made to call again; nothing is assumed of the mortal.
* `FoldedLoop`: `WF(Loop)`. Counts, waits and tool calls in the hooks have
  timeouts of their own. Nothing is assumed of the page.
* `Daemon`: `WF` of `Begin` (a settled promise runs its continuation), of each
  stage of a stop (timers: `STOP_DRAIN_MS`; Playwright's close) and of `Finish`.
  `SF` of `Abandon`: the instruction's deadline is a wall-clock timer that fires
  whatever the tool does. Commands in `Hung` have none of it, and no tool call
  need ever settle.
* `Sessions`: `WF` of each command's and each daemon's own code, of the poll's and
  the wait's timers, of a job's end once its command has ended. No daemon is made
  to come up. The request of a command that does not hang is answered, or lost
  with its daemon; whether it hangs is free (`Hang` has no fairness), and a command
  that does is let go only by the end of its daemon. A stop has a timer of its own.
* `Instruction`: `WF` of the loop's own steps; a model call and a tool call have
  timeouts, so that each ends in some way. The clock is not used: the turn cap
  alone ends an instruction.

`Replay`, `StandingFills`, `FlowRunner`, `Converge` and `Repair` take finitely many steps over a
finite recording; no liveness is claimed of them.

## 6. Proofs

All proofs are of safety properties, for every value of the constants.

* **`FileLock`** (in `SharedFilesProofs`). `HolderHasFileHolds`: `HolderHasFile` with the type
  invariant is inductive. It says that whoever created the file and has not
  finished still has it at the path, as long as nobody's file was taken. It is
  needed because a release deletes by name: only that invariant says that the
  file deleted is one's own. `OverlapNeedsTheft` follows, as two holders would
  own one file, and `RefinesSection`: the implementation holds under any
  deaths, failures and ageing. `SteadyExclusion` assumes `Mortal = {}` and
  `MayAge = FALSE`; its invariant `Steady` adds that a rename is never reached.
* **`SkillStore`**. `NothingLost`, `RevisionsGrow` and `RevisionsIdentify`,
  without an assumption on legacy stores and removals (the properties speak of
  the procedures that are neither, whatever is done to the others beside them).
  The invariant has four parts: `Sections` (who is past its lock is alone in
  it, and what it read there is still what is on disk), `Covers` (an object that
  carries the disk's revision contains every edit the disk does), `Kept` (what
  was promised is on disk) and `LegacyOnly` (the legacy file holds only legacy
  procedures); `Same` adds that copies with one revision say the same.
* **`SkillLifecycle`** (in `SharedFilesProofs`). `TwoStrikesDemote`, `DemotionHasCause`,
  `DemotionIsFinal`, `PromotionIsEarned`, and `EvidenceStaysCurrent`, which
  assumes `Contract > 1`: a missing stamp reads as contract 1, so for a
  procedure written under contract 1 giving up the stamp would give up nothing.
  The invariant `Counters` ties `lastFailedAt` to the last strike of the history,
  `successes` to the clean runs and the stamp to the evidence it stands for.
* **`Daemon`**. `StopReachesTheRunning`, `StoppedSendsOneAtMost`,
  `NoBrowserOrphaned`, `LearningIsExact`, `DaemonHolds`. `CmdType` says that a
  queued command is in one place; `BrowserInv` adds that at most one launch is
  under way,
  none while a context is set, and a browser not yet known only within a
  launch; that an aborted instruction sends one action more at most needs that the
  call past its look is still the only one (`overran` is 0 until it is sent); `LearnInv` says that whatever
  another instruction adds behind a mark comes from a call that was abandoned;
  `ClosingInv`, `QueueInv` and `ExportInv` follow a stop through its stages: what
  it waits for is what was queued, and what is open when it exports is cut or
  came after it.
* **`FlowRunner`**, for any flow that is not empty and new procedures that
  are not in the store at first. `ReplaysAreBankedOnce`, `TouchedIsLeft`,
  `TouchedIsTold` from `BankInv`: in each phase exactly the runs that are still
  to be banked are unbanked (`Chaining`), the run that is told is the last one
  that touched the page (`Telling`). `SuccessIsWhole` from `ResultInv`.
  `OwnersAreKept` from `OwnerInv`: two steps with one mutating procedure had it
  from the recording or took it late (`Owners`), which needs that a procedure
  a pin may move to is in the store (`Presents`) and whole (`WholeIn`).
* **`Converge`** (in `SpecProofs`): `EndsOnCompiled`, `ConvergedIsSeen`, `StoreIsAsItWas`,
  `KeptIsNew`. The invariant follows an attempt: `PinsHold` and `Swapped` (only
  the job's own pin differs from the file's, and the procedures retired are those
  it had), `Kindly` (what is demoted is gone or retired), `Checked` (between a
  compile and its check every step has a procedure, and none that is out of use
  without the flag), `InFlow` (what was left out and is so no longer is a step),
  `Bundled` (what a bundle staged stays out of use).
* **`Sessions`** (in `SharedFilesProofs`): `WaitsAreAnswered`, `FaultsNeedRaces`. `Alone` says, while
  no two daemons were started beside each other, that one command at a time
  spawns, one daemon at a time starts, and whichever accepts has the socket's
  name.
* **`Instruction`**: `HistoryIsWhole`, `ReportsMean`, `ReportsGetThrough`,
  `StopsAreFinal`, from one invariant: the counts fit the phase (`Numbers`,
  `Places`, `Pending`), a hold that was asked keeps its names (`Holding`), and a
  model that only reports has turns left for each hold that may still be asked
  (`Heard`).

* **`Replay`**, for any procedures, body of a loop and number of passes:
  `PressesAreBounded`, `ResultsAreTrue`, `RepeatsAreJustified`. The properties
  speak of the result when the replay returns, or of the dispatches of one step;
  the invariant `ReplayInv` says what they amount to on the way there. What is
  still to come was not touched (`Ahead`), what is behind was completed and every
  condition among it met (`Behind`), a proposal is open only while its step is at
  work (`Proposals`), what was sent and not told of was harmless (`Told`: before
  the gate, and until `acted` is set), the last dispatch of the step at work was
  seen to do nothing or be lost (`LastSeen`), and the dispatches of an attempt fit
  the marks of its step and the attempts it had (`Bounded`).
* **`FoldedLoop`** (in `PageProofs`), for any finite set of records, any refill, cap and length of
  the body: `FoldedLoopIsRight`, that is `LoopOK`. A run that is not `upset` is
  `Calm`: the records before the cursor, or gone, are the ones a pass was spent on, so that
  their number is the cursor plus those that left; between an action and the next
  look one row more may be on its way out, and the count taken before the pass
  says which of the two it is. `Pinned` is why the repeat check is right for a
  loop that always aims at the first row: there the cursor stands at 0 until a
  pass left the list as it was.
* **`StandingFills`** (in `PageProofs`), for any fields, any of them key-driven,
  emptying any others, any required ones, any recordings whose last gesture sends
  a form the server takes, and any number of reloads: `FillsAreKept`,
  `FormsAreSentWhole` and `OneReloadIsSurvived`, that is `FillsOK`, `SentWhole` and
  `Robust`. The invariant compares the page with the one the recording left, field
  by field.
  - `OnceInv`: one form at a time is on its way or taken, and while a submit may
    still be repeated every form the server took was cut off, or was empty. That a
    repeat follows a cut is in `standingFillsLost`: the document the submit went
    out from is gone, and a form is not carried from one document to the next.
  - `RecordInv` is about the recording alone: what it shows of a field, at each
    step, is what its last entry there put into it, or nothing.
  - `KeptInv` is the core. Once the recording has made its last entry in a field
    that it left a value in, the value is on the page (`Held`), or the field is empty
    and the value is in a ledger that a check will still read (`Will`), or the last
    check did not see the field and no ledger has another value for it
    (`Excused`), or it was written off (`gone`). Every action moves a field from
    one of these to another. `LedgerInv` is needed for it: an entry of the ledger
    is of a fill behind the step at work with no submit since, so that what a
    refill empties is a field it emptied in the recording as well.
  - `EmptyInv` says the same of a field that the recording left empty, and
    `NetInv` carries both over to the form on its way; a form the server takes is
    the form that was on its way.
  - For `Robust`, `TypesInv` adds that keys went onto what they went onto in the
    recording (nothing, where `astray` is empty), and `AgainInv` that a step is run
    again only in a later document, of which one reload makes only one.

* **`Repair`** (in `SpecProofs`), for any chain of locators, whatever was seen of
  them in earlier sessions, any page in each run and any `--converge`:
  `RepairIsRight`, that is `RepairOK`. `Evidence` is an account: what a name's
  entry says was seen of it never exceeds the runs that bear it out, and while a
  miss has been counted by a run and not yet put down, by the replay (`Pending`) or
  by its ticket (`Owed`), it is less. That the ticket names a locator that was
  tried at all needs the order they are tried in: a name comes before the path
  that answered (`TicketMissed`). `Logged` ties the log of the runs to the gate
  they passed; `Fresh`, that a run begins with no result and no ticket, so that the
  gate judges the run's own. The order by evidence is handled as a permutation whose first
  element nothing goes before (`OrderedIs`, from `ListedIs`: a set can be listed
  by how many members come before each, which needs the pigeonhole principle).

The modules that share a proof module are extended by it together, which is why
their specifications carry their names (`LifecycleSpec`, `SessionSpec`,
`ConvergeSpec`).

Only model-checked: liveness (`StaleRetired`, `NoStall`, `LoopEnds`, `StopEnds`,
`QueueMoves`, `CommandEnds`, `InstructionEnds`), which TLAPS does not prove under
fairness. Every safety property of the runs is proved.

## 7. Assumptions and limits

* `SkillStore` takes the lock to be exclusive. `OverlapOnlyAfterTheft` says when it
  is not; the lost update that follows is not explored again there.
* A rename over a file and an exclusive create are atomic, as on a local POSIX
  or NTFS file system. Files of a newer contract, which every read refuses, are
  left out.
* `FoldedLoop` takes `settle` to mean that the list is rendered. A row that
  leaves after `LOOP_SHRINK_WAIT_MS`, or a page that fills up while rows leave,
  sets `upset`: `CompleteMeansDone`, `LeftMeansLeft` and `NeverTwice` do not speak
  of those runs, and records really can be skipped in them.
* `FoldedLoop` has finitely many records at a time, `Replay` no marks on a tool
  that the compiler does not give them to (`StepType`), and `Repair` orders
  locators by the rank of their kind, a number.
* `Replay` lets every look at the page answer anything, so what it shows does not
  depend on a page; what a given page would make of a recording is not in it.
* `StandingFills` ends a recording at the submit the app took, has no field that
  drives a popup, compares texts for equality where `sameValue` and `heldTwice`
  allow for formats, and takes a widget that drops its value to send what it has
  in its own copy. A recorded click that submits nothing passes its checks. A
  field whose fill empties the field itself is left out (`FormAssumption`), and a
  recording in which its submit was not taken. `SentOnce` and `Robust` do not
  speak of a submit whose form had no text in it, where an empty form is no sign
  of a loss; the server takes such a form only where nothing is required.
* `FlowRunner` leaves out how values are bound into instructions and reports, and
  `Converge` why a compile is refused or a check fails.
* `Instruction` leaves out what the holds compare (values read against values
  reported) and `Repair` what a model proposes.
* `SkillStore` leaves out `put` with `overwrite` (`store.ts:1250`), which only fills a
  temporary store that was just made (`rerecord-input.ts:151`).
* `Daemon` does not say what an instruction decides, nor what a step says.

Not modelled, and why:

* text generation (`spec/emit*`, `lower`, `lift`), model prompts and confidence
  thresholds (`agent/actor*`, `system-one`), DOM queries and layout
  (`execution/snapshot`, `observe`), string scrubbing (`shared/secrets`),
  argument parsing and output: they have no state over time, or none a model can
  have;
* the ledger of run values and the threading of values between steps (`ledger.ts`,
  `flow.ts`), which are about the texts;
* site facts and recipes (`facts*.ts`), dialogs and the session's files: small,
  sequential, kept in files by the lock that is modelled;
* the attribution of page events to gestures by time windows (`journal*.ts`).

## 8. Plan

Next, in this order: the passes of `compile`, before what `StandingFills`
replays; the ledger of run values; the attribution of page events; `RecipeStore`
as a second user of `FileLock`, and the store over `FileLock` itself instead of
`Section`.
