------------------------------ MODULE Sessions ------------------------------
(***************************************************************************)
(* How a command finds the daemon of its session, or starts one:           *)
(* connectOrSpawn and stop (src/cli.ts), the daemon's listen and shutdown  *)
(* (src/daemon/server.ts), and the jobs an MCP server runs such commands   *)
(* as (src/mcp/jobs.ts, run-cli.ts).  The commands share nothing but the   *)
(* name of a socket in the file system.                                    *)
(***************************************************************************)
EXTENDS FiniteSets, Integers

CONSTANTS
    Cmd,      \* commands, and the daemons they spawn
    Stops,    \* those that stop the session
    Jobs,     \* those an MCP server runs as jobs
    Want,     \* the skill store each needs, None if none
    Keep,     \* KEEP_FINISHED
    None

ASSUME CmdAssumption == Stops \subseteq Cmd /\ Jobs \subseteq Cmd /\ IsFiniteSet(Cmd) /\ None \notin Cmd
ASSUME KeepAssumption == Keep \in Nat /\ DOMAIN Want = Cmd

VARIABLES
    at, peer,      \* where each command is, the daemon it talks to
    daemon, path,  \* the daemon each command spawned; whose socket has the name
    job, wait,     \* the job table, the job_status calls
    open,          \* the MCP server has a client
    raced          \* history: a daemon was started beside another that did not answer, or that was starting

cmdVars == <<at, peer>>
daemonVars == <<daemon, path>>
jobVars == <<job, wait, open>>
sessionVars == <<cmdVars, daemonVars, jobVars, raced>>

Ended == {"served", "refused", "lost", "not-running", "no-daemon", "killed"}
SessionTypeOK ==
    /\ at \in [Cmd -> {"idle", "connect", "ping", "spawn", "poll", "use", "hung"} \cup Ended]
    /\ peer \in [Cmd -> Cmd \cup {None}]
    /\ daemon \in [Cmd -> {"none", "look", "unlink", "bind", "up", "stopping", "closed", "dead"}]
    /\ path \in Cmd \cup {None}
    /\ job \in [Jobs -> {"none", "running", "finished", "gone"}]
    /\ wait \in [Jobs -> {"no", "yes", "answered", "nothing"}]
    /\ open \in BOOLEAN /\ raced \in BOOLEAN

SessionInit ==
    /\ at = [c \in Cmd |-> "idle"] /\ peer = [c \in Cmd |-> None]
    /\ daemon = [c \in Cmd |-> "none"] /\ path = None
    /\ job = [j \in Jobs |-> "none"] /\ wait = [j \in Jobs |-> "no"] /\ open = TRUE
    /\ raced = FALSE

----------------------------------------------------------------------------
MovesTo(c, where) == at' = [at EXCEPT ![c] = where]
Turns(d, into) == daemon' = [daemon EXCEPT ![d] = into]

\* The socket answers until server.close, a connection until the exit.
Accepts(d) == daemon[d] \in {"up", "stopping"}
Answers(d) == daemon[d] \in {"up", "stopping", "closed"}

\* Bug variant: any daemon of the session will do.
AnyStore(c, d) == TRUE

\* storeMismatch: a command that needs a skill store needs that one.
Serves(c, d) == Want[c] = None \/ Want[d] = Want[c]

\* A daemon besides the command's own is starting or serving.
Another(c) == \E d \in Cmd \ {c} : at[d] \in {"spawn", "poll"} \/ daemon[d] \in {"look", "unlink", "bind", "up"}
Beside(c) == Another(c) \/ \E d \in Cmd : Accepts(d)

Invoke(c) ==
    /\ at[c] = "idle" /\ c \notin Jobs
    /\ MovesTo(c, "connect")
    /\ UNCHANGED <<peer, daemonVars, jobVars, raced>>

Connect(c) ==
    /\ at[c] = "connect"
    /\ IF path # None /\ Accepts(path)
         THEN MovesTo(c, IF c \in Stops THEN "use" ELSE "ping") /\ peer' = [peer EXCEPT ![c] = path] /\ UNCHANGED raced
         ELSE MovesTo(c, IF c \in Stops THEN "not-running" ELSE "spawn") /\ raced' = (raced \/ Another(c)) /\ UNCHANGED peer
    /\ UNCHANGED <<daemonVars, jobVars>>

\* A ping that is not answered in time counts as no daemon.
Ping(c) ==
    /\ at[c] = "ping"
    /\ \/ Answers(peer[c]) /\ MovesTo(c, IF Serves(c, peer[c]) THEN "use" ELSE "refused") /\ UNCHANGED raced
       \/ MovesTo(c, "spawn") /\ raced' = (raced \/ Beside(c))
    /\ UNCHANGED <<peer, daemonVars, jobVars>>

Spawn(c) ==
    /\ at[c] = "spawn"
    /\ MovesTo(c, "poll") /\ Turns(c, "look")
    /\ raced' = (raced \/ Another(c))
    /\ UNCHANGED <<peer, path, jobVars>>

\* Every 200 ms: whoever answers at the name now is the daemon.
Poll(c) ==
    /\ at[c] = "poll" /\ path # None /\ Accepts(path)
    /\ MovesTo(c, "use") /\ peer' = [peer EXCEPT ![c] = path]
    /\ UNCHANGED <<daemonVars, jobVars, raced>>

\* Bug variant: without the deadline the command polls on.
NeverLate == FALSE

Late == TRUE

PollExpires(c) ==
    /\ at[c] = "poll" /\ Late
    /\ MovesTo(c, "no-daemon")
    /\ UNCHANGED <<peer, daemonVars, jobVars, raced>>

\* The command's request is answered, or lost when the daemon ends first.  A
\* stop is served at once; its client does not wait for ever.
Taken(c) == IF c \in Stops /\ daemon[peer[c]] = "up" THEN [daemon EXCEPT ![peer[c]] = "stopping"] ELSE daemon
Use(c) ==
    /\ at[c] = "use" \/ (at[c] = "hung" /\ daemon[peer[c]] # "up")
    /\ \/ Answers(peer[c]) /\ MovesTo(c, "served") /\ daemon' = Taken(c)
       \/ (c \in Stops \/ daemon[peer[c]] # "up") /\ MovesTo(c, "lost") /\ daemon' \in {daemon, Taken(c)}
    /\ UNCHANGED <<peer, path, jobVars, raced>>

\* What it asked for never returns, or waits in the daemon's queue behind what
\* does not; no other request has a time limit.
Hang(c) ==
    /\ at[c] = "use" /\ c \notin Stops /\ daemon[peer[c]] = "up"
    /\ MovesTo(c, "hung")
    /\ UNCHANGED <<peer, daemonVars, jobVars, raced>>

----------------------------------------------------------------------------
\* listen: existsSync and unlinkSync, then the bind.  A socket that is gone
\* before the unlink, or there again before the bind, ends the daemon.
Look(d) ==
    /\ daemon[d] = "look" /\ Turns(d, IF path # None THEN "unlink" ELSE "bind")
    /\ UNCHANGED <<cmdVars, path, jobVars, raced>>

Unlink(d) ==
    /\ daemon[d] = "unlink"
    /\ IF path # None THEN Turns(d, "bind") /\ path' = None ELSE Turns(d, "dead") /\ UNCHANGED path
    /\ UNCHANGED <<cmdVars, jobVars, raced>>

Bind(d) ==
    /\ daemon[d] = "bind"
    /\ IF path = None THEN Turns(d, "up") /\ path' = d ELSE Turns(d, "dead") /\ UNCHANGED path
    /\ UNCHANGED <<cmdVars, jobVars, raced>>

\* shutdown: server.close takes the name away, whoever's socket has it.
Close(d) ==
    /\ daemon[d] = "stopping"
    /\ Turns(d, "closed") /\ path' = None
    /\ UNCHANGED <<cmdVars, jobVars, raced>>

Exit(d) ==
    /\ daemon[d] = "closed" /\ Turns(d, "dead")
    /\ UNCHANGED <<cmdVars, path, jobVars, raced>>

\* Killed: its socket keeps the name.
Crash(d) ==
    /\ daemon[d] \in {"up", "stopping"} /\ Turns(d, "dead")
    /\ UNCHANGED <<cmdVars, path, jobVars, raced>>

----------------------------------------------------------------------------
\* Bug variant: the oldest jobs go, running or not.
PruneAny == {j \in Jobs : job[j] \in {"running", "finished"}}

Prunable == {j \in Jobs : job[j] = "finished"}

\* JobTable.start: finished jobs beyond Keep are forgotten, the child is started.
Start(j) ==
    /\ open /\ job[j] = "none" /\ at[j] = "idle"
    /\ LET over == Cardinality(Prunable) - Keep
       IN \E old \in SUBSET Prunable :
            /\ Cardinality(old) = IF over > 0 THEN over ELSE 0
            /\ job' = [i \in Jobs |-> IF i = j THEN "running" ELSE IF i \in old THEN "gone" ELSE job[i]]
    /\ MovesTo(j, "connect")
    /\ UNCHANGED <<peer, daemonVars, wait, open, raced>>

\* The child has exited: the job has its result and who waits is woken.
JobEnds(j) ==
    /\ at[j] \in Ended /\ job[j] = "running"
    /\ job' = [job EXCEPT ![j] = "finished"]
    /\ wait' = [wait EXCEPT ![j] = IF @ = "yes" THEN "answered" ELSE @]
    /\ UNCHANGED <<cmdVars, daemonVars, open, raced>>

\* job_status: a job that runs is waited for, for a time.
Status(j) ==
    /\ open /\ job[j] \in {"running", "finished"} /\ wait[j] # "yes"
    /\ wait' = [wait EXCEPT ![j] = IF job[j] = "running" THEN "yes" ELSE "answered"]
    /\ UNCHANGED <<cmdVars, daemonVars, job, open, raced>>

WaitExpires(j) ==
    /\ wait[j] = "yes"
    /\ wait' = [wait EXCEPT ![j] = IF job[j] = "gone" THEN "nothing" ELSE "answered"]
    /\ UNCHANGED <<cmdVars, daemonVars, job, open, raced>>

\* The client is gone: killAll and killAllChildren.  Daemons are detached.
Shutdown ==
    /\ open /\ open' = FALSE
    /\ at' = [c \in Cmd |-> IF c \in Jobs /\ job[c] = "running" /\ at[c] \notin Ended THEN "killed" ELSE at[c]]
    /\ UNCHANGED <<peer, daemonVars, job, wait, raced>>

----------------------------------------------------------------------------
Command(c) == Connect(c) \/ Ping(c) \/ Spawn(c) \/ Poll(c) \/ Use(c)
Serve(d) == Look(d) \/ Unlink(d) \/ Bind(d) \/ Close(d) \/ Exit(d)
SessionNext ==
    \/ \E c \in Cmd : Invoke(c) \/ Command(c) \/ Hang(c) \/ PollExpires(c) \/ Serve(c) \/ Crash(c)
    \/ \E j \in Jobs : Start(j) \/ JobEnds(j) \/ Status(j) \/ WaitExpires(j)
    \/ Shutdown

SessionSpec == SessionInit /\ [][SessionNext]_sessionVars

\* Processes run, and clocks.
SessionFairness ==
    /\ \A c \in Cmd : WF_sessionVars(Command(c)) /\ WF_sessionVars(PollExpires(c)) /\ WF_sessionVars(Serve(c))
    /\ \A j \in Jobs : WF_sessionVars(JobEnds(j)) /\ WF_sessionVars(WaitExpires(j))
SessionLiveSpec == SessionSpec /\ SessionFairness

----------------------------------------------------------------------------
\* A daemon that listens where nobody finds it keeps its browser until it is
\* killed by hand.  It takes two daemons at once: a daemon that stops leaves
\* the next one's socket alone, a dead one's socket is no obstacle.
Orphan(d) == daemon[d] = "up" /\ path # d
OrphanNeedsRace == ~raced => \A d \in Cmd : ~Orphan(d)

\* cli.ts: a daemon "that cannot serve this command is refused, never silently
\* reused": it takes two daemons started at once for a command to work on
\* another's skill store.
WrongStoreNeedsRace == ~raced => \A c \in Cmd \ Stops : at[c] \in {"use", "hung", "served"} => Want[c] \in {None, Want[peer[c]]}

\* Both, for one run.
FaultsNeedRace == OrphanNeedsRace /\ WrongStoreNeedsRace

\* A wait for a job that was there finds it when it ends (tools.ts takes the
\* answer without looking).
WaitFindsJob == \A j \in Jobs : wait[j] # "nothing"

\* It does, in a state of the right types.
SessionsOK == SessionTypeOK /\ WaitFindsJob

\* Every command ends, whatever daemons come and go meanwhile, and so does
\* the job it is; but not one that hangs for ever at a daemon that stays up
\* (request: only a ping and a stop have a time limit).  A stop ends always.
Over(c) == at[c] \in Ended /\ (c \in Jobs => job[c] \in {"finished", "gone"})
Hangs(c) == at[c] = "hung" /\ daemon[peer[c]] = "up"
CommandEnds == \A c \in Cmd : (at[c] = "connect" ~> Over(c)) \/ (c \notin Stops /\ <>[]Hangs(c))
=============================================================================
