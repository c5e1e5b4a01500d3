------------------------------ MODULE FileLock ------------------------------
(***************************************************************************)
(* withFileLock (src/skills/store.ts): an exclusive lock made of one file. *)
(* Every process that reads a procedure, changes it and writes it back     *)
(* takes it.  One step here is one file-system or process call there, and  *)
(* any other process may run between two of them.                          *)
(*                                                                         *)
(* The lock file is described by who created the file that now has its     *)
(* name (owner), whether the creator's pid has reached its contents        *)
(* (named), and whether it is older than LOCK_STALE_MS (old).  A process   *)
(* that died may be followed by another with the same pid (Restart).       *)
(***************************************************************************)
CONSTANTS
    Proc,     \* the pids that call withFileLock
    Mortal,   \* the pids whose process may die, inside the section or out
    MayAge,   \* whether a lock can get older than LOCK_STALE_MS
    Nobody    \* no pid: no lock file, or contents that name nobody

ASSUME NobodyAssumption == Nobody \notin Proc
ASSUME MortalAssumption == Mortal \subseteq Proc

VARIABLES
    pc,        \* where each process is in withFileLock
    owner,     \* creator of the file at the lock's path, Nobody if none
    named,     \* that file holds its creator's pid
    old,       \* that file is older than LOCK_STALE_MS
    seenOld,   \* what the process read of the age, at its stat
    seenPid,   \* what the process read of the contents
    expired,   \* the process is past its LOCK_WAIT_MS deadline
    disturbed  \* a live holder's file was taken, and holders remain

vars == <<pc, owner, named, old, seenOld, seenPid, expired, disturbed>>
lockVars == <<owner, named, old>>
seenVars == <<seenOld, seenPid, expired>>

\* Between its exclusive create and the end of its removeQuietly.
HoldStates == {"write", "section", "release"}
WaitStates == {"create", "stat", "read", "judge", "rename"}

TypeOK ==
    /\ pc \in [Proc -> {"idle", "gone"} \cup HoldStates \cup WaitStates]
    /\ owner \in Proc \cup {Nobody}
    /\ named \in BOOLEAN /\ old \in BOOLEAN
    /\ seenOld \in [Proc -> BOOLEAN]
    /\ seenPid \in [Proc -> Proc \cup {Nobody}]
    /\ expired \in [Proc -> BOOLEAN]
    /\ disturbed \in BOOLEAN

Init ==
    /\ pc = [p \in Proc |-> "idle"]
    /\ owner = Nobody /\ named = FALSE /\ old = FALSE
    /\ seenOld = [p \in Proc |-> FALSE]
    /\ seenPid = [p \in Proc |-> Nobody]
    /\ expired = [p \in Proc |-> FALSE]
    /\ disturbed = FALSE

Holds(p) == pc[p] \in HoldStates
Gone(p) == pc[p] = "gone"
Goto(p, s) == pc' = [pc EXCEPT ![p] = s]

\* History: the damage of a theft lasts until the last holder has left.
Note(theft) == disturbed' = ((disturbed \/ theft) /\ \E q \in Proc : pc'[q] \in HoldStates)

\* age and pid are locals of one round of the loop, deadline of the call.
NextRound(p) ==
    /\ seenOld' = [seenOld EXCEPT ![p] = FALSE]
    /\ seenPid' = [seenPid EXCEPT ![p] = Nobody]
    /\ UNCHANGED expired
Forget(p) ==
    /\ seenOld' = [seenOld EXCEPT ![p] = FALSE]
    /\ seenPid' = [seenPid EXCEPT ![p] = Nobody]
    /\ expired' = [expired EXCEPT ![p] = FALSE]

NoFile == owner' = Nobody /\ named' = FALSE /\ old' = FALSE

----------------------------------------------------------------------------
Call(p) ==
    /\ pc[p] = "idle"
    /\ Goto(p, "create")
    /\ UNCHANGED <<lockVars, seenVars, disturbed>>

\* The exclusive create wins: an empty file, the pid not yet in it.
Create(p) ==
    /\ pc[p] = "create" /\ owner = Nobody
    /\ Goto(p, "write")
    /\ owner' = p /\ named' = FALSE /\ old' = FALSE
    /\ Forget(p)
    /\ UNCHANGED disturbed

\* EEXIST: somebody's lock is in the way.
CreateExists(p) ==
    /\ pc[p] = "create" /\ owner # Nobody
    /\ Goto(p, "stat")
    /\ UNCHANGED <<lockVars, seenVars, disturbed>>

\* Bug variant: a name pending deletion is taken for a won create.
ContendedEnters(p) ==
    /\ pc[p] = "create" /\ expired[p]
    /\ Goto(p, "write")
    /\ Forget(p)
    /\ UNCHANGED <<lockVars, disturbed>>

\* EPERM, EACCES or EBUSY: the name is being deleted.  Only the deadline
\* ends this branch, otherwise it tries again.
CreateContended(p) ==
    /\ pc[p] = "create" /\ expired[p]
    /\ Goto(p, "idle")
    /\ Forget(p)
    /\ UNCHANGED <<lockVars, disturbed>>

\* The age is the file's mtime; a file that vanished sends it round again.
Stat(p) ==
    /\ pc[p] = "stat"
    /\ IF owner = Nobody
         THEN Goto(p, "create") /\ UNCHANGED seenOld
         ELSE Goto(p, "read") /\ seenOld' = [seenOld EXCEPT ![p] = old]
    /\ UNCHANGED <<lockVars, seenPid, expired, disturbed>>

\* A missing or half-written file names nobody.
ReadHolder(p) ==
    /\ pc[p] = "read"
    /\ seenPid' = [seenPid EXCEPT ![p] = IF named THEN owner ELSE Nobody]
    /\ Goto(p, "judge")
    /\ UNCHANGED <<lockVars, seenOld, expired, disturbed>>

\* Bug variant: both tests are required.
AbandonedBoth(p) == seenPid[p] # Nobody /\ Gone(seenPid[p]) /\ seenOld[p]

\* What was read is judged against who is alive now.
Abandoned(p) == (seenPid[p] # Nobody /\ Gone(seenPid[p])) \/ seenOld[p]

\* Take over, or give up past the deadline, or pause and try again.
Judge(p) ==
    /\ pc[p] = "judge"
    /\ \/ Abandoned(p) /\ Goto(p, "rename") /\ NextRound(p)
       \/ ~Abandoned(p) /\ expired[p] /\ Goto(p, "idle") /\ Forget(p)
       \/ ~Abandoned(p) /\ ~expired[p] /\ Goto(p, "create") /\ NextRound(p)
    /\ UNCHANGED <<lockVars, disturbed>>

\* Bug variant: a rename that found nothing is tried again.
TakeoverInsists(p) ==
    /\ pc[p] = "rename" /\ owner # Nobody
    /\ Goto(p, "create")
    /\ NoFile /\ Note(Holds(owner))
    /\ UNCHANGED seenVars

\* The rename fails for a reason of its own (EPERM, EACCES, EBUSY): the lock is
\* contended for again at once, with no pause and no look at the deadline.
TakeoverFails(p) ==
    /\ pc[p] = "rename" /\ owner # Nobody
    /\ Goto(p, "create")
    /\ UNCHANGED <<lockVars, seenVars, disturbed>>

\* Whatever file has the name now is renamed away (and then unlinked).
Takeover(p) ==
    /\ pc[p] = "rename"
    /\ Goto(p, "create")
    /\ IF owner = Nobody
         THEN UNCHANGED <<lockVars, disturbed>>
         ELSE NoFile /\ Note(Holds(owner))
    /\ UNCHANGED seenVars

\* The pid lands in the file the process created, wherever that now is.
WritePid(p) ==
    /\ pc[p] = "write"
    /\ Goto(p, "section")
    /\ named' = (named \/ owner = p)
    /\ UNCHANGED <<owner, old, seenVars, disturbed>>

\* The write of the pid fails (no space): the call throws and the empty
\* file stays behind.
WritePidFails(p) ==
    /\ pc[p] = "write"
    /\ Goto(p, "idle")
    /\ Note(FALSE)
    /\ UNCHANGED <<lockVars, seenVars>>

\* fn() returns or throws.
Finish(p) ==
    /\ pc[p] = "section"
    /\ Goto(p, "release")
    /\ UNCHANGED <<lockVars, seenVars, disturbed>>

\* removeQuietly(lock): by name, whoever's file has it.
Release(p) ==
    /\ pc[p] = "release"
    /\ Goto(p, "idle")
    /\ NoFile
    /\ Note(owner # p /\ owner # Nobody /\ Holds(owner))
    /\ UNCHANGED seenVars

\* removeQuietly gives up after RENAME_ATTEMPTS and leaves the file.
ReleaseFails(p) ==
    /\ pc[p] = "release"
    /\ Goto(p, "idle")
    /\ Note(FALSE)
    /\ UNCHANGED <<lockVars, seenVars>>

----------------------------------------------------------------------------
Expire(p) ==
    /\ pc[p] \in WaitStates /\ ~expired[p]
    /\ expired' = [expired EXCEPT ![p] = TRUE]
    /\ UNCHANGED <<pc, lockVars, seenOld, seenPid, disturbed>>

Age ==
    /\ MayAge /\ owner # Nobody /\ ~old
    /\ old' = TRUE
    /\ UNCHANGED <<pc, owner, named, seenVars, disturbed>>

Die(p) ==
    /\ p \in Mortal /\ ~Gone(p)
    /\ Goto(p, "gone")
    /\ Note(FALSE)
    /\ Forget(p)
    /\ UNCHANGED lockVars

Restart(p) ==
    /\ Gone(p)
    /\ Goto(p, "idle")
    /\ UNCHANGED <<lockVars, seenVars, disturbed>>

\* One process's own next step inside withFileLock.
Step(p) ==
    \/ Create(p) \/ CreateExists(p) \/ CreateContended(p)
    \/ Stat(p) \/ ReadHolder(p) \/ Judge(p) \/ Takeover(p) \/ TakeoverFails(p)
    \/ WritePid(p) \/ WritePidFails(p)
    \/ Finish(p) \/ Release(p) \/ ReleaseFails(p)

Next ==
    \/ Age
    \/ \E p \in Proc : Call(p) \/ Step(p) \/ Expire(p) \/ Die(p) \/ Restart(p)

Spec == Init /\ [][Next]_vars

\* A live process keeps running its synchronous code, time passes, and a
\* name that exists is not pending deletion at every single attempt.
Fairness ==
    /\ WF_vars(Age)
    /\ \A p \in Proc : /\ WF_vars(Step(p)) /\ WF_vars(Expire(p))
                       /\ SF_vars(CreateExists(p))

\* Processes that may not die, and come back with another update.
Callers == \A p \in Proc \ Mortal : WF_vars(Call(p))

LiveSpec == Spec /\ Fairness /\ Callers

----------------------------------------------------------------------------
\* withFileLock: "Hold an exclusive lock on one file for the duration of fn".
MutualExclusion ==
    \A p, q \in Proc : pc[p] = "section" /\ pc[q] = "section" => p = q

\* While no live holder's file was taken from it, every process that created
\* its lock file and has not finished still has that file at the lock's path.
HolderHasFile == ~disturbed => \A p \in Proc : Holds(p) => owner = p

\* Two processes share the section only while the damage of a takeover of a
\* live lock lasts: the release that does not check whose file it deletes,
\* half-written files, failed removals and reused pids never cause it alone,
\* and once every holder has left the lock is sound again.
OverlapOnlyAfterTheft == ~disturbed => MutualExclusion

\* A file whose creator is not in the section (it died, or could not write
\* or remove it) does not keep the name for ever, unless whoever would take it
\* over is refused the rename again and again.
StaleRetired ==
    \/ \A p \in Proc : (owner = p /\ ~Holds(p)) ~> (owner # p \/ Holds(p))
    \/ \E q \in Proc : []<><<TakeoverFails(q)>>_vars

\* A call ends, in the section or with the timeout, unless another process
\* keeps acquiring the lock meanwhile, or the call's own rename of an abandoned
\* lock keeps failing (neither branch looks at the deadline): callers never spin
\* on each other, or on a lock nobody acquires and nobody is refused.
NoStall ==
    \A p \in Proc : \/ []<>(pc[p] \notin WaitStates)
                    \/ \E q \in Proc \ {p} : []<>(pc[q] = "write")
                    \/ []<><<TakeoverFails(p)>>_vars

\* Whatever else goes wrong (deaths, half-written files, failed removals,
\* reused pids) the protocol keeps the promise of Section, but while the damage
\* of a takeover of a live lock lasts.
Promise == INSTANCE Section WITH inside <- IF disturbed THEN {} ELSE {p \in Proc : pc[p] = "section"}
Refines == Promise!Spec
=============================================================================
