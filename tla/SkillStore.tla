----------------------------- MODULE SkillStore -----------------------------
(***************************************************************************)
(* The on-disk procedure store shared by every daemon and CLI             *)
(* (src/skills/store.ts, class SkillStore): one file per procedure, a      *)
(* per-file lock (Section, kept by FileLock), a revision in each file, and *)
(* legacy whole-file stores that are read in place.                        *)
(*                                                                         *)
(* What a procedure says is abstracted to the set of edits it contains;    *)
(* edit <<p, k>> is the k-th change process p makes, to any procedure.     *)
(* Revision 0 stands for a procedure that carries no revision.             *)
(***************************************************************************)
EXTENDS Naturals

CONSTANTS
    Proc,      \* the processes that use the store
    Id,        \* the procedures
    Legacy,    \* those that start out in a legacy whole-file store
    Removable, \* those that may be removed
    MaxEdits,  \* edits one process makes: the bound on every counter
    Absent     \* no file, no copy

ASSUME LegacyAssumption == Legacy \subseteq Id /\ Removable \subseteq Id
ASSUME EditsAssumption == MaxEdits \in Nat

Edit == Proc \X (1..MaxEdits)
Version == [rev : Nat, edits : SUBSET Edit]
Read == [id : Id, rev : Nat, edits : SUBSET Edit]

ASSUME AbsentAssumption == Absent \notin Version \cup Read

VARIABLES
    file,     \* each procedure's file
    legacy,   \* the procedures the legacy file holds
    inside,   \* who is inside each file's lock
    pc,       \* where each process is in its call
    target,   \* the procedure the call is about
    work,     \* the version the call read inside the lock
    kept,     \* what a removal read of the legacy file
    copy,     \* the Skill object the process holds from get, list or compile
    made,     \* edits each process has made
    born,     \* procedures that have ever been written or compiled
    acked     \* per procedure, the edits a returned call promised are kept

vars == <<file, legacy, inside, pc, target, work, kept, copy, made, born, acked>>
disk == <<file, legacy>>
local == <<target, work, kept, copy, made, born>>

NoEdits == [i \in Id |-> {}]

TypeOK ==
    /\ file \in [Id -> Version \cup {Absent}]
    /\ legacy \subseteq Id
    /\ inside \in [Id -> SUBSET Proc]
    /\ pc \in [Proc -> {"idle", "update", "updating", "updateWrite", "put", "putting",
                        "putWrite", "remove", "dropRead", "dropWrite"}]
    /\ target \in [Proc -> Id]
    /\ work \in [Proc -> Version \cup {Absent}]
    /\ kept \in [Proc -> SUBSET Id]
    /\ copy \in [Proc -> Read \cup {Absent}]
    /\ made \in [Proc -> 0..MaxEdits]
    /\ born \subseteq Id
    /\ acked \in [Id -> SUBSET Edit]

Init ==
    /\ file = [i \in Id |-> Absent]
    /\ legacy = Legacy
    /\ inside = [i \in Id |-> {}]
    /\ pc = [p \in Proc |-> "idle"]
    /\ target \in [Proc -> Id]
    /\ work = [p \in Proc |-> Absent]
    /\ kept = [p \in Proc |-> {}]
    /\ copy = [p \in Proc |-> Absent]
    /\ made = [p \in Proc |-> 0]
    /\ born = Legacy
    /\ acked = NoEdits

Goto(p, s) == pc' = [pc EXCEPT ![p] = s]
Unlock(p) == inside' = [inside EXCEPT ![target[p]] = @ \ {p}]
Lock(p) == /\ inside[target[p]] = {}
           /\ inside' = [inside EXCEPT ![target[p]] = {p}]

\* What get(id) finds: the procedure's own file, else its legacy entry,
\* which never has a revision.
Found(i) == IF file[i] # Absent THEN file[i] ELSE [rev |-> 0, edits |-> {}]
Visible(i) == file[i] # Absent \/ i \in legacy

\* A fresh change by p, made to e.
MayEdit(p) == made[p] < MaxEdits
----------------------------------------------------------------------------
\* get, list, all: read from disk on every call, no lock.
Get(p, i) ==
    /\ pc[p] = "idle" /\ Visible(i)
    /\ copy' = [copy EXCEPT ![p] = [id |-> i, rev |-> Found(i).rev, edits |-> Found(i).edits]]
    /\ UNCHANGED <<disk, inside, pc, target, work, made, born, acked, kept>>

\* A fresh compile: a new id (it hashes the creation time), no revision.
Compile(p, i) ==
    /\ pc[p] = "idle" /\ i \notin born
    /\ born' = born \cup {i}
    /\ copy' = [copy EXCEPT ![p] = [id |-> i, rev |-> 0, edits |-> {}]]
    /\ UNCHANGED <<disk, inside, pc, target, work, made, acked, kept>>

\* update(id, fn): locate, which sees files only, then lock.
UpdateCall(p, i) ==
    /\ pc[p] = "idle" /\ file[i] # Absent
    /\ target' = [target EXCEPT ![p] = i]
    /\ Goto(p, "update")
    /\ UNCHANGED <<disk, inside, work, copy, made, born, acked, kept>>

UpdateLock(p) ==
    /\ pc[p] = "update" /\ Lock(p)
    /\ Goto(p, "updating")
    /\ UNCHANGED <<disk, local, acked>>

\* The change is one more edit of this process's.
Edited(p, e) == e \cup {<<p, made[p] + 1>>}
CountEdit(p) == made' = [made EXCEPT ![p] = @ + 1]

\* The re-read inside the lock; a deleted procedure is not updated.
UpdateRead(p) ==
    /\ pc[p] = "updating"
    /\ IF file[target[p]] = Absent
         THEN Unlock(p) /\ Goto(p, "idle") /\ UNCHANGED work
         ELSE /\ work' = [work EXCEPT ![p] = file[target[p]]]
              /\ Goto(p, "updateWrite") /\ UNCHANGED inside
    /\ UNCHANGED <<disk, target, copy, made, born, acked, kept>>

\* Bug variant: update leaves the revision as it read it.
UpdateKeepsRevision(p) ==
    /\ pc[p] = "updateWrite" /\ MayEdit(p)
    /\ LET new == [rev |-> work[p].rev, edits |-> Edited(p, work[p].edits)]
       IN  file' = [file EXCEPT ![target[p]] = new]
    /\ CountEdit(p)
    /\ acked' = [acked EXCEPT ![target[p]] = Edited(p, @)]
    /\ work' = [work EXCEPT ![p] = Absent]
    /\ Unlock(p) /\ Goto(p, "idle")
    /\ UNCHANGED <<legacy, target, copy, born, kept>>

\* fn applied to what was read, revision + 1, renamed over the file.
UpdateWrite(p) ==
    /\ pc[p] = "updateWrite" /\ MayEdit(p)
    /\ LET new == [rev |-> work[p].rev + 1, edits |-> Edited(p, work[p].edits)]
       IN  file' = [file EXCEPT ![target[p]] = new]
    /\ CountEdit(p)
    /\ acked' = [acked EXCEPT ![target[p]] = Edited(p, @)]
    /\ work' = [work EXCEPT ![p] = Absent]
    /\ Unlock(p) /\ Goto(p, "idle")
    /\ UNCHANGED <<legacy, target, copy, born, kept>>

\* put(skill): the caller changed the object it holds and writes it back.
PutCall(p) ==
    /\ pc[p] = "idle" /\ copy[p] # Absent /\ MayEdit(p)
    /\ copy' = [copy EXCEPT ![p].edits = Edited(p, @)]
    /\ CountEdit(p)
    /\ target' = [target EXCEPT ![p] = copy[p].id]
    /\ Goto(p, "put")
    /\ UNCHANGED <<disk, inside, work, born, acked, kept>>

PutLock(p) ==
    /\ pc[p] = "put" /\ Lock(p)
    /\ Goto(p, "putting")
    /\ UNCHANGED <<disk, local, acked>>

\* Bug variant: last writer wins.
NeverStale(p, current) == FALSE

\* Compare-and-set, where both sides carry a revision.  The one caller that
\* asks for none of it (opts.overwrite) fills a store of its own, still empty.
Stale(p, current) == current # Absent /\ copy[p].rev # 0 /\ current.rev # copy[p].rev

PutRead(p) ==
    /\ pc[p] = "putting"
    /\ IF Stale(p, file[target[p]])
         THEN /\ copy' = [copy EXCEPT ![p] = Absent]
              /\ Unlock(p) /\ Goto(p, "idle") /\ UNCHANGED work
         ELSE /\ work' = [work EXCEPT ![p] = file[target[p]]]
              /\ Goto(p, "putWrite") /\ UNCHANGED <<copy, inside>>
    /\ UNCHANGED <<disk, target, made, born, acked, kept>>

\* Bug variant: the revision after the copy's own, whatever is on disk.
NextRevOfCopy(p) == copy[p].rev + 1

\* The revision after what is on disk, or after the copy's own.
NextRev(p) == (IF work[p] # Absent THEN work[p].rev ELSE copy[p].rev) + 1

\* Nothing revisioned is there: the caller is authoring, and what the
\* object holds is what is promised from now on.
Authoring(p) == copy[p].rev = 0 /\ work[p] = Absent

PutWrite(p) ==
    /\ pc[p] = "putWrite"
    /\ file' = [file EXCEPT ![target[p]] = [rev |-> NextRev(p), edits |-> copy[p].edits]]
    /\ copy' = [copy EXCEPT ![p].rev = NextRev(p)]
    /\ acked' = [acked EXCEPT ![target[p]] = IF Authoring(p) THEN copy[p].edits ELSE @ \cup copy[p].edits]
    /\ work' = [work EXCEPT ![p] = Absent]
    /\ Unlock(p) /\ Goto(p, "idle")
    /\ UNCHANGED <<legacy, target, made, born, kept>>

\* The lock times out, fn or the write throws, or the process dies (the
\* lock it leaves is then taken over).  Nothing more is written.
Abort(p) ==
    /\ pc[p] # "idle"
    /\ Goto(p, "idle")
    /\ copy' = [copy EXCEPT ![p] = Absent]
    /\ work' = [work EXCEPT ![p] = Absent]
    /\ kept' = [kept EXCEPT ![p] = {}]
    /\ Unlock(p)
    /\ UNCHANGED <<disk, target, made, born, acked>>

----------------------------------------------------------------------------
\* remove(id), and clear(origin) for each procedure it lists: no lock.
RemoveCall(p, i) ==
    /\ pc[p] = "idle" /\ i \in Removable /\ Visible(i)
    /\ target' = [target EXCEPT ![p] = i]
    /\ Goto(p, "remove")
    /\ UNCHANGED <<disk, inside, work, copy, made, born, acked, kept>>

RemoveFile(p) ==
    /\ pc[p] = "remove"
    /\ file' = [file EXCEPT ![target[p]] = Absent]
    /\ acked' = [acked EXCEPT ![target[p]] = {}]
    /\ Goto(p, "dropRead")
    /\ UNCHANGED <<legacy, inside, local>>

\* dropLegacy reads the whole legacy file ...
DropRead(p) ==
    /\ pc[p] = "dropRead"
    /\ IF target[p] \in legacy
         THEN kept' = [kept EXCEPT ![p] = legacy] /\ Goto(p, "dropWrite")
         ELSE UNCHANGED kept /\ Goto(p, "idle")
    /\ UNCHANGED <<disk, inside, target, work, copy, made, born, acked>>

\* ... and writes what it kept over whatever is there now.
DropWrite(p) ==
    /\ pc[p] = "dropWrite"
    /\ legacy' = kept[p] \ {target[p]}
    /\ kept' = [kept EXCEPT ![p] = {}]
    /\ Goto(p, "idle")
    /\ UNCHANGED <<file, inside, target, work, copy, made, born, acked>>

Next ==
    \E p \in Proc :
      \/ \E i \in Id : Get(p, i) \/ Compile(p, i) \/ UpdateCall(p, i) \/ RemoveCall(p, i)
      \/ UpdateLock(p) \/ UpdateRead(p) \/ UpdateWrite(p)
      \/ PutCall(p) \/ PutLock(p) \/ PutRead(p) \/ PutWrite(p)
      \/ Abort(p)
      \/ RemoveFile(p) \/ DropRead(p) \/ DropWrite(p)

Spec == Init /\ [][Next]_vars

----------------------------------------------------------------------------
\* Procedures with a file of their own that nobody removes: a legacy entry has
\* no revision to compare, and remove takes no lock.
Plain == Id \ (Legacy \cup Removable)

\* Two versions of a procedure that carry the same revision say the same:
\* what the compare-and-set of put relies on.
Versions(i) ==
    {file[i]} \cup {[rev |-> copy[p].rev, edits |-> copy[p].edits] :
                      p \in {q \in Proc : copy[q] # Absent /\ copy[q].id = i /\ pc[q] = "idle"}}

RevisionIdentifies ==
    \A i \in Plain : \A v, w \in Versions(i) \ {Absent} :
        v.rev # 0 /\ v.rev = w.rev => v.edits = w.edits

\* An edit a returned update or put promised stays in the file: neither a
\* stale put nor another process's read-modify-write loses it (recordOutcome's
\* counters, promotion).
NoLostUpdate == \A i \in Plain : file[i] # Absent => acked[i] \subseteq file[i].edits

\* A file's revision goes up by one at every write, so a writer that read
\* an older one can be told.
RevisionGrows ==
    [][\A i \in Id : file[i] # Absent /\ file'[i] # Absent /\ file'[i] # file[i]
                       => file'[i].rev = file[i].rev + 1]_vars
=============================================================================
