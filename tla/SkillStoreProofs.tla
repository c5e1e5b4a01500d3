-------------------------- MODULE SkillStoreProofs --------------------------
(***************************************************************************)
(* The store loses no update to a procedure that is not removed and did    *)
(* not start out in a legacy file (of one that is or did, TLC finds an     *)
(* update lost), for any number of processes, procedures and edits.  The   *)
(* argument: inside a file's lock what was read is still what is on disk,  *)
(* unless it was removed (Sections), and an object that carries the disk's *)
(* revision contains every edit the disk does (Covers), which is what      *)
(* makes put's compare-and-set safe.                                       *)
(***************************************************************************)
EXTENDS SkillStore, TLAPS

Content(i) == IF file[i] = Absent THEN {} ELSE file[i].edits

PutStates == {"put", "putting", "putWrite"}

\* The lock discipline, and the disk as the holder of the lock read it.
Sections ==
    \A p \in Proc :
      /\ pc[p] \in {"updating", "updateWrite", "putting", "putWrite"} => inside[target[p]] = {p}
      /\ pc[p] = "updateWrite" => work[p] # Absent
      /\ pc[p] = "putWrite" => ~Stale(p, work[p])
      /\ pc[p] \in {"updateWrite", "putWrite"} =>
           /\ file[target[p]] \in {work[p], Absent}
           /\ target[p] \in Plain => file[target[p]] = work[p]
      /\ pc[p] \in PutStates => copy[p] # Absent /\ copy[p].id = target[p]
      /\ pc[p] \in {"remove", "dropRead", "dropWrite"} => target[p] \in Removable

\* The legacy file holds nothing but what it started with.
LegacyOnly == legacy \subseteq Legacy /\ \A p \in Proc : kept[p] \subseteq Legacy

\* An object with no revision is a fresh compile only its maker holds; any
\* other is of the disk's revision, and contains it, or of an older one.
Covers ==
    /\ \A i \in Plain : file[i] # Absent => i \in born /\ file[i].rev > 0
    /\ \A p \in Proc : copy[p] # Absent /\ copy[p].id \in Plain =>
         /\ copy[p].id \in born
         /\ copy[p].rev = 0 => file[copy[p].id] = Absent
         /\ copy[p].rev > 0 => /\ file[copy[p].id] # Absent
                               /\ copy[p].rev <= file[copy[p].id].rev
                               /\ copy[p].rev = file[copy[p].id].rev
                                    => file[copy[p].id].edits \subseteq copy[p].edits
    /\ \A p, q \in Proc : copy[p] # Absent /\ copy[q] # Absent /\ p # q /\ copy[p].id \in Plain
                            /\ copy[p].rev = 0 /\ copy[q].rev = 0 => copy[p].id # copy[q].id

Kept == \A i \in Plain : acked[i] \subseteq Content(i)

Core == TypeOK /\ Sections /\ Covers /\ Kept
StoreInv == Core /\ LegacyOnly

\* Edited and the counters stay within their types.
LEMMA EditedType ==
  ASSUME TypeOK, NEW p \in Proc, MayEdit(p), NEW e \in SUBSET Edit
  PROVE  /\ Edited(p, e) \in SUBSET Edit
         /\ e \subseteq Edited(p, e)
         /\ made[p] + 1 \in 0..MaxEdits
  BY EditsAssumption DEF TypeOK, MayEdit, Edited, Edit

\* The legacy file is rewritten only from what was read of it.
LEMMA LegacyStep == ASSUME LegacyOnly, TypeOK, [Next]_vars PROVE LegacyOnly'
<1> USE DEF LegacyOnly, TypeOK, disk, local
<1>1. CASE UNCHANGED vars
  BY <1>1 DEF vars
<1>2. ASSUME NEW p \in Proc, NEW i \in Id, Get(p, i) \/ Compile(p, i) \/ UpdateCall(p, i) \/ RemoveCall(p, i)
      PROVE  LegacyOnly'
  BY <1>2 DEF Get, Compile, UpdateCall, RemoveCall
<1>3. ASSUME NEW p \in Proc, UpdateLock(p) \/ UpdateRead(p) \/ UpdateWrite(p) PROVE LegacyOnly'
  BY <1>3 DEF UpdateLock, UpdateRead, UpdateWrite
<1>4. ASSUME NEW p \in Proc, PutCall(p) \/ PutLock(p) \/ PutRead(p) \/ PutWrite(p) PROVE LegacyOnly'
  BY <1>4 DEF PutCall, PutLock, PutRead, PutWrite
<1>5. ASSUME NEW p \in Proc, Abort(p) \/ RemoveFile(p) PROVE LegacyOnly'
  BY <1>5 DEF Abort, RemoveFile
<1>6. ASSUME NEW p \in Proc, DropRead(p) PROVE LegacyOnly'
  BY <1>6 DEF DropRead
<1>7. ASSUME NEW p \in Proc, DropWrite(p) PROVE LegacyOnly'
  BY <1>7 DEF DropWrite
<1> QED
  BY <1>1, <1>2, <1>3, <1>4, <1>5, <1>6, <1>7 DEF Next

LEMMA StoreInit == Init => StoreInv
  BY EditsAssumption, LegacyAssumption DEF Init, StoreInv, Core, TypeOK, Sections, LegacyOnly, Plain, Covers, Kept, Content, NoEdits, PutStates, Read, Version

----------------------------------------------------------------------------
LEMMA GetStep == ASSUME StoreInv, NEW p \in Proc, NEW i \in Id, Get(p, i) PROVE Core'
<1> USE DEF Get, StoreInv, Core, TypeOK, disk
<1> DEFINE c == [id |-> i, rev |-> Found(i).rev, edits |-> Found(i).edits]
<1>1. i \in Plain => file[i] # Absent /\ file[i].rev > 0
  BY DEF Covers, Visible, LegacyOnly, Plain
<1>2. Found(i) \in Version /\ (file[i] # Absent => Found(i) = file[i])
  BY DEF Found, Version
<1>3. copy' = [copy EXCEPT ![p] = c] /\ c \in Read /\ c # Absent
  BY <1>2, AbsentAssumption DEF Read, Version
<1>4. TypeOK'
  BY <1>3
<1>5. Sections'
  BY <1>3 DEF Sections, PutStates, Stale
<1>6. Covers'
  BY <1>1, <1>2, <1>3 DEF Covers, Read, Version
<1>7. Kept'
  BY DEF Kept, Content
<1> QED
  BY <1>4, <1>5, <1>6, <1>7

LEMMA CompileStep == ASSUME StoreInv, NEW p \in Proc, NEW i \in Id, Compile(p, i) PROVE Core'
<1> USE DEF Compile, StoreInv, Core, TypeOK, disk
<1> DEFINE c == [id |-> i, rev |-> 0, edits |-> {}]
<1>1. c \in Read /\ c # Absent
  BY AbsentAssumption DEF Read
<1>2. TypeOK'
  BY <1>1
<1>3. Sections'
  BY <1>1 DEF Sections, PutStates, Stale
<1>4. Covers'
  BY <1>1 DEF Covers, Read, Version
<1>5. Kept'
  BY DEF Kept, Content
<1> QED
  BY <1>2, <1>3, <1>4, <1>5

\* Calls, lock acquisitions and the refusals that write nothing.
LEMMA QuietStep ==
  ASSUME StoreInv, NEW p \in Proc,
         \/ \E i \in Id : UpdateCall(p, i) \/ RemoveCall(p, i)
         \/ UpdateLock(p) \/ UpdateRead(p) \/ PutLock(p) \/ PutRead(p) \/ Abort(p)
  PROVE  Core'
<1> USE DEF StoreInv, Core, TypeOK, disk, local, Goto, Lock, Unlock
<1>1. ASSUME NEW i \in Id, UpdateCall(p, i) PROVE Core'
  <2>1. TypeOK' BY <1>1 DEF UpdateCall
  <2>2. Sections' BY <1>1 DEF UpdateCall, Sections, PutStates, Stale
  <2>3. Covers' /\ Kept' BY <1>1 DEF UpdateCall, Covers, Kept, Content
  <2> QED BY <2>1, <2>2, <2>3
<1>2. ASSUME NEW i \in Id, RemoveCall(p, i) PROVE Core'
  <2>1. TypeOK' BY <1>2 DEF RemoveCall
  <2>2. Sections' BY <1>2 DEF RemoveCall, Sections, PutStates, Stale
  <2>3. Covers' /\ Kept' BY <1>2 DEF RemoveCall, Covers, Kept, Content
  <2> QED BY <2>1, <2>2, <2>3
<1>3. CASE UpdateLock(p) \/ PutLock(p)
  <2>1. TypeOK' BY <1>3 DEF UpdateLock, PutLock
  <2>2. Sections'
    <3>1. \A q \in Proc : pc[q] \in {"updating", "updateWrite", "putting", "putWrite"}
                           => target[q] # target[p]
      BY <1>3 DEF UpdateLock, PutLock, Sections
    <3>2. /\ UNCHANGED <<file, work, copy, target>>
          /\ inside' = [inside EXCEPT ![target[p]] = {p}]
          /\ \/ pc[p] = "update" /\ pc' = [pc EXCEPT ![p] = "updating"]
             \/ pc[p] = "put" /\ pc' = [pc EXCEPT ![p] = "putting"]
      BY <1>3 DEF UpdateLock, PutLock
    <3>3. \A q \in Proc \ {p} : pc'[q] = pc[q] /\ target'[q] \in Id
      BY <3>2
    <3>4. pc'[p] \in {"updating", "putting"} /\ inside'[target'[p]] = {p}
          /\ (pc'[p] = "putting" => copy'[p] # Absent /\ copy'[p].id = target'[p])
      BY <3>2 DEF Sections, PutStates
    <3> QED
      BY <3>1, <3>2, <3>3, <3>4 DEF Sections, PutStates, Stale
  <2>3. Covers' /\ Kept' BY <1>3 DEF UpdateLock, PutLock, Covers, Kept, Content
  <2> QED BY <2>1, <2>2, <2>3
<1>4. CASE UpdateRead(p)
  <2>1. TypeOK' BY <1>4 DEF UpdateRead
  <2>2. Sections' BY <1>4 DEF UpdateRead, Sections, PutStates, Stale
  <2>3. Covers' /\ Kept' BY <1>4 DEF UpdateRead, Covers, Kept, Content
  <2> QED BY <2>1, <2>2, <2>3
<1>5. CASE PutRead(p)
  <2>1. TypeOK' BY <1>5 DEF PutRead
  <2>2. Sections' BY <1>5 DEF PutRead, Sections, PutStates, Stale
  <2>3. Covers' BY <1>5 DEF PutRead, Covers
  <2>4. Kept' BY <1>5 DEF PutRead, Kept, Content
  <2> QED BY <2>1, <2>2, <2>3, <2>4
<1>6. CASE Abort(p)
  <2>1. TypeOK' BY <1>6 DEF Abort
  <2>2. Sections' BY <1>6 DEF Abort, Sections, PutStates, Stale
  <2>3. Covers' BY <1>6 DEF Abort, Covers
  <2>4. Kept' BY <1>6 DEF Abort, Kept, Content
  <2> QED BY <2>1, <2>2, <2>3, <2>4
<1> QED
  BY <1>1, <1>2, <1>3, <1>4, <1>5, <1>6 

\* The caller edits the object it holds: it still contains what it did.
LEMMA PutCallStep == ASSUME StoreInv, NEW p \in Proc, PutCall(p) PROVE Core'
<1> USE DEF PutCall, StoreInv, Core, TypeOK, disk, Goto
<1> DEFINE c == [copy[p] EXCEPT !.edits = Edited(p, copy[p].edits)]
<1>1. copy[p] \in Read /\ copy[p] # Absent
  OBVIOUS
<1>2. Edited(p, copy[p].edits) \in SUBSET Edit /\ copy[p].edits \subseteq Edited(p, copy[p].edits)
      /\ made[p] + 1 \in 0..MaxEdits
  BY <1>1, EditedType DEF Read
<1>3. c \in Read /\ c # Absent /\ c.id = copy[p].id /\ c.rev = copy[p].rev
      /\ copy[p].edits \subseteq c.edits /\ copy' = [copy EXCEPT ![p] = c]
  BY <1>1, <1>2, AbsentAssumption DEF Read
<1>4. TypeOK'
  BY <1>1, <1>2, <1>3 DEF CountEdit, Read
<1>5. Sections'
  BY <1>1, <1>3 DEF Sections, PutStates, Stale
<1>6. Covers'
  BY <1>1, <1>3 DEF Covers
<1>7. Kept'
  BY DEF Kept, Content
<1> QED
  BY <1>4, <1>5, <1>6, <1>7

\* The write that ends a section leaves the other sections as they were.
LEMMA LeaveSection ==
  ASSUME TypeOK, Sections, NEW p \in Proc, pc[p] \in {"updateWrite", "putWrite"},
         target' = target,
         pc' = [pc EXCEPT ![p] = "idle"],
         inside' = [inside EXCEPT ![target[p]] = @ \ {p}],
         \A i \in Id \ {target[p]} : file'[i] = file[i],
         \A q \in Proc \ {p} : work'[q] = work[q] /\ copy'[q] = copy[q]
  PROVE  Sections'
<1>1. ASSUME NEW q \in Proc \ {p}, pc[q] \in {"updating", "updateWrite", "putting", "putWrite"}
      PROVE  target[q] # target[p] /\ file'[target[q]] = file[target[q]]
                                  /\ inside'[target[q]] = inside[target[q]]
  <2>1. inside[target[q]] = {q} /\ inside[target[p]] = {p}
    BY <1>1 DEF Sections
  <2>2. target[q] # target[p] /\ target[q] \in Id
    BY <2>1 DEF TypeOK
  <2> QED
    BY <2>2 DEF TypeOK
<1>2. pc'[p] = "idle" /\ \A q \in Proc \ {p} : pc'[q] = pc[q]
  BY DEF TypeOK
<1> QED
  BY <1>1, <1>2 DEF Sections, PutStates, Stale

\* What update writes extends what is on disk by one edit and one revision.
LEMMA UpdateWriteStep == ASSUME StoreInv, NEW p \in Proc, UpdateWrite(p) PROVE Core'
<1> USE DEF UpdateWrite, StoreInv, Core, TypeOK, Goto, Unlock
<1> DEFINE i == target[p]
           v == [rev |-> work[p].rev + 1, edits |-> Edited(p, work[p].edits)]
<1>1. work[p] # Absent /\ work[p] \in Version /\ inside[i] = {p} /\ (i \in Plain => file[i] = work[p])
  BY DEF Sections
<1>2. Edited(p, work[p].edits) \in SUBSET Edit /\ work[p].edits \subseteq Edited(p, work[p].edits)
      /\ made[p] + 1 \in 0..MaxEdits
  BY <1>1, EditedType DEF Version
<1>3. v \in Version /\ v # Absent /\ file' = [file EXCEPT ![i] = v] /\ work[p].rev \in Nat
  BY <1>1, <1>2, AbsentAssumption DEF Version
<1>4. Edited(p, acked[i]) \in SUBSET Edit /\ (i \in Plain => Edited(p, acked[i]) \subseteq v.edits)
  BY <1>1, <1>2, <1>3, EditsAssumption DEF Kept, Content, Edited, Edit
<1>5. TypeOK'
  BY <1>2, <1>3, <1>4 DEF CountEdit, Version
<1>6. Sections'
  BY <1>3, LeaveSection
<1>7. Covers'
  BY <1>1, <1>3 DEF Covers, Read
<1>8. Kept'
  BY <1>1, <1>3, <1>4 DEF Kept, Content, Plain
<1> QED
  BY <1>5, <1>6, <1>7, <1>8

\* What put writes contains what is on disk, and carries the next revision.
LEMMA PutWriteStep == ASSUME StoreInv, NEW p \in Proc, PutWrite(p) PROVE Core'
<1> USE DEF PutWrite, StoreInv, Core, TypeOK, Goto, Unlock
<1> DEFINE i == target[p]
           v == [rev |-> NextRev(p), edits |-> copy[p].edits]
           c == [copy[p] EXCEPT !.rev = NextRev(p)]
<1>1. /\ copy[p] \in Read /\ copy[p] # Absent /\ copy[p].id = i /\ inside[i] = {p}
      /\ work[p] \in Version \cup {Absent} /\ (i \in Plain => file[i] = work[p])
      /\ ~(work[p] # Absent /\ copy[p].rev # 0 /\ work[p].rev # copy[p].rev)
  BY DEF Sections, PutStates, Stale
<1>2. copy[p].rev \in Nat /\ copy[p].edits \in SUBSET Edit
  BY <1>1 DEF Read
<1>3. ASSUME i \in Plain
      PROVE  /\ file[i] = Absent => copy[p].rev = 0 /\ NextRev(p) = 1
             /\ file[i] # Absent => /\ NextRev(p) = file[i].rev + 1
                                    /\ file[i].rev \in Nat
                                    /\ copy[p].rev = file[i].rev
  BY <1>1, <1>2, <1>3 DEF Covers, NextRev, Version
<1>4. i \in Plain => Content(i) \subseteq copy[p].edits
  BY <1>1, <1>2, <1>3 DEF Content, Covers, Version
<1>5. NextRev(p) \in Nat /\ NextRev(p) > 0
  BY <1>1, <1>2 DEF NextRev, Version
<1>6. v \in Version /\ v # Absent /\ file' = [file EXCEPT ![i] = v]
  BY <1>2, <1>5, AbsentAssumption DEF Version
<1>7. c \in Read /\ c # Absent /\ c.id = i /\ c.rev = NextRev(p) /\ c.edits = copy[p].edits
      /\ copy' = [copy EXCEPT ![p] = c]
  BY <1>1, <1>5, AbsentAssumption DEF Read
<1>8. (i \in Plain => acked'[i] \subseteq copy[p].edits) /\ acked' \in [Id -> SUBSET Edit]
      /\ \A j \in Id \ {i} : acked'[j] = acked[j]
  BY <1>2, <1>4 DEF Kept
<1>9. TypeOK'
  BY <1>6, <1>7, <1>8
<1>10. Sections'
  BY <1>6, <1>7, LeaveSection
<1>11. Covers'
  <2>1. \A q \in Proc \ {p} : copy'[q] = copy[q]
    BY <1>7
  <2>2. ASSUME NEW q \in Proc \ {p}, copy[q] # Absent, copy[q].id = i, i \in Plain
        PROVE  copy[q].rev > 0 /\ copy[q].rev < NextRev(p)
    BY <1>1, <1>2, <1>3, <2>2 DEF Covers, Read
  <2>3. i \in Plain => i \in born
    BY <1>1 DEF Covers
  <2>4. \A j \in Plain : file'[j] # Absent => j \in born' /\ file'[j].rev > 0
    BY <1>5, <1>6, <2>3 DEF Covers, Plain
  <2>5. copy'[p].id = i /\ copy'[p].rev = v.rev /\ file'[i].edits = copy'[p].edits
    BY <1>6, <1>7
  <2>6. \A q \in Proc : copy'[q] # Absent /\ copy'[q].id \in Plain =>
         /\ copy'[q].id \in born'
         /\ copy'[q].rev = 0 => file'[copy'[q].id] = Absent
         /\ copy'[q].rev > 0 => /\ file'[copy'[q].id] # Absent
                                /\ copy'[q].rev <= file'[copy'[q].id].rev
                                /\ copy'[q].rev = file'[copy'[q].id].rev
                                     => file'[copy'[q].id].edits \subseteq copy'[q].edits
    <3> TAKE q \in Proc
    <3>1. CASE q = p
      BY <3>1, <2>3, <2>5, <1>5, <1>6
    <3>2. CASE q # p /\ copy[q].id = i
      BY <3>2, <2>1, <2>2, <2>3, <1>5, <1>6 DEF Read
    <3>3. CASE q # p /\ copy[q].id # i
      BY <3>3, <2>1, <1>6 DEF Covers, Read
    <3> QED
      BY <3>1, <3>2, <3>3
  <2>7. \A q, r \in Proc : copy'[q] # Absent /\ copy'[r] # Absent /\ q # r /\ copy'[q].id \in Plain
                            /\ copy'[q].rev = 0 /\ copy'[r].rev = 0 => copy'[q].id # copy'[r].id
    BY <2>1, <2>5, <1>5 DEF Covers
  <2> QED
    BY <2>4, <2>6, <2>7 DEF Covers
<1>12. Kept'
  BY <1>6, <1>8 DEF Kept, Content, Plain
<1> QED
  BY <1>9, <1>10, <1>11, <1>12

\* A removal is never of a plain procedure; a section it cuts into sees the
\* file gone.
LEMMA RemovalStep ==
  ASSUME StoreInv, NEW p \in Proc, RemoveFile(p) \/ DropRead(p) \/ DropWrite(p)
  PROVE  Core'
<1> USE DEF StoreInv, Core, TypeOK, Goto, disk, local
<1>1. target[p] \in Removable /\ target[p] \notin Plain
  BY DEF Sections, Plain, RemoveFile, DropRead, DropWrite
<1>2. CASE RemoveFile(p)
  <2>1. TypeOK' BY <1>2 DEF RemoveFile
  <2>2. Sections' BY <1>1, <1>2 DEF RemoveFile, Sections, PutStates, Stale
  <2>3. Covers' /\ Kept' BY <1>1, <1>2 DEF RemoveFile, Covers, Kept, Content, Plain, Read
  <2> QED BY <2>1, <2>2, <2>3
<1>3. CASE DropRead(p)
  <2>1. TypeOK' BY <1>3 DEF DropRead
  <2>2. Sections' BY <1>3 DEF DropRead, Sections, PutStates, Stale
  <2>3. Covers' /\ Kept' BY <1>3 DEF DropRead, Covers, Kept, Content
  <2> QED BY <2>1, <2>2, <2>3
<1>4. CASE DropWrite(p)
  <2>1. TypeOK' BY <1>4 DEF DropWrite
  <2>2. Sections' BY <1>4 DEF DropWrite, Sections, PutStates, Stale
  <2>3. Covers' /\ Kept' BY <1>4 DEF DropWrite, Covers, Kept, Content
  <2> QED BY <2>1, <2>2, <2>3
<1> QED
  BY <1>2, <1>3, <1>4

----------------------------------------------------------------------------
\* The invariant of the store.
LEMMA StoreInvHolds == Spec => []StoreInv
<1>1. Init => StoreInv
  BY StoreInit
<1>2. StoreInv /\ [Next]_vars => StoreInv'
  <2> SUFFICES ASSUME StoreInv, [Next]_vars PROVE Core'
    BY LegacyStep DEF StoreInv, Core
  <2>1. CASE UNCHANGED vars
    <3>1. TypeOK' BY <2>1 DEF vars, StoreInv, Core, TypeOK
    <3>2. Sections' BY <2>1 DEF vars, StoreInv, Core, Sections, Stale
    <3>3. Covers' /\ Kept' BY <2>1 DEF vars, StoreInv, Core, Covers, Kept, Content
    <3> QED BY <3>1, <3>2, <3>3 DEF Core
  <2> QED
    BY <2>1, GetStep, CompileStep, QuietStep, PutCallStep, UpdateWriteStep, PutWriteStep, RemovalStep DEF Next
<1> QED
  BY <1>1, <1>2, PTL DEF Spec

\* No edit that update or put promised is ever lost.
THEOREM NothingLost == Spec => []NoLostUpdate
<1>1. StoreInv => NoLostUpdate
  BY DEF StoreInv, Core, Kept, Content, NoLostUpdate
<1> QED
  BY <1>1, StoreInvHolds, PTL

\* Every write raises the revision by one, so put's check can see it.
THEOREM RevisionsGrow == Spec => RevisionGrows
<1> DEFINE Grows == \A i \in Id : file[i] # Absent /\ file'[i] # Absent /\ file'[i] # file[i]
                                    => file'[i].rev = file[i].rev + 1
<1>1. StoreInv /\ [Next]_vars => [Grows]_vars
  <2> SUFFICES ASSUME StoreInv, Next PROVE Grows
    BY DEF vars
  <2> USE DEF StoreInv, Core, TypeOK
  <2>1. PICK p \in Proc :
          \/ UpdateWrite(p) \/ PutWrite(p) \/ RemoveFile(p)
          \/ file' = file
    BY DEF Next, Get, Compile, UpdateCall, RemoveCall, UpdateLock, UpdateRead, PutCall,
           PutLock, PutRead, Abort, DropRead, DropWrite, disk
  <2>2. CASE UpdateWrite(p)
    BY <2>2 DEF UpdateWrite, Sections
  <2>3. CASE PutWrite(p)
    BY <2>3 DEF PutWrite, Sections, NextRev
  <2>4. CASE RemoveFile(p)
    BY <2>4 DEF RemoveFile
  <2> QED
    BY <2>1, <2>2, <2>3, <2>4
<1> QED
  BY <1>1, StoreInvHolds, PTL DEF Spec, RevisionGrows

----------------------------------------------------------------------------
\* An object nobody changed since it was read or written.
Own(p) == copy[p] # Absent /\ copy[p].id \in Plain /\ pc[p] \notin PutStates

\* Objects of one revision say the same, and what the file of that revision says.
Same ==
    \A p \in Proc : Own(p) /\ copy[p].rev # 0 =>
      /\ copy[p].rev = file[copy[p].id].rev => copy[p].edits = file[copy[p].id].edits
      /\ \A q \in Proc : Own(q) /\ copy[q].id = copy[p].id /\ copy[q].rev = copy[p].rev => copy[q].edits = copy[p].edits

\* An object read is the file's; the others of its revision agree with the file.
LEMMA SameGet == ASSUME StoreInv, Same, NEW p \in Proc, NEW i \in Id, Get(p, i) PROVE Same'
<1> USE DEF Get, StoreInv, Core, TypeOK, disk
<1> DEFINE c == [id |-> i, rev |-> Found(i).rev, edits |-> Found(i).edits]
<1>1. i \in Plain => file[i] # Absent /\ Found(i) = file[i]
  BY DEF Visible, LegacyOnly, Plain, Found
<1>2. copy'[p] = c /\ \A q \in Proc \ {p} : copy'[q] = copy[q]
  OBVIOUS
<1>3. pc' = pc /\ file' = file /\ pc[p] = "idle"
  OBVIOUS
<1> QED BY <1>1, <1>2, <1>3 DEF Same, Own, PutStates

\* A write makes a revision above every object's, and the writer's is the file.
LEMMA SameWrite == ASSUME StoreInv, Same, NEW p \in Proc, UpdateWrite(p) \/ PutWrite(p) PROVE Same'
<1> USE DEF StoreInv, Core, TypeOK, Goto
<1> DEFINE i == target[p]
<1>1. \A q \in Proc \ {p} : copy'[q] = copy[q] /\ pc'[q] = pc[q]
  BY DEF UpdateWrite, PutWrite
<1>2. \A j \in Id \ {i} : file'[j] = file[j]
  BY DEF UpdateWrite, PutWrite
<1>3. CASE UpdateWrite(p)
  <2>1. copy' = copy /\ pc[p] = "updateWrite" /\ pc' = [pc EXCEPT ![p] = "idle"]
    BY <1>3 DEF UpdateWrite
  <2>2. i \in Plain => file[i] # Absent /\ file[i] = work[p] /\ file'[i].rev = file[i].rev + 1 /\ file[i].rev \in Nat
    BY <1>3 DEF UpdateWrite, Sections, Version
  <2>3. \A q \in Proc : Own(q)' => Own(q)
    BY <2>1 DEF Own, PutStates
  <2>4. \A q \in Proc : Own(q) /\ copy[q].id = i => copy[q].rev # file'[i].rev
    BY <2>2 DEF Own, Covers, Read
  <2> QED BY <1>2, <2>1, <2>3, <2>4 DEF Same, Own, Read
<1>4. CASE PutWrite(p)
  <2>1. /\ copy[p] \in Read /\ copy[p].id = i /\ work[p] \in Version \cup {Absent}
        /\ (i \in Plain => file[i] = work[p]) /\ ~Stale(p, work[p])
    BY <1>4 DEF PutWrite, Sections, PutStates
  <2>2. copy'[p] = [copy[p] EXCEPT !.rev = NextRev(p)] /\ file'[i] = [rev |-> NextRev(p), edits |-> copy[p].edits]
    BY <1>4, <2>1 DEF PutWrite
  <2>3. copy'[p].id = i /\ copy'[p].rev = file'[i].rev /\ copy'[p].edits = file'[i].edits
    BY <2>1, <2>2 DEF Read
  <2>4. i \in Plain => \A q \in Proc \ {p} : Own(q) /\ copy[q].id = i /\ copy[q].rev # 0 => copy[q].rev # file'[i].rev
    <3> SUFFICES ASSUME i \in Plain, NEW q \in Proc \ {p}, Own(q), copy[q].id = i, copy[q].rev # 0
                 PROVE  copy[q].rev # file'[i].rev
      OBVIOUS
    <3>1. file[i] # Absent /\ file[i] \in Version /\ copy[q].rev <= file[i].rev /\ copy[q].rev \in Nat
      BY DEF Own, Covers, Read
    <3>2. file'[i].rev = file[i].rev + 1
      BY <2>1, <2>2, <3>1 DEF NextRev
    <3> QED BY <3>1, <3>2 DEF Version
  <2>5. \A q \in Proc \ {p} : Own(q)' => Own(q)
    BY <1>1 DEF Own
  <2> QED BY <1>1, <1>2, <2>3, <2>4, <2>5 DEF Same, Own, Read
<1> QED BY <1>3, <1>4

\* Nothing else writes a plain procedure or changes an object that is one's own.
LEMMA SameElse ==
  ASSUME StoreInv, Same, NEW p \in Proc,
         \/ \E i \in Id : Compile(p, i) \/ UpdateCall(p, i) \/ RemoveCall(p, i)
         \/ UpdateLock(p) \/ UpdateRead(p) \/ PutCall(p) \/ PutLock(p) \/ PutRead(p) \/ Abort(p)
         \/ RemoveFile(p) \/ DropRead(p) \/ DropWrite(p)
  PROVE  Same'
<1> USE DEF StoreInv, Core, TypeOK, disk, local, Goto
<1>1. \A i \in Plain : file'[i] = file[i]
  <2>1. RemoveFile(p) => target[p] \notin Plain
    BY DEF RemoveFile, Sections, Plain
  <2>2. RemoveFile(p) => \A i \in Plain : file'[i] = file[i]
    BY <2>1 DEF RemoveFile, Plain
  <2>3. ~RemoveFile(p) => file' = file
    BY DEF Compile, UpdateCall, RemoveCall, UpdateLock, UpdateRead, PutCall, PutLock, PutRead, Abort, DropRead, DropWrite
  <2> QED BY <2>2, <2>3
<1>2. \A q \in Proc : Own(q)' /\ copy'[q].rev # 0 => Own(q) /\ copy'[q] = copy[q]
  <2>1. CASE \E i \in Id : Compile(p, i)
    BY <2>1 DEF Compile, Own, PutStates
  <2>2. CASE \E i \in Id : UpdateCall(p, i) \/ RemoveCall(p, i)
    BY <2>2 DEF UpdateCall, RemoveCall, Own, PutStates
  <2>3. CASE UpdateLock(p) \/ UpdateRead(p)
    BY <2>3 DEF UpdateLock, UpdateRead, Own, PutStates
  <2>4. CASE PutCall(p)
    BY <2>4 DEF PutCall, Own, PutStates
  <2>5. CASE PutLock(p) \/ PutRead(p)
    BY <2>5 DEF PutLock, PutRead, Own, PutStates
  <2>6. CASE Abort(p)
    BY <2>6 DEF Abort, Own, PutStates
  <2>7. CASE RemoveFile(p) \/ DropRead(p) \/ DropWrite(p)
    BY <2>7 DEF RemoveFile, DropRead, DropWrite, Own, PutStates
  <2> QED BY <2>1, <2>2, <2>3, <2>4, <2>5, <2>6, <2>7
<1> QED BY <1>1, <1>2 DEF Same, Own

\* Two versions of a procedure that carry one revision say the same: the
\* revision is all that put needs to compare.
THEOREM RevisionsIdentify == Spec => []RevisionIdentifies
<1>1. Init => Same
  BY DEF Init, Same, Own
<1>2. StoreInv /\ Same /\ [Next]_vars => Same'
  <2> SUFFICES ASSUME StoreInv, Same, [Next]_vars PROVE Same'
    OBVIOUS
  <2>1. CASE UNCHANGED vars
    BY <2>1 DEF vars, Same, Own
  <2>2. CASE Next
    BY <2>2, SameGet, SameWrite, SameElse DEF Next
  <2> QED BY <2>1, <2>2
<1>3. StoreInv /\ Same => RevisionIdentifies
  <2> SUFFICES ASSUME StoreInv, Same, NEW i \in Plain, NEW v \in Versions(i) \ {Absent}, NEW w \in Versions(i) \ {Absent},
                      v.rev # 0, v.rev = w.rev
               PROVE  v.edits = w.edits
    BY DEF RevisionIdentifies
  <2>1. ASSUME NEW x \in Versions(i), x # file[i]
        PROVE  \E p \in Proc : Own(p) /\ copy[p].id = i /\ x.rev = copy[p].rev /\ x.edits = copy[p].edits
    BY <2>1 DEF Versions, Own, PutStates
  <2>2. CASE v = file[i] /\ w = file[i]
    BY <2>2
  <2>3. CASE v = file[i] /\ w # file[i]
    BY <2>1, <2>3 DEF Same
  <2>4. CASE v # file[i] /\ w = file[i]
    BY <2>1, <2>4 DEF Same
  <2>5. CASE v # file[i] /\ w # file[i]
    <3>1. PICK p \in Proc : Own(p) /\ copy[p].id = i /\ v.rev = copy[p].rev /\ v.edits = copy[p].edits
      BY <2>1, <2>5
    <3>2. PICK q \in Proc : Own(q) /\ copy[q].id = i /\ w.rev = copy[q].rev /\ w.edits = copy[q].edits
      BY <2>1, <2>5
    <3> QED BY <3>1, <3>2 DEF Same
  <2> QED BY <2>2, <2>3, <2>4, <2>5
<1> QED
  BY <1>1, <1>2, <1>3, StoreInvHolds, PTL DEF Spec
=============================================================================
