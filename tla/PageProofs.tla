----------------------------- MODULE PageProofs -----------------------------
(***************************************************************************)
(* What a replay does to its page: a folded loop does each record once and *)
(* says truly what it left, for any records, any body, any cap and         *)
(* whatever of them the body consumes; and a form filled step by step is   *)
(* sent as it was recorded, for any fields, recordings and number of       *)
(* reloads.                                                                *)
(***************************************************************************)
EXTENDS FoldedLoop, StandingFills, FiniteSetTheorems, SequenceTheorems, TLAPS

(* The folded loop                                                         *)

\* The records in the list that the body is done with.
Handled == {r \in shown : PassedFor(r)}
\* They are the first ones.
Front == \A x \in shown, y \in Handled : x < y => x \in Handled

InPass == pc \in {"observe", "body", "after", "recount", "shrink", "recheck"}
Acted == pc \in {"after", "recount", "shrink", "recheck"}

\* Where the loop is: a pass is under the cap, a count is of a rendered list.
Control ==
    /\ IsFiniteSet(shown)
    /\ InPass => iter < opts.max
    /\ pc \in {"observe", "recount", "shrink", "recheck", "budget", "coverage"} => rendered
    /\ pc = "top" /\ ~rendered => iter = 0
    /\ pc # "done" => outcome = None

\* Where a pass is in the body.
Places ==
    /\ pc = "body" => bstep < BodySteps
    /\ Acted => bstep = BodySteps
    /\ Acted /\ pc # "after" => prevSig = entries

\* What the first steps of a body pinned to the first row resolve.
Whole(steps) == {<<k, 0>> : k \in 1..steps}

\* A body pinned to the first row that left its record there repeats itself.
Pinned == opts.aim = "first" =>
    /\ pc = "body" \/ Acted => entries = Whole(bstep)
    /\ Acted => cursor = 0
    /\ ~Acted /\ pc # "done" /\ cursor > 0 => prevSig = Whole(BodySteps) /\ prevRemaining = Cardinality(shown)

\* Between passes nothing is leaving and the cursor counts the records handled;
\* after one, the record's row is there, is leaving, or is gone.
Calm ==
    /\ Front
    /\ ~Acted /\ pc # "done" => leaving = {} /\ Cardinality(Handled) = cursor
    /\ pc = "body" => remaining = Cardinality(shown) /\ cursor < Cardinality(shown)
    /\ pc = "coverage" => cursor >= Cardinality(shown)
    /\ Acted =>
         \/ remaining = Cardinality(shown) /\ Cardinality(Handled) = cursor + 1 /\ \E r \in Handled : leaving \subseteq {r}
         \/ remaining = Cardinality(shown) + 1 /\ Cardinality(Handled) = cursor /\ leaving = {}
    /\ pc = "recheck" => leaving = {}

\* A row leaves when its record was handled, and no other way.
Gone ==
    /\ \A r \in leaving : PassedFor(r)
    /\ ~upset => \A r \in Record : r \in shown \/ PassedFor(r)

LoopInv ==
    /\ LoopOK /\ Control /\ Places /\ Gone
    /\ ~upset => Calm /\ Pinned
----------------------------------------------------------------------------
\* TypeOK, in its parts.
Pc == {"top", "observe", "body", "after", "recount", "shrink", "recheck", "budget", "coverage", "done"}
Verdicts == [state : {"none", "complete", "partial", "unread", "stopped", "repeated", "unfinished", "aborted"},
             left : Nat \cup {-1}]
NumType ==
    /\ opts \in Options /\ iter \in 0..opts.max /\ cursor \in 0..iter
    /\ prevRemaining \in Nat \cup {-1} /\ remaining \in Nat
Found == (1..BodySteps) \X Nat
SeqType == prevSig \subseteq Found /\ entries \subseteq Found /\ bstep \in 0..BodySteps
FlagType == pc \in Pc /\ rendered \in BOOLEAN /\ aborted \in BOOLEAN /\ upset \in BOOLEAN
PageType == shown \subseteq Row /\ leaving \subseteq shown
ActType == again \subseteq acted /\ acted \subseteq (1..BodySteps) \X Row /\ skipped \subseteq Row

LEMMA TypeParts == TypeOK <=> NumType /\ SeqType /\ FlagType /\ PageType /\ ActType /\ outcome \in Verdicts
BY DEF TypeOK, NumType, SeqType, FlagType, PageType, ActType, Verdicts, Pc, Found

LEMMA Facts ==
    ASSUME TypeOK, Control
    PROVE  /\ opts.max \in Nat \ {0} /\ iter \in Nat /\ cursor \in Nat /\ cursor <= iter /\ iter <= opts.max
           /\ remaining \in Nat /\ BodySteps \in Nat \ {0} /\ bstep \in 0..BodySteps
           /\ shown \subseteq Nat /\ IsFiniteSet(shown) /\ Cardinality(shown) \in Nat
           /\ Count \in Nat /\ (rendered => Count = Cardinality(shown))
           /\ Handled \subseteq shown /\ IsFiniteSet(Handled) /\ Cardinality(Handled) \in Nat
           /\ Cardinality(Handled) <= Cardinality(shown)
           /\ (Cardinality(Handled) = Cardinality(shown) => Handled = shown)
           /\ Entry \in Nat /\ opts.aim \in {"cursor", "first"}
<1>1. NumType /\ PageType
  BY TypeParts
<1>2. opts.max \in Nat \ {0} /\ opts.aim \in {"cursor", "first"}
  BY <1>1, BoundAssumption DEF NumType, Options
<1>3. iter \in Nat /\ cursor \in Nat /\ cursor <= iter /\ iter <= opts.max /\ remaining \in Nat
  BY <1>1, <1>2 DEF NumType
<1>4. shown \subseteq Nat /\ IsFiniteSet(shown) /\ Cardinality(shown) \in Nat
  BY <1>1, RecordAssumption, FS_CardinalityType DEF PageType, Row, Control
<1>5. Count \in Nat /\ (rendered => Count = Cardinality(shown))
  BY <1>4 DEF Count
<1>6. Handled \subseteq shown
  BY DEF Handled
<1>7. /\ IsFiniteSet(Handled) /\ Cardinality(Handled) \in Nat /\ Cardinality(Handled) <= Cardinality(shown)
      /\ (Cardinality(Handled) = Cardinality(shown) => Handled = shown)
  BY <1>4, <1>6, FS_Subset, FS_CardinalityType
<1>8. bstep \in 0..BodySteps
  BY TypeParts DEF SeqType
<1> QED BY <1>2, <1>3, <1>4, <1>5, <1>6, <1>7, <1>8, BoundAssumption DEF Entry

\* The record at the place of the handled ones' number is the first not handled.
LEMMA NextRecord ==
    ASSUME IsFiniteSet(shown), shown \subseteq Nat, Front, NEW r \in At(Cardinality(Handled))
    PROVE  r \in shown /\ r \notin Handled /\ Handled = {x \in shown : x < r}
<1> DEFINE Below == {x \in shown : x < r}
<1>1. r \in shown /\ Cardinality(Below) = Cardinality(Handled)
  BY DEF At
<1>2. Handled \subseteq shown /\ IsFiniteSet(Handled) /\ IsFiniteSet(Below)
      /\ Cardinality(Handled) \in Nat /\ Cardinality(Below) \in Nat
  BY FS_Subset, FS_CardinalityType DEF Handled
<1>3. r \notin Handled
  <2> SUFFICES ASSUME r \in Handled PROVE FALSE
    OBVIOUS
  <2>1. Below \cup {r} \subseteq Handled
    BY DEF Front
  <2>2. Cardinality(Below \cup {r}) = Cardinality(Below) + 1
    <3>1. r \in Nat /\ r \notin Below
      BY <1>1
    <3> HIDE DEF Below
    <3> QED BY <1>2, <3>1, FS_AddElement
  <2>3. Cardinality(Below \cup {r}) <= Cardinality(Handled)
    BY <1>2, <2>1, FS_Subset
  <2> QED BY <1>1, <1>2, <2>2, <2>3
<1>4. Handled \subseteq Below
  BY <1>1, <1>2, <1>3 DEF Front
<1> QED BY <1>1, <1>2, <1>3, <1>4, FS_Subset

\* There is a record at every place under the number of rows.
LEMMA PlacesFilled ==
  ASSUME NEW S, S \subseteq Nat, IsFiniteSet(S), NEW i \in Nat, i < Cardinality(S)
  PROVE  \E r \in S : Cardinality({x \in S : x < r}) = i
<1> DEFINE Below(r) == {x \in S : x < r}
           place == [r \in S |-> Cardinality(Below(r))]
           size == Cardinality(S)
<1>0. size \in Nat
  BY FS_CardinalityType
<1>1. ASSUME NEW r \in S
      PROVE  IsFiniteSet(Below(r)) /\ Cardinality(Below(r)) \in Nat
             /\ Cardinality(Below(r) \cup {r}) = Cardinality(Below(r)) + 1 /\ IsFiniteSet(Below(r) \cup {r})
  <2>1. IsFiniteSet(Below(r)) /\ r \notin Below(r)
    BY FS_Subset
  <2> HIDE DEF Below
  <2> QED BY <2>1, FS_AddElement, FS_CardinalityType
<1>2. ASSUME NEW r \in S
      PROVE  Cardinality(Below(r)) \in 0..(size - 1)
  <2>1. Below(r) \cup {r} \subseteq S
    OBVIOUS
  <2>2. Cardinality(Below(r) \cup {r}) <= size
    BY <2>1, FS_Subset
  <2> HIDE DEF Below, size
  <2> QED BY <1>0, <1>1, <2>2
<1>3. ASSUME NEW r \in S, NEW s \in S, r < s
      PROVE  Cardinality(Below(r)) < Cardinality(Below(s))
  <2>1. Below(r) \cup {r} \subseteq Below(s)
    <3>1. r \in Nat /\ s \in Nat /\ \A x \in S : x \in Nat
      OBVIOUS
    <3>2. \A x \in S : x < r => x < s
      BY <1>3, <3>1
    <3> QED BY <1>3, <3>2
  <2>2. Cardinality(Below(r) \cup {r}) <= Cardinality(Below(s))
    BY <1>1, <2>1, FS_Subset
  <2>3. Cardinality(Below(r)) \in Nat /\ Cardinality(Below(s)) \in Nat /\ Cardinality(Below(r) \cup {r}) = Cardinality(Below(r)) + 1
    BY <1>1
  <2> HIDE DEF Below
  <2> QED BY <2>2, <2>3
<1>4. place \in [S -> 0..(size - 1)]
  BY <1>2
<1>5. \A r, s \in S : place[r] = place[s] => r = s
  <2> SUFFICES ASSUME NEW r \in S, NEW s \in S, place[r] = place[s], r # s PROVE FALSE
    OBVIOUS
  <2>1. r < s \/ s < r
    OBVIOUS
  <2>2. Cardinality(Below(r)) \in Nat /\ Cardinality(Below(s)) \in Nat
    BY <1>1
  <2> QED BY <1>3, <2>1, <2>2
<1>6. place \in Injection(S, 0..(size - 1))
  BY <1>4, <1>5 DEF Injection, IsInjective
<1>7. IsFiniteSet(0..(size - 1)) /\ Cardinality(0..(size - 1)) = size
  <2>1. 0 \in Int /\ size - 1 \in Int
    BY <1>0
  <2>2. IsFiniteSet(0..(size - 1)) /\ Cardinality(0..(size - 1)) = IF 0 > size - 1 THEN 0 ELSE (size - 1) - 0 + 1
    BY <2>1, FS_Interval
  <2> QED BY <1>0, <2>2
<1>8. place \in Surjection(S, 0..(size - 1))
  BY <1>6, <1>7, FS_Injection
<1>9. i \in 0..(size - 1)
  BY <1>0
<1>10. \E r \in S : place[r] = i
  BY <1>8, <1>9 DEF Surjection
<1> QED BY <1>10

LEMMA InitialInv == Init => LoopInv
<1> SUFFICES ASSUME Init PROVE LoopInv
  OBVIOUS
<1>1. /\ opts \in Options /\ pc = "top" /\ iter = 0 /\ cursor = 0 /\ prevSig = {} /\ entries = {} /\ bstep = 0
      /\ prevRemaining = -1 /\ remaining = 0 /\ outcome = None /\ shown = Record
      /\ leaving = {} /\ rendered = FALSE /\ aborted = FALSE /\ acted = {} /\ again = {} /\ skipped = {} /\ upset = FALSE
  BY DEF Init
<1>2. opts.max \in Nat
  BY <1>1, BoundAssumption DEF Options
<1>3. NumType
  BY <1>1, <1>2 DEF NumType
<1>4. SeqType /\ FlagType /\ PageType /\ ActType /\ outcome \in Verdicts
  <2>1. SeqType
    BY <1>1, BoundAssumption DEF SeqType, Found
  <2>2. FlagType /\ PageType /\ ActType
    BY <1>1 DEF FlagType, Pc, PageType, ActType, Row
  <2>3. outcome \in Verdicts
    BY <1>1 DEF Verdicts, None
  <2> QED BY <2>1, <2>2, <2>3
<1>5. TypeOK
  BY <1>3, <1>4, TypeParts
<1>6. Handled = {}
  BY <1>1 DEF Handled, PassedFor, Done
<1>7. LoopOK
  BY <1>1, <1>5 DEF LoopOK, LeftMeansLeft, CompleteMeansDone, NeverTwice, None
<1>8. Control
  BY <1>1, RecordAssumption DEF Control, InPass
<1>9. Places /\ Gone
  BY <1>1 DEF Places, Acted, Gone
<1>10. Calm /\ Pinned
  BY <1>1, <1>6, FS_EmptySet DEF Calm, Pinned, Acted, Front
<1> QED BY <1>7, <1>8, <1>9, <1>10 DEF LoopInv

LEMMA TypeStep ==
    ASSUME TypeOK, Control, Places, Next
    PROVE  TypeOK' /\ Control'
<1>0. opts' = opts /\ NumType /\ SeqType /\ FlagType /\ PageType /\ ActType /\ outcome \in Verdicts
  BY TypeParts DEF Next, Loop, Top, Unread, Observe, Repeated, Act, Skip, BodyStops, After, Recount, Shrink, Recheck,
     Budget, Coverage, RowLeaves, Render, Abort
<1>1. ASSUME NEW state \in {"unread", "aborted", "repeated", "stopped", "complete", "partial", "unfinished"},
             NEW left \in Nat \cup {-1}, End(state, left)
      PROVE  outcome' \in Verdicts /\ pc' = "done"
  BY <1>1 DEF End, Verdicts
<1>2. ASSUME InPass, NEW advance \in BOOLEAN, NextPass(advance)
      PROVE  /\ iter' = iter + 1 /\ iter' \in 0..opts.max /\ cursor' \in 0..iter'
             /\ prevRemaining' = remaining /\ pc' = "top" /\ outcome' = outcome
  BY <1>2, Facts DEF NextPass, Goto, Control
<1>3. NumType' /\ SeqType' /\ FlagType' /\ PageType' /\ ActType' /\ outcome' \in Verdicts => TypeOK'
  BY TypeParts DEF TypeOK, NumType, SeqType, FlagType, PageType, ActType, Pc, Verdicts, Found
\* Only the control moves, and what a count needs.
<1>4. ASSUME UNCHANGED <<iter, cursor, prevSig, prevRemaining, shown, leaving, aborted, acted, again, skipped>>,
             upset' \in BOOLEAN, rendered' \in BOOLEAN, remaining' \in Nat, entries' \subseteq Found, bstep' \in 0..BodySteps,
             pc' \in {"observe", "body", "recount", "recheck", "shrink", "budget", "coverage", "done"},
             pc' \in {"observe", "body", "recount", "recheck", "shrink"} => iter < opts.max,
             pc' \notin {"done", "body"} => rendered',
             outcome' \in Verdicts,
             pc' # "done" => outcome' = None
      PROVE  TypeOK' /\ Control'
  <2>1. NumType'
    BY <1>0, <1>4 DEF NumType
  <2>2. SeqType'
    BY <1>0, <1>4 DEF SeqType
  <2>3. FlagType' /\ PageType' /\ ActType'
    BY <1>0, <1>4 DEF FlagType, PageType, ActType, Pc
  <2>4. Control'
    BY <1>0, <1>4 DEF Control, InPass
  <2> QED BY <1>3, <1>4, <2>1, <2>2, <2>3, <2>4
<1> USE DEF loopVars, pageVars, histVars
<1>5. pc # "done" => outcome = None
  BY DEF Control
<1>6. CASE Top
  <2>1. pc = "top" /\ UNCHANGED <<loopVars, shown, leaving, aborted, histVars>> /\ outcome = None
    BY <1>5, <1>6 DEF Top
  <2>2. CASE ~UnderCap /\ Goto("budget") /\ UNCHANGED rendered
    <3>1. rendered
      BY <2>1, <2>2, Facts DEF Control, UnderCap
    <3> QED BY <1>0, <1>4, <2>1, <2>2, <3>1 DEF Goto, NumType, SeqType, FlagType
  <2>3. CASE UnderCap /\ End("aborted", -1) /\ UNCHANGED rendered
    BY <1>0, <1>1, <1>4, <2>1, <2>3 DEF NumType, SeqType, FlagType
  <2>4. CASE UnderCap /\ Goto("observe") /\ rendered' = TRUE
    BY <1>0, <1>4, <2>1, <2>4 DEF Goto, NumType, SeqType, FlagType, UnderCap
  <2> QED BY <1>6, <2>2, <2>3, <2>4 DEF Top
<1>7. CASE Unread \/ Repeated \/ BodyStops \/ Budget \/ Coverage
  <2>1. UNCHANGED <<loopVars, pageVars, aborted, histVars>>
    BY <1>7 DEF Unread, Repeated, BodyStops, Budget, Coverage
  <2>2. \E state \in {"unread", "aborted", "repeated", "stopped", "complete", "partial", "unfinished"} :
          \E left \in Nat \cup {-1} : End(state, left)
    <3>1. Left \in Int /\ (Left > 0 => Left \in Nat)
      BY Facts DEF Left
    <3>2. CASE Unread \/ Repeated \/ BodyStops \/ Coverage
      BY <3>2 DEF Unread, Repeated, BodyStops, Coverage
    <3>3. CASE Budget
      BY <3>1, <3>3 DEF Budget
    <3> QED BY <1>7, <3>2, <3>3
  <2>3. outcome' \in Verdicts /\ pc' = "done"
    BY <1>1, <2>2
  <2> QED BY <1>0, <1>4, <2>1, <2>3 DEF NumType, SeqType, FlagType
<1>8. CASE Observe
  <2>1. /\ pc = "observe" /\ UNCHANGED <<iter, cursor, prevSig, prevRemaining, pageVars, aborted, histVars>>
        /\ outcome' = outcome /\ outcome = None /\ iter < opts.max /\ rendered
    BY <1>5, <1>8 DEF Observe, Goto, Control, InPass
  <2>2. CASE Count = 0 \/ cursor >= Count
    <3>1. pc' = "coverage" /\ UNCHANGED <<remaining, entries, bstep>>
      BY <1>8, <2>2 DEF Observe, Goto
    <3> QED BY <1>0, <1>4, <2>1, <3>1 DEF NumType, SeqType, FlagType
  <2>3. CASE ~(Count = 0 \/ cursor >= Count)
    <3>1. pc' = "body" /\ remaining' = Count /\ entries' = {} /\ bstep' = 0 /\ 0 \in 0..BodySteps /\ Count \in Nat
      BY <1>8, <2>3, Facts DEF Observe, Goto
    <3> QED BY <1>0, <1>4, <2>1, <3>1 DEF FlagType
  <2> QED BY <2>2, <2>3
<1>9. CASE Act \/ Skip
  <2>1. /\ pc = "body" /\ bstep' = bstep + 1 /\ pc' \in {"body", "after"} /\ outcome' = outcome /\ outcome = None
        /\ entries' \in {entries, Resolved} /\ rendered' \in BOOLEAN /\ upset' \in BOOLEAN
        /\ UNCHANGED <<iter, cursor, prevSig, prevRemaining, remaining, shown, aborted>>
    BY <1>0, <1>5, <1>9 DEF Act, Skip, StepOn, Goto, FlagType
  <2>2. bstep + 1 \in 1..BodySteps /\ Entry \in Nat
    BY <2>1, Facts DEF Places
  <2>3. entries' \subseteq Found /\ bstep' \in 0..BodySteps
    BY <1>0, <2>1, <2>2 DEF SeqType, Found, Resolved
  <2>4. \A i : At(i) \subseteq shown
    BY DEF At
  <2>5. ActType' /\ PageType'
    <3>1. CASE Act
      <4>1. PICK r \in At(Place) :
              /\ acted' = acted \cup {<<bstep + 1, r>>} /\ again' = again \cup (acted \cap {<<bstep + 1, r>>})
              /\ leaving' = IF LastStep THEN leaving \cup ({r} \cap opts.consumes) ELSE leaving
        BY <3>1 DEF Act
      <4>2. r \in shown /\ r \in Row /\ skipped' = skipped
        BY <1>0, <2>4, <3>1, <4>1 DEF Act, PageType
      <4> QED BY <1>0, <2>1, <2>2, <4>1, <4>2 DEF ActType, PageType
    <3>2. CASE Skip
      <4>1. skipped' \subseteq skipped \cup shown /\ UNCHANGED <<acted, again, shown, leaving>>
        BY <2>4, <3>2 DEF Skip, PassOver
      <4> QED BY <1>0, <4>1 DEF ActType, PageType
    <3> QED BY <1>9, <3>1, <3>2
  <2>6. NumType' /\ SeqType' /\ FlagType'
    BY <1>0, <2>1, <2>3 DEF NumType, SeqType, FlagType, Pc
  <2>7. Control'
    BY <1>0, <2>1 DEF Control, InPass
  <2> QED BY <1>0, <1>3, <2>1, <2>5, <2>6, <2>7
<1>10. CASE After
  <2>1. /\ pc = "after" /\ pc' = "recount" /\ outcome' = outcome /\ outcome = None /\ prevSig' = entries /\ rendered' = TRUE
        /\ UNCHANGED <<iter, cursor, prevRemaining, remaining, entries, bstep, shown, leaving, aborted, histVars>>
    BY <1>5, <1>10 DEF After, Goto
  <2>2. NumType' /\ SeqType' /\ FlagType' /\ PageType' /\ ActType'
    BY <1>0, <2>1 DEF NumType, SeqType, FlagType, PageType, ActType, Pc
  <2>3. Control'
    BY <1>0, <2>1 DEF Control, InPass
  <2> QED BY <1>0, <1>3, <2>1, <2>2, <2>3
<1>11. CASE Shrink \/ (Recount /\ Count >= remaining)
  <2>1. /\ pc \in {"shrink", "recount"} /\ pc' \in {"recheck", "shrink"} /\ outcome' = outcome /\ outcome = None
        /\ UNCHANGED <<loopVars, pageVars, aborted, acted, again, skipped>>
    BY <1>5, <1>11 DEF Shrink, Recount, Goto
  <2>2. upset' \in BOOLEAN
    BY <1>0, <1>11 DEF Shrink, Recount, FlagType
  <2>3. iter < opts.max /\ rendered
    BY <2>1 DEF Control, InPass
  <2> QED BY <1>0, <1>4, <2>1, <2>2, <2>3 DEF NumType, SeqType
<1>12. CASE Recheck \/ (Recount /\ ~(Count >= remaining))
  <2>1. /\ pc \in {"recheck", "recount"} /\ UNCHANGED <<prevSig, remaining, entries, bstep, pageVars, aborted, histVars>>
        /\ NextPass(Count >= remaining) \/ NextPass(FALSE)
    BY <1>12 DEF Recheck, Recount
  <2>2. /\ iter' = iter + 1 /\ iter' \in 0..opts.max /\ cursor' \in 0..iter'
        /\ prevRemaining' = remaining /\ pc' = "top" /\ outcome' = outcome
    <3>1. (Count >= remaining) \in BOOLEAN /\ FALSE \in BOOLEAN /\ InPass
      BY <2>1 DEF InPass
    <3>2. CASE NextPass(Count >= remaining)
      BY <1>2, <3>1, <3>2
    <3>3. CASE NextPass(FALSE)
      BY <1>2, <3>1, <3>3
    <3> QED BY <2>1, <3>2, <3>3
  <2>3. NumType'
    BY <1>0, <2>1, <2>2 DEF NumType
  <2>4. SeqType' /\ FlagType' /\ PageType' /\ ActType'
    BY <1>0, <2>1, <2>2 DEF SeqType, FlagType, PageType, ActType, Pc
  <2>5. rendered
    BY <2>1 DEF Control
  <2>6. Control'
    BY <1>0, <2>1, <2>2, <2>5 DEF Control, InPass
  <2> QED BY <1>0, <1>3, <2>2, <2>3, <2>4, <2>6
<1>13. CASE RowLeaves
  <2>1. PICK r \in leaving, new \in {{}} \cup {{x} : x \in Refill \ shown} :
          shown' = (shown \ {r}) \cup new /\ leaving' = leaving \ {r} /\ upset' = (upset \/ new # {})
    BY <1>13 DEF RowLeaves
  <2>2. UNCHANGED <<opts, pc, loopVars, outcome, rendered, aborted, acted, again, skipped>>
    BY <1>13 DEF RowLeaves
  <2>3. new \subseteq Refill /\ IsFiniteSet(new)
    BY <2>1, FS_EmptySet, FS_Singleton
  <2>4. IsFiniteSet(shown')
    BY <2>1, <2>3, FS_Subset, FS_Union DEF Control
  <2>5. NumType' /\ SeqType' /\ ActType' /\ outcome' \in Verdicts
    BY <1>0, <2>2 DEF NumType, SeqType, ActType
  <2>6. FlagType'
    BY <1>0, <2>1, <2>2 DEF FlagType
  <2>7. PageType'
    BY <1>0, <2>1, <2>3 DEF PageType, Row
  <2>8. Control'
    BY <2>2, <2>4 DEF Control, InPass
  <2> QED BY <1>3, <2>5, <2>6, <2>7, <2>8
<1>14. CASE Render \/ Abort
  <2>1. /\ UNCHANGED <<opts, pc, loopVars, outcome, shown, leaving, histVars>>
        /\ rendered' \in BOOLEAN /\ (rendered => rendered') /\ aborted' \in BOOLEAN
    BY <1>0, <1>14 DEF Render, Abort, FlagType
  <2>2. NumType' /\ SeqType' /\ FlagType' /\ PageType' /\ ActType' /\ outcome' \in Verdicts
    BY <1>0, <2>1 DEF NumType, SeqType, FlagType, PageType, ActType
  <2>3. Control'
    <3>1. UNCHANGED <<opts, pc, iter, shown, outcome>>
      BY <2>1
    <3> QED BY <2>1, <3>1 DEF Control, InPass
  <2> QED BY <1>3, <2>2, <2>3
<1> QED BY <1>6, <1>7, <1>8, <1>9, <1>10, <1>11, <1>12, <1>13, <1>14 DEF Next, Loop

LEMMA PlacesStep ==
    ASSUME TypeOK, Control, Places, Next
    PROVE  Places'
<1> USE DEF loopVars, pageVars, histVars
\* The pass goes on, or ends.
<1>1. ASSUME UNCHANGED <<bstep, entries, prevSig>>,
             \/ pc' = pc \/ pc' \in {"top", "observe", "budget", "coverage", "done"}
             \/ Acted /\ pc # "after" /\ pc' \in {"shrink", "recheck"}
      PROVE  Places'
  BY <1>1 DEF Places, Acted
<1>2. CASE Top \/ Unread \/ Repeated \/ BodyStops \/ Budget \/ Coverage
  BY <1>1, <1>2 DEF Top, Unread, Repeated, BodyStops, Budget, Coverage, Goto, End
<1>3. CASE Observe
  <2>1. pc' = "coverage" \/ (pc' = "body" /\ bstep' = 0)
    BY <1>3 DEF Observe, Goto
  <2> QED BY <2>1, Facts DEF Places, Acted
<1>4. CASE Act \/ Skip
  <2>1. pc = "body" /\ bstep' = bstep + 1 /\ pc' = IF bstep + 1 = BodySteps THEN "after" ELSE "body"
    BY <1>4 DEF Act, Skip, StepOn, LastStep, Goto
  <2> QED BY <2>1, Facts DEF Places, Acted
<1>5. CASE After
  BY <1>5 DEF After, Goto, Places, Acted
<1>6. CASE Shrink \/ (Recount /\ Count >= remaining)
  BY <1>1, <1>6 DEF Shrink, Recount, Goto, Acted
<1>7. CASE Recheck \/ (Recount /\ ~(Count >= remaining))
  <2>1. pc' = "top"
    BY <1>7 DEF Recheck, Recount, NextPass, Goto
  <2> QED BY <2>1 DEF Places, Acted
<1>8. CASE RowLeaves \/ Render \/ Abort
  BY <1>1, <1>8 DEF RowLeaves, Render, Abort
<1> QED BY <1>2, <1>3, <1>4, <1>5, <1>6, <1>7, <1>8 DEF Next, Loop

\* A step of the body that acts, and one that is skipped without an upset.
LEMMA ActFacts ==
    ASSUME Act
    PROVE  \E r \in At(Place) :
             /\ r \in shown /\ pc = "body" /\ ~Same(Resolved) /\ entries' = Resolved /\ bstep' = bstep + 1
             /\ acted' = acted \cup {<<bstep + 1, r>>} /\ again' = again \cup (acted \cap {<<bstep + 1, r>>})
             /\ UNCHANGED <<opts, cursor, prevSig, prevRemaining, remaining, shown, upset, outcome, skipped>>
             /\ \/ ~LastStep /\ pc' = "body" /\ leaving' = leaving
                \/ LastStep /\ pc' = "after" /\ leaving' = leaving \cup ({r} \cap opts.consumes)
<1>1. PICK r \in At(Place) :
        /\ acted' = acted \cup {<<bstep + 1, r>>} /\ again' = again \cup (acted \cap {<<bstep + 1, r>>})
        /\ leaving' = IF LastStep THEN leaving \cup ({r} \cap opts.consumes) ELSE leaving
  BY DEF Act
<1>2. r \in shown
  BY DEF At
<1> QED BY <1>1, <1>2 DEF Act, StepOn, Goto

LEMMA SkipFacts ==
    ASSUME Skip, ~upset', upset \in BOOLEAN, opts.aim \in {"cursor", "first"}
    PROVE  /\ pc = "body" /\ ~upset /\ bstep' = bstep + 1
           /\ UNCHANGED <<opts, cursor, prevSig, prevRemaining, remaining, shown, leaving, acted, again, outcome>>
           /\ \/ entries' = Resolved /\ At(Place) # {} /\ ~(LastStep /\ Same(Resolved))
              \/ entries' = entries /\ opts.aim = "cursor"
           /\ skipped' = IF LastStep THEN skipped \cup At(Place) ELSE skipped
           /\ \/ ~LastStep /\ pc' = "body"
              \/ LastStep /\ pc' = "after"
<1>1. opts.aim = "cursor" => Place = cursor
  BY DEF Place
<1>2. /\ pc = "body" /\ bstep' = bstep + 1 /\ outcome' = outcome /\ pc' = IF LastStep THEN "after" ELSE "body"
      /\ UNCHANGED <<opts, cursor, prevSig, prevRemaining, remaining, shown, leaving, acted, again>>
  BY DEF Skip, StepOn, Goto, pageVars
<1>3. CASE At(Place) # {} /\ ~(LastStep /\ Same(Resolved)) /\ entries' = Resolved /\ PassOver(Place) /\ UNCHANGED upset
  <2>1. upset' = upset
    BY <1>3
  <2> QED BY <1>2, <1>3, <2>1 DEF PassOver
<1>4. CASE entries' = entries /\ PassOver(cursor) /\ upset' = (upset \/ opts.aim = "first")
  <2>1. ~upset /\ opts.aim = "cursor"
    BY <1>4
  <2> QED BY <1>1, <1>2, <1>4, <2>1 DEF PassOver
<1> QED BY <1>3, <1>4 DEF Skip

LEMMA GoneStep ==
    ASSUME TypeOK, Control, Places, Gone, Next
    PROVE  Gone' /\ (~upset' => ~upset) /\ acted \subseteq acted' /\ skipped \subseteq skipped'
<1> USE DEF loopVars, pageVars, histVars
<1>1. CASE Act
  <2>1. PICK r \in At(Place) :
             /\ r \in shown
             /\ acted' = acted \cup {<<bstep + 1, r>>} /\ UNCHANGED <<shown, upset, skipped>>
             /\ \/ leaving' = leaving
                \/ LastStep /\ leaving' = leaving \cup ({r} \cap opts.consumes)
    BY <1>1, ActFacts
  <2> QED BY <2>1 DEF Gone, Done, PassedFor, LastStep
<1>2. CASE RowLeaves
  <2>1. PICK r \in leaving, new \in {{}} \cup {{x} : x \in Refill \ shown} :
          shown' = (shown \ {r}) \cup new /\ leaving' = leaving \ {r} /\ upset' = (upset \/ new # {})
    BY <1>2 DEF RowLeaves
  <2>2. acted' = acted /\ skipped' = skipped
    BY <1>2 DEF RowLeaves
  <2> QED BY <2>1, <2>2 DEF Gone, Done, PassedFor
<1>3. CASE Shrink
  <2>1. UNCHANGED <<shown, leaving, acted, skipped>> /\ (~upset' => ~upset)
    BY <1>3 DEF Shrink
  <2> QED BY <2>1 DEF Gone, Done, PassedFor
<1>4. CASE Skip
  <2>1. UNCHANGED <<shown, leaving, acted>> /\ skipped \subseteq skipped'
    BY <1>4 DEF Skip, PassOver
  <2>2. ~upset' => ~upset
    <3>1. upset' = upset \/ upset' = (upset \/ opts.aim = "first")
      BY <1>4 DEF Skip
    <3>2. upset \in BOOLEAN
      BY TypeParts DEF FlagType
    <3> QED BY <3>1, <3>2
  <2> QED BY <2>1, <2>2 DEF Gone, Done, PassedFor
<1>5. CASE Next /\ ~Act /\ ~Skip /\ ~RowLeaves /\ ~Shrink
  <2>1. UNCHANGED <<shown, leaving, acted, skipped, upset>>
    BY <1>5 DEF Next, Loop, Top, Unread, Observe, Repeated, BodyStops, After, Recount, Recheck, Budget, Coverage, Render, Abort
  <2> QED BY <2>1 DEF Gone, Done, PassedFor
<1> QED BY <1>1, <1>2, <1>3, <1>4, <1>5

\* Where nothing was acted on and no row left, the records handled are the same.
LEMMA SameList ==
    ASSUME UNCHANGED <<shown, acted, skipped>>
    PROVE  Handled' = Handled /\ (Front => Front')
BY DEF Handled, Done, PassedFor, Front

\* What a pinned body resolves grows to the whole.
LEMMA WholeGrows ==
    ASSUME NEW k \in Nat
    PROVE  Whole(k) \cup {<<k + 1, 0>>} = Whole(k + 1) /\ Whole(k + 1) # {}
<1>1. 1..(k + 1) = 1..k \cup {k + 1} /\ k + 1 \in 1..(k + 1)
  OBVIOUS
<1> QED BY <1>1 DEF Whole

\* The last step of a body is carried out, or skipped, for the first record no
\* pass was spent on.
LEMMA LastStepIsNew ==
    ASSUME TypeOK, Control, Calm, Pinned, pc = "body", LastStep, ~Same(Resolved) \/ opts.aim = "cursor"
    PROVE  /\ opts.aim = "first" => cursor = 0
           /\ \E r \in shown : At(Place) = {r} /\ r \notin Handled /\ Handled = {x \in shown : x < r}
<1>1. Cardinality(Handled) = cursor /\ Front /\ remaining = Cardinality(shown) /\ cursor < Cardinality(shown)
  BY DEF Calm, Acted
<1>2. ASSUME opts.aim = "first", cursor > 0
      PROVE  FALSE
  <2>1. prevSig = Whole(BodySteps) /\ prevRemaining = Cardinality(shown) /\ entries = Whole(bstep)
    BY <1>2 DEF Pinned, Acted
  <2>2. bstep \in Nat /\ BodySteps = bstep + 1 /\ Entry = 0
    BY <1>2, Facts DEF LastStep, Entry
  <2>3. Resolved = prevSig /\ Resolved # {}
    BY <2>1, <2>2, WholeGrows DEF Resolved
  <2> QED BY <1>1, <1>2, <2>1, <2>3, Facts DEF Same
<1>3. opts.aim = "first" => cursor = 0
  BY <1>2, Facts
<1>4. Place = Cardinality(Handled)
  BY <1>1, <1>3, Facts DEF Place
<1>5. PICK r \in shown : r \in At(Place)
  BY <1>1, <1>4, Facts, PlacesFilled DEF At
<1>6. ASSUME NEW x \in At(Place)
      PROVE  x \in shown /\ x \notin Handled /\ Handled = {y \in shown : y < x}
  BY <1>1, <1>4, <1>6, Facts, NextRecord
<1>7. ASSUME NEW x \in At(Place) PROVE x = r
  <2>1. ~(x < r) /\ ~(r < x)
    BY <1>5, <1>6
  <2> QED BY <1>6, <2>1, Facts
<1> QED BY <1>3, <1>5, <1>6, <1>7

LEMMA CalmStep ==
    ASSUME TypeOK, Control, Places, Gone, Calm, Pinned, Next, ~upset'
    PROVE  Calm'
<1> USE DEF loopVars, pageVars, histVars
\* Only the control moves.
<1>1. ASSUME UNCHANGED <<shown, leaving, acted, skipped, cursor>>,
             \/ pc' = pc /\ remaining' = remaining
             \/ ~Acted /\ pc # "done" /\ pc' \in {"top", "observe", "budget", "done"}
             \/ ~Acted /\ pc # "done" /\ pc' = "body" /\ remaining' = Cardinality(shown) /\ cursor < Cardinality(shown)
             \/ ~Acted /\ pc # "done" /\ pc' = "coverage" /\ cursor >= Cardinality(shown)
             \/ Acted /\ pc' \in {"recount", "shrink", "done"} /\ remaining' = remaining
             \/ Acted /\ pc' = "recheck" /\ remaining' = remaining /\ leaving = {}
             \/ Acted /\ pc' = "top" /\ leaving = {} /\ Cardinality(Handled) = cursor
      PROVE  Calm'
  <2>1. Handled' = Handled /\ Front'
    BY <1>1, SameList DEF Calm
  <2> QED BY <1>1, <2>1 DEF Calm, Acted
<1>2. CASE Top \/ Unread \/ Repeated \/ BodyStops \/ Budget \/ Coverage \/ Render \/ Abort
  BY <1>1, <1>2 DEF Top, Unread, Repeated, BodyStops, Budget, Coverage, Render, Abort, Goto, End, Acted
<1>3. CASE Observe
  BY <1>1, <1>3, Facts DEF Observe, Goto, Acted, Control
\* A step that is not the body's last.
<1>4. ASSUME pc = "body", pc' = "body", UNCHANGED <<cursor, remaining, shown, leaving>>, ~LastStep,
             skipped' = skipped, acted' = acted \/ \E r : acted' = acted \cup {<<bstep + 1, r>>}
      PROVE  Calm'
  <2>1. \A x : PassedFor(x)' <=> PassedFor(x)
    BY <1>4, Facts DEF Done, PassedFor, LastStep
  <2>2. Handled' = Handled /\ Front'
    BY <1>4, <2>1 DEF Handled, Front, Calm
  <2> QED BY <1>4, <2>2, Facts DEF Calm, Acted
\* The last one, carried out or skipped.
<1>10. ASSUME pc = "body", pc' = "after", UNCHANGED <<cursor, remaining, shown>>, LastStep,
              NEW r \in shown, r \notin Handled, Handled = {x \in shown : x < r}, leaving' \subseteq leaving \cup {r},
              \/ acted' = acted \cup {<<bstep + 1, r>>} /\ skipped' = skipped
              \/ acted' = acted /\ skipped' = skipped \cup {r}
       PROVE  Calm'
  <2>1. Cardinality(Handled) = cursor /\ remaining = Cardinality(shown) /\ leaving = {}
    BY <1>10 DEF Calm, Acted
  <2>2. Handled' = Handled \cup {r}
    BY <1>10 DEF Handled, PassedFor, Done, LastStep
  <2>3. Cardinality(Handled') = cursor + 1
    BY <1>10, <2>1, <2>2, Facts, FS_AddElement
  <2>4. Front'
    BY <1>10, <2>2, Facts DEF Front
  <2> QED BY <1>10, <2>1, <2>2, <2>3, <2>4 DEF Calm, Acted
<1>11. CASE Act
  <2>1. PICK r \in At(Place) :
             /\ r \in shown /\ pc = "body" /\ ~Same(Resolved) /\ acted' = acted \cup {<<bstep + 1, r>>}
             /\ UNCHANGED <<cursor, remaining, shown, skipped>>
             /\ \/ ~LastStep /\ pc' = "body" /\ leaving' = leaving
                \/ LastStep /\ pc' = "after" /\ leaving' = leaving \cup ({r} \cap opts.consumes)
    BY <1>11, ActFacts
  <2>2. CASE LastStep /\ pc' = "after" /\ leaving' = leaving \cup ({r} \cap opts.consumes)
    <3>1. r \notin Handled /\ Handled = {x \in shown : x < r}
      BY <2>1, <2>2, LastStepIsNew
    <3> QED BY <1>10, <2>1, <2>2, <3>1
  <2> QED BY <1>4, <2>1, <2>2
<1>12. CASE Skip
  <2>1. /\ pc = "body"
        /\ UNCHANGED <<cursor, remaining, shown, leaving, acted>>
        /\ ~(LastStep /\ Same(Resolved)) \/ opts.aim = "cursor"
        /\ skipped' = IF LastStep THEN skipped \cup At(Place) ELSE skipped
        /\ \/ ~LastStep /\ pc' = "body"
           \/ LastStep /\ pc' = "after"
    BY <1>12, SkipFacts, Facts, TypeParts DEF FlagType
  <2>2. CASE LastStep
    <3>1. PICK r \in shown : At(Place) = {r} /\ r \notin Handled /\ Handled = {x \in shown : x < r}
      BY <2>1, <2>2, LastStepIsNew
    <3> QED BY <1>10, <2>1, <2>2, <3>1
  <2> QED BY <1>4, <2>1, <2>2
<1>5. CASE After \/ (Recount /\ Count >= remaining)
  BY <1>1, <1>5 DEF After, Recount, Goto, Acted
<1>6. CASE Shrink
  <2>1. pc = "shrink" /\ pc' = "recheck" /\ UNCHANGED <<loopVars, pageVars, acted, skipped>>
    BY <1>6 DEF Shrink, Goto
  <2>2. ~(Count >= remaining) \/ leaving = {}
    BY <1>6 DEF Shrink
  <2>3. leaving = {}
    BY <2>1, <2>2, Facts DEF Calm, Acted, Control
  <2> QED BY <1>1, <2>1, <2>3 DEF Acted
<1>7. CASE Recount /\ ~(Count >= remaining)
  <2>1. pc = "recount" /\ pc' = "top" /\ UNCHANGED <<cursor, pageVars, acted, skipped>>
    BY <1>7 DEF Recount, NextPass, Goto
  <2>2. leaving = {} /\ Cardinality(Handled) = cursor
    BY <1>7, <2>1, Facts DEF Calm, Acted, Control
  <2> QED BY <1>1, <2>1, <2>2 DEF Acted
<1>8. CASE Recheck
  <2>1. /\ pc = "recheck" /\ pc' = "top" /\ UNCHANGED <<pageVars, acted, skipped>>
        /\ cursor' = IF Count >= remaining THEN cursor + 1 ELSE cursor
    BY <1>8 DEF Recheck, NextPass, Goto
  <2>2. leaving = {} /\ Cardinality(Handled) = cursor'
    BY <2>1, Facts DEF Calm, Acted, Control
  <2>3. Handled' = Handled /\ Front'
    BY <2>1, SameList DEF Calm
  <2> QED BY <2>1, <2>2, <2>3 DEF Calm, Acted
<1>9. CASE RowLeaves
  <2>1. PICK r \in leaving, new \in {{}} \cup {{x} : x \in Refill \ shown} :
          shown' = (shown \ {r}) \cup new /\ leaving' = leaving \ {r} /\ upset' = (upset \/ new # {})
    BY <1>9 DEF RowLeaves
  <2>2. shown' = shown \ {r} /\ UNCHANGED <<pc, cursor, remaining, acted, skipped>>
    BY <1>9, <2>1 DEF RowLeaves
  <2>3. Handled' = Handled \ {r} /\ Front'
    BY <2>2 DEF Handled, Front, Done, PassedFor, Calm
  <2>4. Acted \/ pc = "done"
    BY <2>1 DEF Calm
  <2>5. CASE pc = "done"
    BY <2>2, <2>3, <2>5 DEF Calm, Acted
  <2>6. CASE Acted
    <3>1. PICK x \in Handled : leaving \subseteq {x}
      BY <2>1, <2>6 DEF Calm
    <3>2. remaining = Cardinality(shown) /\ Cardinality(Handled) = cursor + 1 /\ pc # "recheck"
      BY <2>1, <2>6 DEF Calm
    <3>3. r \in Handled /\ r \in shown /\ leaving' = {}
      BY <2>1, <3>1 DEF Handled
    <3>4. Cardinality(shown') = Cardinality(shown) - 1 /\ Cardinality(Handled') = Cardinality(Handled) - 1
      BY <2>2, <2>3, <3>3, Facts, FS_RemoveElement
    <3> QED BY <2>2, <2>3, <2>6, <3>2, <3>3, <3>4, Facts DEF Calm, Acted
  <2> QED BY <2>4, <2>5, <2>6
<1> QED BY <1>2, <1>3, <1>5, <1>6, <1>7, <1>8, <1>9, <1>11, <1>12 DEF Next, Loop
LEMMA PinnedStep ==
    ASSUME TypeOK, Control, Places, Calm, Pinned, Next, ~upset'
    PROVE  Pinned'
<1> USE DEF loopVars, pageVars, histVars
<1>1. opts' = opts
  BY DEF Next, Loop, Top, Unread, Observe, Repeated, Act, Skip, BodyStops, After, Recount, Shrink, Recheck, Budget, Coverage,
     RowLeaves, Render, Abort
<1>2. ASSUME UNCHANGED <<prevSig, prevRemaining, shown, cursor, entries, bstep>>,
             \/ pc' = pc
             \/ Acted /\ pc' \in {"recount", "shrink", "recheck"}
             \/ ~Acted /\ pc # "done" /\ pc' \in {"top", "observe", "budget", "coverage"}
             \/ pc' = "done"
      PROVE  Pinned'
  BY <1>1, <1>2 DEF Pinned, Acted
<1>3. CASE Top \/ Unread \/ Repeated \/ BodyStops \/ Budget \/ Coverage \/ Render \/ Abort
  BY <1>2, <1>3 DEF Top, Unread, Repeated, BodyStops, Budget, Coverage, Render, Abort, Goto, End, Acted
<1>4. CASE Observe
  <2>1. pc = "observe" /\ UNCHANGED <<prevSig, prevRemaining, shown, cursor>>
        /\ \/ pc' = "coverage"
           \/ pc' = "body" /\ entries' = {} /\ bstep' = 0
    BY <1>4 DEF Observe, Goto
  <2>2. Whole(0) = {}
    BY DEF Whole
  <2> QED BY <1>1, <2>1, <2>2 DEF Pinned, Acted
\* A step resolves the first row, as the ones before it.
<1>5. ASSUME pc = "body", UNCHANGED <<prevSig, prevRemaining, shown, cursor>>, bstep' = bstep + 1,
             opts.aim = "first" => entries' = Resolved /\ ~(LastStep /\ Same(Resolved)),
             \/ ~LastStep /\ pc' = "body"
             \/ LastStep /\ pc' = "after"
      PROVE  Pinned'
  <2> SUFFICES ASSUME opts.aim = "first"
               PROVE  /\ entries' = Whole(bstep')
                      /\ pc' = "after" => cursor' = 0
                      /\ pc' = "body" /\ cursor' > 0 => prevSig' = Whole(BodySteps) /\ prevRemaining' = Cardinality(shown')
    BY <1>1, <1>5 DEF Pinned, Acted
  <2>1. entries = Whole(bstep) /\ Entry = 0 /\ bstep \in Nat
    BY <1>5, Facts DEF Pinned, Entry
  <2>2. entries' = Whole(bstep')
    BY <1>5, <2>1, WholeGrows DEF Resolved
  <2>3. LastStep => cursor = 0
    BY <1>5, LastStepIsNew
  <2> QED BY <1>5, <2>2, <2>3 DEF Pinned, Acted
<1>6. CASE Act
  <2>1. /\ pc = "body" /\ ~Same(Resolved) /\ entries' = Resolved /\ bstep' = bstep + 1
        /\ UNCHANGED <<cursor, prevSig, prevRemaining, shown>>
        /\ \/ ~LastStep /\ pc' = "body"
           \/ LastStep /\ pc' = "after"
    BY <1>6, ActFacts
  <2> QED BY <1>5, <2>1
<1>7. CASE Skip
  <2>1. /\ pc = "body" /\ bstep' = bstep + 1
        /\ UNCHANGED <<cursor, prevSig, prevRemaining, shown>>
        /\ \/ entries' = Resolved /\ ~(LastStep /\ Same(Resolved))
           \/ opts.aim = "cursor"
        /\ \/ ~LastStep /\ pc' = "body"
           \/ LastStep /\ pc' = "after"
    BY <1>7, SkipFacts, Facts, TypeParts DEF FlagType
  <2> QED BY <1>5, <2>1
<1>8. CASE After
  <2>1. pc = "after" /\ pc' = "recount" /\ UNCHANGED <<cursor, entries, bstep>>
    BY <1>8 DEF After, Goto
  <2> QED BY <1>1, <2>1 DEF Pinned, Acted
<1>9. CASE (Recount /\ Count >= remaining) \/ Shrink
  BY <1>2, <1>9 DEF Recount, Shrink, Goto, Acted
<1>10. CASE Recheck \/ (Recount /\ ~(Count >= remaining))
  <2>1. /\ pc \in {"recheck", "recount"} /\ pc' = "top" /\ prevRemaining' = remaining /\ UNCHANGED <<prevSig, shown>>
        /\ \/ Count >= remaining
           \/ cursor' = cursor
    BY <1>10 DEF Recheck, Recount, NextPass, Goto
  <2> SUFFICES ASSUME opts.aim = "first", cursor' > 0
               PROVE  prevSig' = Whole(BodySteps) /\ prevRemaining' = Cardinality(shown')
    BY <1>1, <2>1 DEF Pinned, Acted
  <2>2. cursor = 0 /\ prevSig = Whole(BodySteps)
    BY <2>1 DEF Pinned, Places, Acted
  <2>3. remaining = Cardinality(shown)
    BY <2>1, <2>2, Facts DEF Calm, Acted, Control
  <2> QED BY <2>1, <2>2, <2>3
<1>11. CASE RowLeaves
  <2>1. leaving # {} /\ UNCHANGED <<pc, cursor, entries, bstep>>
    BY <1>11 DEF RowLeaves
  <2>2. Acted \/ pc = "done"
    BY <2>1 DEF Calm
  <2> QED BY <1>1, <2>1, <2>2 DEF Pinned, Acted
<1> QED BY <1>3, <1>4, <1>6, <1>7, <1>8, <1>9, <1>10, <1>11 DEF Next, Loop

\* What is left when the cap is used up is what no pass was spent on.
LEMMA LeftCounts ==
    ASSUME TypeOK, Control, Calm, rendered, ~Acted, pc # "done"
    PROVE  /\ Left = Cardinality({r \in shown : ~PassedFor(r)})
           /\ Left <= 0 => Handled = shown
<1> DEFINE Rest == {r \in shown : ~PassedFor(r)}
<1>1. Cardinality(Handled) = cursor /\ Left = Cardinality(shown) - Cardinality(Handled)
  BY Facts DEF Calm, Left
<1>2. Rest = shown \ Handled /\ shown \cap Handled = Handled
  BY DEF Handled
<1> HIDE DEF Rest
<1>3. Cardinality(Rest) = Cardinality(shown) - Cardinality(Handled)
  BY <1>2, Facts, FS_Difference
<1> QED BY <1>1, <1>3, Facts DEF Rest

LEMMA LeftStep ==
    ASSUME TypeOK, Control, Calm, Gone, LeftMeansLeft, Next, ~upset, ~upset'
    PROVE  LeftMeansLeft'
<1> USE DEF loopVars, pageVars, histVars
<1>1. outcome'.left # -1 \/ outcome'.left = -1
  OBVIOUS
<1>2. ASSUME NEW state, End(state, -1) PROVE LeftMeansLeft'
  BY <1>2 DEF End, LeftMeansLeft
<1>3. ASSUME pc # "done", outcome' = outcome PROVE LeftMeansLeft'
  BY <1>3 DEF Control, LeftMeansLeft, None
<1>4. CASE Budget
  <2>1. pc = "budget" /\ rendered
    BY <1>4 DEF Budget, Control
  <2>2. UNCHANGED <<shown, acted, skipped>>
    BY <1>4 DEF Budget
  <2>3. ASSUME NEW state, End(state, Left) PROVE LeftMeansLeft'
    <3>1. outcome'.left = Left
      BY <2>3 DEF End
    <3>2. {r \in shown : ~PassedFor(r)}' = {r \in shown : ~PassedFor(r)}
      BY <2>2 DEF PassedFor, Done
    <3> QED BY <2>1, <3>1, <3>2, LeftCounts DEF LeftMeansLeft, Acted
  <2> QED BY <1>2, <1>4, <2>3 DEF Budget
<1>5. CASE Unread \/ Repeated \/ BodyStops \/ Coverage
  BY <1>2, <1>5 DEF Unread, Repeated, BodyStops, Coverage
<1>6. CASE Top
  BY <1>2, <1>3, <1>6 DEF Top, Goto
<1>7. CASE Observe \/ Act \/ Skip \/ After \/ Recount \/ Shrink \/ Recheck
  <2>1. outcome' = outcome /\ pc # "done"
    BY <1>7 DEF Observe, Act, Skip, StepOn, After, Recount, Shrink, Recheck, NextPass, Goto
  <2> QED BY <1>3, <2>1
<1>8. CASE Render \/ Abort
  BY <1>8 DEF Render, Abort, LeftMeansLeft, PassedFor, Done
<1>9. CASE RowLeaves
  <2>1. PICK r \in leaving, new \in {{}} \cup {{x} : x \in Refill \ shown} :
          shown' = (shown \ {r}) \cup new /\ leaving' = leaving \ {r} /\ upset' = (upset \/ new # {})
    BY <1>9 DEF RowLeaves
  <2>2. shown' = shown \ {r} /\ UNCHANGED <<outcome, acted, skipped>>
    BY <1>9, <2>1 DEF RowLeaves
  <2>3. PassedFor(r)
    BY <2>1 DEF Gone
  <2>4. {x \in shown : ~PassedFor(x)}' = {x \in shown : ~PassedFor(x)}
    BY <2>2, <2>3 DEF PassedFor, Done
  <2> QED BY <2>2, <2>4 DEF LeftMeansLeft
<1> QED BY <1>4, <1>5, <1>6, <1>7, <1>8, <1>9 DEF Next, Loop

LEMMA CompleteStep ==
    ASSUME TypeOK, Control, Calm, Gone, CompleteMeansDone, Next, ~upset, ~upset', acted \subseteq acted', skipped \subseteq skipped'
    PROVE  CompleteMeansDone'
<1> USE DEF loopVars, pageVars, histVars
<1>1. \A r : PassedFor(r) => PassedFor(r)'
  BY DEF PassedFor, Done
<1>2. ASSUME outcome' = outcome \/ outcome'.state # "complete" PROVE CompleteMeansDone'
  BY <1>1, <1>2 DEF CompleteMeansDone
<1>3. ASSUME Handled = shown PROVE CompleteMeansDone'
  <2>1. \A r \in Record : PassedFor(r)
    BY <1>3 DEF Gone, Handled
  <2> QED BY <1>1, <2>1 DEF CompleteMeansDone
<1>4. CASE Budget
  <2>1. pc = "budget" /\ rendered
    BY <1>4 DEF Budget, Control
  <2>2. \/ Left <= 0
        \/ outcome'.state # "complete"
    BY <1>4 DEF Budget, End
  <2> QED BY <1>2, <1>3, <2>1, <2>2, LeftCounts DEF Acted
<1>5. CASE Coverage
  <2>1. pc = "coverage"
    BY <1>5 DEF Coverage
  <2>2. Cardinality(Handled) = cursor /\ cursor >= Cardinality(shown)
    BY <2>1 DEF Calm, Acted
  <2> QED BY <1>3, <2>2, Facts
<1>6. CASE Unread \/ Repeated \/ BodyStops
  BY <1>2, <1>6 DEF Unread, Repeated, BodyStops, End
<1>7. CASE Top
  BY <1>2, <1>7 DEF Top, Goto, End
<1>8. CASE Observe \/ Act \/ Skip \/ After \/ Recount \/ Shrink \/ Recheck
  <2>1. outcome' = outcome
    BY <1>8 DEF Observe, Act, Skip, StepOn, After, Recount, Shrink, Recheck, NextPass, Goto
  <2> QED BY <1>2, <2>1
<1>9. CASE Render \/ Abort \/ RowLeaves
  <2>1. outcome' = outcome
    BY <1>9 DEF Render, Abort, RowLeaves
  <2> QED BY <1>2, <2>1
<1> QED BY <1>4, <1>5, <1>6, <1>7, <1>8, <1>9 DEF Next, Loop

LEMMA TwiceStep ==
    ASSUME TypeOK, Control, Places, Calm, Pinned, NeverTwice, Next, ~upset, ~upset'
    PROVE  NeverTwice'
<1> USE DEF loopVars, pageVars, histVars
<1>1. CASE Act
  <2>1. PICK r \in At(Place) :
             /\ r \in shown /\ pc = "body" /\ ~Same(Resolved)
             /\ again' = again \cup (acted \cap {<<bstep + 1, r>>})
    BY <1>1, ActFacts
  <2>2. CASE ~LastStep
    BY <2>1, <2>2 DEF NeverTwice, LastStep
  <2>3. CASE LastStep
    <3>1. r \notin Handled
      BY <2>1, <2>3, LastStepIsNew
    <3>2. <<BodySteps, r>> \notin acted
      BY <2>1, <3>1 DEF Handled, PassedFor, Done
    <3> QED BY <2>1, <2>3, <3>2 DEF NeverTwice, LastStep
  <2> QED BY <2>2, <2>3
<1>2. CASE Next /\ ~Act
  <2>1. again' = again
    BY <1>2 DEF Next, Loop, Top, Unread, Observe, Repeated, Skip, BodyStops, After, Recount, Shrink, Recheck, Budget, Coverage,
       RowLeaves, Render, Abort
  <2> QED BY <2>1 DEF NeverTwice
<1> QED BY <1>1, <1>2

LEMMA LoopStep == LoopInv /\ [Next]_vars => LoopInv'
<1> SUFFICES ASSUME LoopInv, [Next]_vars PROVE LoopInv'
  OBVIOUS
<1>1. /\ TypeOK /\ LeftMeansLeft /\ CompleteMeansDone /\ NeverTwice /\ Control /\ Places /\ Gone
      /\ ~upset => Calm /\ Pinned
  BY DEF LoopInv, LoopOK
<1>2. CASE UNCHANGED vars
  <2>1. /\ UNCHANGED <<opts, pc, iter, cursor, prevSig, prevRemaining, remaining, entries, bstep, outcome>>
        /\ UNCHANGED <<shown, leaving, rendered, aborted, acted, again, skipped, upset>>
    BY <1>2 DEF vars, loopVars, pageVars, histVars
  <2>2. TypeOK'
    BY <1>1, <2>1 DEF TypeOK
  <2>3. LeftMeansLeft' /\ CompleteMeansDone' /\ NeverTwice'
    BY <1>1, <2>1 DEF LeftMeansLeft, CompleteMeansDone, NeverTwice, PassedFor, Done
  <2>4. Control' /\ Places' /\ Gone'
    BY <1>1, <2>1 DEF Control, InPass, Places, Acted, Gone, PassedFor, Done
  <2>5. Handled' = Handled /\ (Front => Front')
    BY <2>1, SameList
  <2>6. ~upset' => Calm' /\ Pinned'
    BY <1>1, <2>1, <2>5 DEF Calm, Pinned, Acted
  <2> QED BY <2>2, <2>3, <2>4, <2>6 DEF LoopInv, LoopOK
<1>3. CASE Next
  <2>1. TypeOK' /\ Control' /\ Places' /\ Gone' /\ (~upset' => ~upset) /\ acted \subseteq acted' /\ skipped \subseteq skipped'
    BY <1>1, <1>3, TypeStep, PlacesStep, GoneStep
  <2>2. ASSUME ~upset'
        PROVE  Calm' /\ Pinned' /\ LeftMeansLeft' /\ CompleteMeansDone' /\ NeverTwice'
    BY <1>1, <1>3, <2>1, <2>2, CalmStep, PinnedStep, LeftStep, CompleteStep, TwiceStep
  <2>3. ASSUME upset'
        PROVE  LeftMeansLeft' /\ CompleteMeansDone' /\ NeverTwice'
    BY <2>3 DEF LeftMeansLeft, CompleteMeansDone, NeverTwice
  <2> QED BY <2>1, <2>2, <2>3 DEF LoopInv, LoopOK
<1> QED BY <1>2, <1>3

\* However the body consumes its records or skips its steps and the page drops
\* their rows, what a loop (runFoldedLoop) reports as done or left had its pass or
\* had none, and its body ends on no record twice, for any records, body and cap.
THEOREM FoldedLoopIsRight == Spec => []LoopOK
<1>1. Init => LoopInv
  BY InitialInv
<1>2. LoopInv /\ [Next]_vars => LoopInv'
  BY LoopStep
<1>3. LoopInv => LoopOK
  BY DEF LoopInv
<1> QED BY <1>1, <1>2, <1>3, PTL DEF Spec
----------------------------------------------------------------------------
(* What is put into a field, and what the app and a blur make of it        *)

\* What a field holds after focus left the field that had it.
TextLeft(p, g) == IF g = p.focus /\ g \in p.soft THEN <<>> ELSE p.val[g]

LEMMA BlurIs ==
    ASSUME NEW p \in Page
    PROVE  /\ Blur(p) \in Page /\ Blur(p).focus = Nil /\ Blur(p).soft = p.soft \ {p.focus}
           /\ Blur(p).doc = p.doc /\ Blur(p).built = p.built /\ Blur(p).at = p.at /\ Blur(p).row = p.row
           /\ \A g \in Fields : Blur(p).val[g] = TextLeft(p, g)
<1>1. [f \in Fields |-> IF f = p.focus /\ f \in p.soft THEN <<>> ELSE p.val[f]] \in [Fields -> Seq(Values)]
  BY DEF Page
<1> QED BY <1>1 DEF Page, Blur, TextLeft

LEMMA FocusIs ==
    ASSUME NEW p \in Page, NEW f \in Fields
    PROVE  /\ Focus(p, f) \in Page /\ Focus(p, f).focus = f
           /\ Focus(p, f).soft = IF p.focus = f THEN p.soft ELSE p.soft \ {p.focus}
           /\ Focus(p, f).doc = p.doc /\ Focus(p, f).built = p.built /\ Focus(p, f).at = p.at /\ Focus(p, f).row = p.row
           /\ \A g \in Fields : Focus(p, f).val[g] = IF p.focus = f THEN p.val[g] ELSE TextLeft(p, g)
<1>1. CASE p.focus = f
  BY <1>1 DEF Focus
<1>2. CASE p.focus # f
  <2> DEFINE q == Blur(p)
  <2>1. Focus(p, f) = [q EXCEPT !.focus = f]
    BY <1>2 DEF Focus
  <2>2. /\ q \in Page /\ q.soft = p.soft \ {p.focus}
        /\ q.doc = p.doc /\ q.built = p.built /\ q.at = p.at /\ q.row = p.row
        /\ \A g \in Fields : q.val[g] = TextLeft(p, g)
    BY BlurIs
  <2> HIDE DEF q
  <2>3. ASSUME NEW r \in Page PROVE [r EXCEPT !.focus = f] \in Page /\ [r EXCEPT !.focus = f].val = r.val
    BY DEF Page
  <2>4. ASSUME NEW r \in Page
        PROVE  /\ [r EXCEPT !.focus = f].focus = f /\ [r EXCEPT !.focus = f].soft = r.soft /\ [r EXCEPT !.focus = f].doc = r.doc
               /\ [r EXCEPT !.focus = f].built = r.built /\ [r EXCEPT !.focus = f].at = r.at /\ [r EXCEPT !.focus = f].row = r.row
    BY DEF Page
  <2> QED BY <2>1, <2>2, <2>3, <2>4, <1>2
<1> QED BY <1>1, <1>2

LEMMA HoldingIs ==
    ASSUME NEW p \in Page, NEW f \in Fields, NEW text \in Seq(Values), NEW soft \in BOOLEAN
    PROVE  /\ Holding(p, f, text, soft) \in Page /\ Holding(p, f, text, soft).focus = p.focus
           /\ Holding(p, f, text, soft).soft =
                (IF soft THEN p.soft \cup {f} ELSE p.soft \ {f}) \ (IF text = <<>> THEN {} ELSE Empties[f])
           /\ Holding(p, f, text, soft).doc = p.doc /\ Holding(p, f, text, soft).built = p.built
           /\ Holding(p, f, text, soft).at = p.at /\ Holding(p, f, text, soft).row = p.row
           /\ \A g \in Fields : Holding(p, f, text, soft).val[g] =
                IF g = f THEN text ELSE IF text # <<>> /\ g \in Empties[f] THEN <<>> ELSE p.val[g]
<1> DEFINE emptied == IF text = <<>> THEN {} ELSE Empties[f]
           val == [g \in Fields |-> IF g = f THEN text ELSE IF g \in emptied THEN <<>> ELSE p.val[g]]
<1>1. val \in [Fields -> Seq(Values)]
  BY DEF Page
<1> DEFINE kept == (IF soft THEN p.soft \cup {f} ELSE p.soft \ {f}) \ emptied
<1>2. Holding(p, f, text, soft) = [p EXCEPT !.val = val, !.soft = kept]
  BY DEF Holding
<1>3. kept \in SUBSET Fields
  BY DEF Page
<1> HIDE DEF val, kept
<1>4. [p EXCEPT !.val = val, !.soft = kept] \in Page
  BY <1>1, <1>3 DEF Page
<1>5. LET r == [p EXCEPT !.val = val, !.soft = kept]
      IN  r.val = val /\ r.soft = kept /\ r.focus = p.focus /\ r.doc = p.doc /\ r.built = p.built /\ r.at = p.at /\ r.row = p.row
  BY DEF Page
<1> QED BY <1>2, <1>4, <1>5 DEF val, kept

\* What the text of field g is once field f was given text w.
TextAfter(p, f, w, g) ==
    IF w # <<>> /\ g \in Empties[f] THEN <<>> ELSE IF p.focus = f THEN p.val[g] ELSE TextLeft(p, g)

\* Page q is page p with a text put into field f, which took focus.
Put(p, f, w, soft, q) ==
    /\ q \in Page /\ q.focus = f /\ q.doc = p.doc /\ q.built = p.built /\ q.at = p.at /\ q.row = p.row
    /\ q.val[f] = w /\ (f \in q.soft <=> soft)
    /\ \A g \in Fields \ {f} :
        /\ q.val[g] = TextAfter(p, f, w, g)
        /\ g \in q.soft => g \in p.soft
        /\ g \in p.soft => g \in q.soft \/ q.val[g] = <<>>

LEMMA PutIs ==
    ASSUME NEW p \in Page, NEW f \in Fields, NEW w \in Seq(Values), NEW soft \in BOOLEAN
    PROVE  Put(p, f, w, soft, Holding(Focus(p, f), f, w, soft))
<1>1. f \notin Empties[f]
  BY FormAssumption
<1> DEFINE q == Focus(p, f)
           r == Holding(q, f, w, soft)
<1>2. q \in Page /\ q.focus = f /\ q.soft = (IF p.focus = f THEN p.soft ELSE p.soft \ {p.focus})
      /\ q.doc = p.doc /\ q.built = p.built /\ q.at = p.at /\ q.row = p.row
      /\ \A g \in Fields : q.val[g] = IF p.focus = f THEN p.val[g] ELSE TextLeft(p, g)
  BY FocusIs
<1> HIDE DEF q
<1>3. /\ r \in Page /\ r.focus = q.focus
      /\ r.soft = (IF soft THEN q.soft \cup {f} ELSE q.soft \ {f}) \ (IF w = <<>> THEN {} ELSE Empties[f])
      /\ r.doc = q.doc /\ r.built = q.built /\ r.at = q.at /\ r.row = q.row
      /\ \A g \in Fields : r.val[g] = IF g = f THEN w ELSE IF w # <<>> /\ g \in Empties[f] THEN <<>> ELSE q.val[g]
  BY <1>2, HoldingIs
<1> HIDE DEF r
<1>4. ASSUME NEW g \in Fields \ {f}
      PROVE  /\ r.val[g] = TextAfter(p, f, w, g)
             /\ g \in r.soft => g \in p.soft
             /\ g \in p.soft => g \in r.soft \/ r.val[g] = <<>>
  BY <1>2, <1>3 DEF TextAfter, TextLeft
<1>5. f \in r.soft <=> soft
  BY <1>1, <1>3
<1>6. Put(p, f, w, soft, r)
  BY <1>2, <1>3, <1>4, <1>5 DEF Put
<1> QED BY <1>6 DEF q, r

LEMMA TextIs ==
    ASSUME NEW v \in Values \cup {Nil}
    PROVE  TextOf(v) \in Seq(Values) /\ (TextOf(v) = <<>> <=> v = Nil)
BY DEF TextOf

LEMMA FillIs ==
    ASSUME NEW p \in Page, NEW f \in Fields, NEW v \in Values \cup {Nil}
    PROVE  Put(p, f, TextOf(v), f \in Keyed /\ v # Nil, reactSafeFill(p, f, v))
<1> DEFINE w == TextOf(v)
           soft == f \in Keyed /\ v # Nil
<1>1. w \in Seq(Values) /\ soft \in BOOLEAN
  BY TextIs
<1>2. reactSafeFill(p, f, v) = Holding(Focus(p, f), f, w, soft)
  BY DEF reactSafeFill
<1> HIDE DEF w, soft
<1>3. Put(p, f, w, soft, reactSafeFill(p, f, v))
  BY <1>1, <1>2, PutIs
<1> QED BY <1>3 DEF w, soft

LEMMA TypeIntoIs ==
    ASSUME NEW p \in Page, NEW f \in Fields, NEW v \in Values
    PROVE  Put(p, f, <<v>>, FALSE, typeInto(p, f, v))
<1>1. <<v>> \in Seq(Values) /\ FALSE \in BOOLEAN
  OBVIOUS
<1>2. typeInto(p, f, v) = Holding(Focus(p, f), f, <<v>>, FALSE)
  BY DEF typeInto
<1> QED BY <1>1, <1>2, PutIs

\* The text the keys go onto.
Onto(p, f) == IF f \in p.soft THEN <<>> ELSE p.val[f]

LEMMA TypedIs ==
    ASSUME NEW p \in Page, NEW f \in Fields, NEW v \in Values
    PROVE  /\ Put(p, f, Onto(p, f) \o <<v>>, FALSE, Typed(p, f, v))
           /\ Onto(p, f) \o <<v>> \in Seq(Values) /\ Onto(p, f) \o <<v>> # <<>>
<1> DEFINE w == Onto(p, f) \o <<v>>
<1>1. Onto(p, f) \in Seq(Values)
  BY DEF Onto, Page
<1>2. w \in Seq(Values) /\ w # <<>>
  BY <1>1
<1>3. Onto(p, f) = IF f \in Focus(p, f).soft THEN <<>> ELSE Focus(p, f).val[f]
  <2> DEFINE q == Focus(p, f)
  <2>1. /\ q \in Page /\ q.focus = f
        /\ q.soft = IF p.focus = f THEN p.soft ELSE p.soft \ {p.focus}
        /\ q.doc = p.doc /\ q.built = p.built /\ q.at = p.at /\ q.row = p.row
        /\ \A g \in Fields : q.val[g] = IF p.focus = f THEN p.val[g] ELSE TextLeft(p, g)
    BY FocusIs
  <2> HIDE DEF q
  <2>2. Onto(p, f) = IF f \in q.soft THEN <<>> ELSE q.val[f]
    BY <2>1 DEF Onto, TextLeft
  <2> QED BY <2>2 DEF q
<1>4. Typed(p, f, v) = Holding(Focus(p, f), f, w, FALSE)
  BY <1>3 DEF Typed
<1> HIDE DEF w
<1>5. Put(p, f, w, FALSE, Typed(p, f, v))
  BY <1>2, <1>4, PutIs
<1> QED BY <1>2, <1>5 DEF w

LEMMA FormIs ==
    ASSUME NEW p \in Page
    PROVE  FormOf(p) \in [Fields -> Seq(Values)] /\ \A f \in Fields : FormOf(p)[f] = Onto(p, f)
<1>1. \A f \in Fields : (IF f \in p.soft THEN <<>> ELSE p.val[f]) \in Seq(Values)
  BY DEF Page
<1> QED BY <1>1 DEF FormOf, Onto

LEMMA PressedIs ==
    ASSUME NEW p \in Page, NEW s, s.tool = "press" => s.on \in Fields
    PROVE  /\ Pressed(p, s) \in Page /\ Pressed(p, s).soft \subseteq p.soft
           /\ Pressed(p, s).doc = p.doc /\ Pressed(p, s).built = p.built
           /\ Pressed(p, s).at = p.at /\ Pressed(p, s).row = p.row
           /\ \A g \in Fields : Pressed(p, s).val[g] \in {p.val[g], <<>>}
           /\ \A g \in Fields \ p.soft : Pressed(p, s).val[g] = p.val[g]
           /\ \A g \in Fields : g \in p.soft => g \in Pressed(p, s).soft \/ Pressed(p, s).val[g] = <<>>
<1>1. CASE s.tool = "press"
  <2>1. Pressed(p, s) = Focus(p, s.on) /\ s.on \in Fields
    BY <1>1 DEF Pressed
  <2> DEFINE f == s.on
             q == Focus(p, f)
  <2>0. f \in Fields
    BY <2>1
  <2> HIDE DEF f
  <2>2. /\ q \in Page /\ q.focus = f
        /\ q.soft = IF p.focus = f THEN p.soft ELSE p.soft \ {p.focus}
        /\ q.doc = p.doc /\ q.built = p.built /\ q.at = p.at /\ q.row = p.row
        /\ \A g \in Fields : q.val[g] = IF p.focus = f THEN p.val[g] ELSE TextLeft(p, g)
    BY <2>0, FocusIs
  <2> HIDE DEF q
  <2>3. /\ q \in Page /\ q.soft \subseteq p.soft
        /\ q.doc = p.doc /\ q.built = p.built /\ q.at = p.at /\ q.row = p.row
        /\ \A g \in Fields : q.val[g] \in {p.val[g], <<>>}
        /\ \A g \in Fields \ p.soft : q.val[g] = p.val[g]
        /\ \A g \in Fields : g \in p.soft => g \in q.soft \/ q.val[g] = <<>>
    BY <2>2 DEF TextLeft
  <2> QED BY <2>1, <2>3 DEF q, f
<1>2. CASE s.tool # "press"
  <2>1. Pressed(p, s) = Blur(p)
    BY <1>2 DEF Pressed
  <2> QED BY <2>1, BlurIs DEF TextLeft
<1> QED BY <1>1, <1>2

LEMMA DocumentIs ==
    ASSUME NEW d, NEW built, NEW row
    PROVE  /\ Document(d, built, row).doc = d /\ Document(d, built, row).built = built
           /\ Document(d, built, row).soft = {} /\ Document(d, built, row).focus = Nil
           /\ Document(d, built, row).at = "form" /\ Document(d, built, row).row = row
           /\ \A f \in Fields : Document(d, built, row).val[f] = <<>>
BY DEF Document

LEMMA DocumentIn ==
    ASSUME NEW d \in 1..MaxReloads + 1, NEW built \in SUBSET Fields, NEW row \in BOOLEAN
    PROVE  Document(d, built, row) \in Page
<1>1. [f \in Fields |-> <<>>] \in [Fields -> Seq(Values)]
  OBVIOUS
<1> QED BY <1>1 DEF Document, Page

----------------------------------------------------------------------------
(* TypeInv, in its parts, action by action                                 *)

\* Where the replay is: at the submit; ahead of a step's action; behind it.
Final == n = Len(rec)
Early == phase \in {"step", "look", "set", "confirm", "act"}
Late == phase \in {"judge", "lost"} /\ Final

Single(l) == \A i, j \in DOMAIN l : l[i].on = l[j].on => i = j
In(l, f, v) == \E k \in DOMAIN l : l[k].on = f /\ l[k].value = v
Only(l, f, v) == \A k \in DOMAIN l : l[k].on = f => l[k].value = v
Out(l, f) == \A k \in DOMAIN l : l[k].on # f

Form == [Fields -> Seq(Values)]
Post == [form : Form, excused : SUBSET Fields, cut : BOOLEAN]
NetType == net = NoForm \/ net \in [at : {"sent", "taken"}, form : Form, excused : SUBSET Fields]
PostType == posts \in Seq(Post)
LedgerType ==
    /\ fills \in Seq(Fill) /\ submitted \in [fills : Seq(Fill), doc : 0..MaxReloads + 1]
    /\ submitted.doc <= page.doc /\ Single(fills) /\ Single(submitted.fills)
CheckType ==
    /\ check.fills \in Seq(Fill) /\ Single(check.fills)
    /\ Checking =>
        /\ check \in [fills : Seq(Fill), doc : 1..MaxReloads + 1, pass : 1..2, i : Nat \ {0}]
        /\ check.i <= Len(check.fills) + 1 /\ step.tool \in Submits
    /\ phase \in {"set", "confirm"} => check.i <= Len(check.fills)
PlaceType ==
    /\ rec \in Recordings /\ lands \in BOOLEAN /\ n \in DOMAIN rec /\ repeated \subseteq 1..n
    /\ phase \in {"step", "look", "set", "confirm", "act", "judge", "note", "lost", "done", "stopped", "torn"}
    /\ before \in 1..MaxReloads + 1 /\ before <= page.doc
    /\ gone \cup unseen \cup astray \subseteq Fields /\ slow \in BOOLEAN
    /\ phase = "note" => step.tool = "fill"
    /\ phase = "lost" => Final /\ lands /\ n \notin repeated
    /\ phase = "done" => Final
\* The types, and what each phase says of the place.
FillsTypeInv == page \in Page /\ NetType /\ PostType /\ LedgerType /\ CheckType /\ PlaceType

Harmless(i) == posts[i].cut \/ \A f \in Fields : posts[i].form[f] = <<>>
AllHarmless == \A i \in DOMAIN posts : Harmless(i)
Blank == net.at # "none" => \A f \in Fields : net.form[f] = <<>>
\* One form is on its way or taken at a time, and a submit is repeated only
\* when no form that held something was left with the server uncut.
OnceInv ==
    /\ ~Final \/ (Early /\ n \notin repeated) => net = NoForm /\ posts = <<>>
    /\ SentOnce
    /\ net.at = "sent" => AllHarmless
    /\ lands /\ page.at = "form" /\ net.at = "none" => AllHarmless
    /\ Final /\ n \in repeated => lands
    /\ Final /\ n \in repeated /\ Early => AllHarmless /\ Blank
    /\ Late /\ lands /\ page.at = "form" /\ submitted.fills # <<>> /\ page.doc # submitted.doc => AllHarmless /\ Blank
    /\ phase = "act" /\ step.tool \in Submits /\ submitted.fills # <<>> /\ page.doc # submitted.doc =>
        \A f \in Fields : page.val[f] = <<>>
    /\ page.at = "record" \/ page.row \/ net.at = "taken" \/ phase = "done" => posts # <<>>

LEMMA StepIs ==
    ASSUME PlaceType
    PROVE  /\ rec \in Seq(Step) /\ Len(rec) \in Nat \ {0} /\ n \in 1..Len(rec) /\ step \in Step /\ Given(step)
           /\ Final <=> step.tool \in {"save", "press"}
           /\ rec[Len(rec)].tool \in {"save", "press"}
<1>1. rec \in Seq(Step) /\ Len(rec) > 0 /\ rec[Len(rec)].tool \in {"save", "press"}
      /\ (\A i \in 1..Len(rec) - 1 : rec[i].tool \notin {"save", "press"})
      /\ (\A i \in DOMAIN rec : Given(rec[i]))
  BY RecordingsAssumption DEF PlaceType
<1>2. n \in 1..Len(rec) /\ Len(rec) \in Nat
  BY <1>1 DEF PlaceType
<1>3. n = Len(rec) \/ n \in 1..Len(rec) - 1
  BY <1>2
<1> QED BY <1>1, <1>2, <1>3 DEF step, Final

LEMMA StepParts ==
    ASSUME PlaceType
    PROVE  /\ step.tool \in {"fill", "type", "save", "press", "pick", "check"}
           /\ step.tool \in {"fill", "type", "press"} => step.on \in Fields
           /\ step.tool = "type" => step.value \in Values
           /\ step.value \in Values \cup {Nil}
<1>1. step \in Step /\ Given(step)
  BY StepIs
<1> QED BY <1>1 DEF Step, Given, Submits, Retires

LEMMA NetParts ==
    ASSUME NetType
    PROVE  /\ net.at \in {"none", "sent", "taken"} /\ (net = NoForm <=> net.at = "none")
           /\ net.at # "none" => net.form \in Form /\ net.excused \in SUBSET Fields
BY DEF NetType, NoForm

LEMMA BlurFirstIs ==
    ASSUME NEW p \in Page
    PROVE  blurFirst(p) \in Page /\ blurFirst(p).doc = p.doc /\ blurFirst(p).at = p.at /\ blurFirst(p).row = p.row
BY BlurIs DEF blurFirst

\* The page during a check is as good as its refills.
LEMMA RefillIs ==
    ASSUME NEW p \in Page, NEW f \in Fields, NEW v \in Values
    PROVE  LET q == blurFirst(reactSafeFill(p, f, v))
               r == blurFirst(typeInto(p, f, v))
           IN  /\ q \in Page /\ q.doc = p.doc /\ q.at = p.at /\ q.row = p.row
               /\ r \in Page /\ r.doc = p.doc /\ r.at = p.at /\ r.row = p.row
<1>1. Put(p, f, TextOf(v), f \in Keyed /\ v # Nil, reactSafeFill(p, f, v))
  BY FillIs
<1>2. Put(p, f, <<v>>, FALSE, typeInto(p, f, v))
  BY TypeIntoIs
<1> QED BY <1>1, <1>2, BlurFirstIs DEF Put

LEMMA EntryIs ==
    ASSUME CheckType, Checking, check.i <= Len(check.fills)
    PROVE  /\ entry \in Fill /\ entry.on \in Fields /\ entry.value \in Values
           /\ check.i \in 1..Len(check.fills) /\ check.i \in Nat \ {0}
           /\ check.fills \in Seq(Fill) /\ check.pass \in 1..2 /\ check.doc \in 1..MaxReloads + 1 
<1>1. /\ check.fills \in Seq(Fill) /\ check.i \in Nat \ {0} /\ check.pass \in 1..2 /\ check.doc \in 1..MaxReloads + 1 
  BY DEF CheckType
<1>2. check.i \in 1..Len(check.fills)
  BY <1>1
<1>3. entry \in Fill
  BY <1>1, <1>2 DEF entry
<1> QED BY <1>1, <1>2, <1>3 DEF Fill

LEMMA FillsTypeInit == FillsInit => FillsTypeInv
<1> SUFFICES ASSUME FillsInit PROVE FillsTypeInv
  OBVIOUS
<1>1. MaxReloads \in Nat /\ 1 \in 1..MaxReloads + 1
  BY FormAssumption
<1>2. page \in Page /\ page.doc = 1
  <2>1. page = Document(1, Fields, FALSE)
    BY DEF FillsInit
  <2>2. page \in Page
    BY <1>1, <2>1, DocumentIn
  <2>3. Document(1, Fields, FALSE).doc = 1
    BY DEF Document
  <2> QED BY <2>1, <2>2, <2>3
<1>3. rec \in Seq(Step) /\ Len(rec) > 0
  BY RecordingsAssumption DEF FillsInit
<1>4. PlaceType
  <2>1. n = 1 /\ phase = "step" /\ before = 1 /\ repeated = {} /\ gone = {} /\ unseen = {} /\ astray = {} /\ slow = FALSE
        /\ rec \in Recordings /\ lands \in BOOLEAN
    BY DEF FillsInit
  <2>2. n \in DOMAIN rec
    BY <2>1, <1>3
  <2>3. before \in 1..MaxReloads + 1 /\ before <= page.doc
    BY <2>1, <1>1, <1>2
  <2>4. repeated \subseteq 1..n /\ gone \cup unseen \cup astray \subseteq Fields
    BY <2>1
  <2> QED BY <2>1, <2>2, <2>3, <2>4 DEF PlaceType
<1>5. fills = <<>> /\ submitted = Nothing /\ check = Nothing /\ phase = "step" /\ posts = <<>> /\ net = NoForm
  BY DEF FillsInit
<1>6. <<>> \in Seq(Fill) /\ <<>> \in Seq(Post) /\ Single(<<>>)
  BY DEF Single
<1>7. Nothing \in [fills : Seq(Fill), doc : 0..MaxReloads + 1] /\ Nothing.doc = 0 /\ Nothing.fills = <<>>
  BY <1>1, <1>6 DEF Nothing
<1>8. LedgerType /\ CheckType
  BY <1>1, <1>2, <1>5, <1>6, <1>7 DEF LedgerType, CheckType, Checking
<1> QED BY <1>2, <1>4, <1>5, <1>6, <1>8 DEF FillsTypeInv, NetType, PostType

LEMMA RestoreType == FillsTypeInv /\ Restore => FillsTypeInv'
<1> SUFFICES ASSUME FillsTypeInv, Restore PROVE FillsTypeInv'
  OBVIOUS
<1>0. page \in Page /\ NetType /\ PostType /\ LedgerType /\ CheckType /\ PlaceType
  BY DEF FillsTypeInv
<1>1. page' \in Page /\ page'.doc = page.doc /\ page.doc \in 1..MaxReloads + 1
  BY <1>0, BlurFirstIs DEF Restore, Page
<1>2. LedgerType'
  <2>1. CASE step.tool \in Submits \cup Retires
    <3>1. fills' = <<>> /\ submitted' = [fills |-> <<>>, doc |-> 0]
      BY <2>1 DEF Restore, Nothing
    <3>2. <<>> \in Seq(Fill) /\ 0 \in 0..MaxReloads + 1 /\ 0 <= page.doc /\ Single(<<>>)
      BY <1>1, FormAssumption DEF Single
    <3>3. submitted' \in [fills : Seq(Fill), doc : 0..MaxReloads + 1] /\ submitted'.doc <= page'.doc
      BY <3>1, <3>2, <1>1
    <3> QED BY <3>1, <3>2, <3>3 DEF LedgerType
  <2>2. CASE step.tool \notin Submits \cup Retires
    BY <2>2, <1>0, <1>1 DEF Restore, LedgerType
  <2> QED BY <2>1, <2>2
<1>3. CheckType'
  <2>1. CASE step.tool \in Submits /\ fills # <<>>
    <3>1. check' = [fills |-> fills, doc |-> page.doc, pass |-> 1, i |-> 1] /\ phase' = "look" /\ step' = step
      BY <2>1 DEF Restore, step
    <3>2. fills \in Seq(Fill) /\ Len(fills) \in Nat /\ Single(fills)
      BY <1>0 DEF LedgerType
    <3>3. check' \in [fills : Seq(Fill), doc : 1..MaxReloads + 1, pass : 1..2, i : Nat \ {0}]
      BY <3>1, <3>2, <1>1
    <3> QED BY <3>1, <3>2, <3>3, <2>1 DEF CheckType
  <2>2. CASE ~(step.tool \in Submits /\ fills # <<>>)
    BY <2>2, <1>0 DEF Restore, CheckType, Checking
  <2> QED BY <2>1, <2>2
<1>4. PlaceType'
  <2>0. \A i \in DOMAIN fills : fills[i] \in Fill
    BY <1>0 DEF LedgerType
  <2>1. {fills[i].on : i \in DOMAIN fills} \subseteq Fields
    BY <2>0 DEF Fill
  <2>2. gone' \cup unseen' \cup astray' \subseteq Fields
    BY <2>1, <1>0 DEF Restore, PlaceType, Forgotten
  <2>3. phase' \in {"look", "act"} /\ UNCHANGED <<rec, lands, n, before, repeated, slow>>
    BY DEF Restore
  <2> QED BY <2>2, <2>3, <1>0, <1>1 DEF PlaceType
<1> QED BY <1>0, <1>1, <1>2, <1>3, <1>4 DEF FillsTypeInv, Restore, NetType, PostType

LEMMA LookType == FillsTypeInv /\ Look => FillsTypeInv'
<1> SUFFICES ASSUME FillsTypeInv, Look PROVE FillsTypeInv'
  OBVIOUS
<1>0. page \in Page /\ NetType /\ PostType /\ LedgerType /\ CheckType /\ PlaceType
  BY DEF FillsTypeInv
<1>1. Checking /\ check.i <= Len(check.fills) /\ step' = step
  BY DEF Look, Checking, step
<1>2. entry.on \in Fields /\ check.i \in 1..Len(check.fills) /\ check.fills \in Seq(Fill) /\ Single(check.fills)
      /\ check \in [fills : Seq(Fill), doc : 1..MaxReloads + 1, pass : 1..2, i : Nat \ {0}] /\ step.tool \in Submits
  BY <1>0, <1>1, EntryIs DEF CheckType
<1>3. CheckType'
  <2>1. CASE NextEntry
    <3>1. check' = [check EXCEPT !.i = @ + 1] /\ phase' = "look"
      BY <2>1 DEF NextEntry
    <3> QED BY <3>1, <1>1, <1>2 DEF CheckType
  <2>2. CASE phase' = "set" /\ UNCHANGED check
    BY <2>2, <1>1, <1>2 DEF CheckType
  <2> QED BY <2>1, <2>2 DEF Look
<1>4. PlaceType'
  <2>1. phase' \in {"look", "set"} /\ UNCHANGED <<page, rec, lands, n, before, repeated, gone, astray>>
    BY DEF Look, NextEntry
  <2>2. unseen' \subseteq Fields /\ slow' \in BOOLEAN
    BY <1>0, <1>2 DEF Look, PlaceType
  <2> QED BY <2>1, <2>2, <1>0 DEF PlaceType
<1> QED BY <1>0, <1>3, <1>4 DEF FillsTypeInv, Look, NetType, PostType, LedgerType

LEMMA SetAgainType == FillsTypeInv /\ SetAgain => FillsTypeInv'
<1> SUFFICES ASSUME FillsTypeInv, SetAgain PROVE FillsTypeInv'
  OBVIOUS
<1>0. page \in Page /\ NetType /\ PostType /\ LedgerType /\ CheckType /\ PlaceType
  BY DEF FillsTypeInv
<1>1. Checking /\ check.i <= Len(check.fills) /\ step' = step
  BY <1>0 DEF SetAgain, Checking, step, CheckType
<1>2. entry.on \in Fields /\ entry.value \in Values /\ check.i \in 1..Len(check.fills) /\ check.fills \in Seq(Fill) /\ Single(check.fills)
      /\ check \in [fills : Seq(Fill), doc : 1..MaxReloads + 1, pass : 1..2, i : Nat \ {0}] /\ step.tool \in Submits
  BY <1>0, <1>1, EntryIs DEF CheckType
<1>3. page' \in Page /\ page'.doc = page.doc
  BY <1>0, <1>2, RefillIs DEF SetAgain
<1>4. CheckType'
  <2>1. CASE NextEntry
    <3>1. check' = [check EXCEPT !.i = @ + 1] /\ phase' = "look"
      BY <2>1 DEF NextEntry
    <3> QED BY <3>1, <1>1, <1>2 DEF CheckType
  <2>2. CASE phase' = "confirm" /\ UNCHANGED check
    BY <2>2, <1>1, <1>2 DEF CheckType
  <2> QED BY <2>1, <2>2 DEF SetAgain
<1>5. PlaceType'
  <2>1. phase' \in {"look", "confirm"} /\ UNCHANGED <<rec, lands, n, before, repeated, astray>>
    BY DEF SetAgain, NextEntry
  <2>2. unseen' \subseteq Fields /\ slow' \in BOOLEAN /\ gone' \subseteq Fields
    BY <1>0, <1>2 DEF SetAgain, PlaceType, Swept
  <2> QED BY <2>1, <2>2, <1>0, <1>3 DEF PlaceType
<1> QED BY <1>0, <1>3, <1>4, <1>5 DEF FillsTypeInv, SetAgain, NetType, PostType, LedgerType

LEMMA ConfirmType == FillsTypeInv /\ Confirm => FillsTypeInv'
<1> SUFFICES ASSUME FillsTypeInv, Confirm PROVE FillsTypeInv'
  OBVIOUS
<1>0. page \in Page /\ NetType /\ PostType /\ LedgerType /\ CheckType /\ PlaceType
  BY DEF FillsTypeInv
<1>1. Checking /\ check.i <= Len(check.fills) /\ step' = step
  BY <1>0 DEF Confirm, Checking, step, CheckType
<1>2. entry.on \in Fields /\ entry.value \in Values /\ check.i \in 1..Len(check.fills) /\ check.fills \in Seq(Fill) /\ Single(check.fills)
      /\ check \in [fills : Seq(Fill), doc : 1..MaxReloads + 1, pass : 1..2, i : Nat \ {0}] /\ step.tool \in Submits
  BY <1>0, <1>1, EntryIs DEF CheckType
<1>3. page' \in Page /\ page'.doc = page.doc
  BY <1>0, <1>2, RefillIs DEF Confirm
<1>4. CheckType'
  <2>1. check' = [check EXCEPT !.i = @ + 1] /\ phase' = "look"
    BY DEF Confirm, NextEntry
  <2> QED BY <2>1, <1>1, <1>2 DEF CheckType
<1>5. PlaceType'
  <2>1. phase' = "look" /\ UNCHANGED <<rec, lands, n, before, repeated, astray>>
    BY DEF Confirm, NextEntry
  <2>2. unseen' \subseteq Fields /\ slow' \in BOOLEAN /\ gone' \subseteq Fields
    BY <1>0, <1>2 DEF Confirm, PlaceType, Swept
  <2> QED BY <2>1, <2>2, <1>0, <1>3 DEF PlaceType
<1> QED BY <1>0, <1>3, <1>4, <1>5 DEF FillsTypeInv, Confirm, NetType, PostType, LedgerType

LEMMA EndCheckType == FillsTypeInv /\ EndCheck => FillsTypeInv'
<1> SUFFICES ASSUME FillsTypeInv, EndCheck PROVE FillsTypeInv'
  OBVIOUS
<1>0. page \in Page /\ NetType /\ PostType /\ LedgerType /\ CheckType /\ PlaceType
  BY DEF FillsTypeInv
<1>1. Checking /\ step' = step
  BY DEF EndCheck, Checking, step
<1>2. check \in [fills : Seq(Fill), doc : 1..MaxReloads + 1, pass : 1..2, i : Nat \ {0}] /\ step.tool \in Submits /\ Single(check.fills)
  BY <1>0, <1>1 DEF CheckType
<1>3. page' \in Page /\ page'.doc = page.doc /\ page.doc \in 1..MaxReloads + 1
  BY <1>0, BlurFirstIs DEF EndCheck, Page
<1>4. CASE Again
  <2>1. check' = [check EXCEPT !.doc = page.doc, !.pass = 2, !.i = 1] /\ phase' = "look" /\ submitted' = submitted
    BY <1>4 DEF EndCheck
  <2>5. check.fills \in Seq(Fill) /\ Len(check.fills) \in Nat
    BY <1>2
  <2>6. check' \in [fills : Seq(Fill), doc : 1..MaxReloads + 1, pass : 1..2, i : Nat \ {0}] /\ check'.i = 1 /\ check'.fills = check.fills
    <3> DEFINE c == check
               d == page.doc
    <3>1. c \in [fills : Seq(Fill), doc : 1..MaxReloads + 1, pass : 1..2, i : Nat \ {0}] /\ d \in 1..MaxReloads + 1
      BY <1>2, <1>3
    <3> HIDE DEF c, d
    <3>2. 2 \in 1..2 /\ 1 \in Nat \ {0}
      OBVIOUS
    <3>3. [c EXCEPT !.doc = d, !.pass = 2, !.i = 1] \in [fills : Seq(Fill), doc : 1..MaxReloads + 1, pass : 1..2, i : Nat \ {0}]
      BY <3>1, <3>2
    <3>4. [c EXCEPT !.doc = d, !.pass = 2, !.i = 1].i = 1 /\ [c EXCEPT !.doc = d, !.pass = 2, !.i = 1].fills = c.fills
      BY <3>1
    <3> QED BY <2>1, <3>3, <3>4 DEF c, d
  <2>2. CheckType'
    BY <2>1, <2>5, <2>6, <1>1, <1>2, <1>3 DEF CheckType
  <2>3. PlaceType'
    BY <2>1, <1>0, <1>3, <1>4 DEF PlaceType, EndCheck
  <2>4. LedgerType'
    BY <2>1, <1>0, <1>3 DEF LedgerType, EndCheck
  <2> QED BY <2>2, <2>3, <2>4, <1>0, <1>3 DEF FillsTypeInv, EndCheck, NetType, PostType
<1>5. CASE ~Again
  <2>1. check' = check /\ phase' = "act" /\ submitted' = [fills |-> check.fills, doc |-> page.doc]
    BY <1>5 DEF EndCheck
  <2>2. CheckType'
    BY <2>1, <1>1, <1>2, <1>3 DEF CheckType, Checking
  <2>3. PlaceType'
    BY <2>1, <1>0, <1>3, <1>5 DEF PlaceType, EndCheck
  <2>4. LedgerType'
    BY <2>1, <1>0, <1>2, <1>3 DEF LedgerType, EndCheck
  <2> QED BY <2>2, <2>3, <2>4, <1>0, <1>3 DEF FillsTypeInv, EndCheck, NetType, PostType
<1> QED BY <1>4, <1>5

LEMMA NextNumber ==
    ASSUME NEW k \in Nat, NEW m \in 1..k, m # k
    PROVE  m + 1 \in 1..k
OBVIOUS

LEMMA WithoutIs ==
    ASSUME NEW S, NEW s \in Seq(S), NEW a \in 1..Len(s)
    PROVE  LET q == SubSeq(s, 1, a - 1) \o SubSeq(s, a + 1, Len(s))
           IN  q \in Seq(S) /\ Len(q) = Len(s) - 1 /\ \A k \in 1..Len(s) - 1 : q[k] = IF k < a THEN s[k] ELSE s[k + 1]
<1> DEFINE m == Len(s)
           front == SubSeq(s, 1, a - 1)
           back == SubSeq(s, a + 1, m)
<1>1. m \in Nat /\ a \in 1..m /\ a \in Int /\ 1 \in Int /\ a - 1 \in Int /\ a + 1 \in Int /\ m \in Int
      /\ (\A i \in 1..m : s[i] \in S)
  OBVIOUS
<1> HIDE DEF m
<1>2. (\A i \in 1..a - 1 : s[i] \in S) /\ (\A i \in a + 1..m : s[i] \in S)
  BY <1>1
<1>3. front \in Seq(S) /\ Len(front) = (IF 1 <= a - 1 THEN a - 1 - 1 + 1 ELSE 0)
      /\ \A i \in 1..a - 1 - 1 + 1 : front[i] = s[1 + i - 1]
  BY <1>1, <1>2, SubSeqProperties
<1>4. back \in Seq(S) /\ Len(back) = (IF a + 1 <= m THEN m - (a + 1) + 1 ELSE 0)
      /\ \A i \in 1..m - (a + 1) + 1 : back[i] = s[a + 1 + i - 1]
  BY <1>1, <1>2, SubSeqProperties
<1> HIDE DEF front, back
<1>5. Len(front) = a - 1 /\ Len(back) = m - a
  BY <1>1, <1>3, <1>4
<1>6. ASSUME NEW i \in 1..a - 1 PROVE front[i] = s[i]
  <2>1. i \in 1..a - 1 - 1 + 1 /\ 1 + i - 1 = i
    BY <1>1
  <2> QED BY <2>1, <1>3
<1>7. ASSUME NEW i \in 1..m - a PROVE back[i] = s[a + i]
  <2>1. i \in 1..m - (a + 1) + 1 /\ a + 1 + i - 1 = a + i
    BY <1>1
  <2> QED BY <2>1, <1>4
<1> DEFINE q == front \o back
<1>8. q \in Seq(S) /\ Len(q) = Len(front) + Len(back)
      /\ \A i \in 1..Len(front) + Len(back) : q[i] = IF i <= Len(front) THEN front[i] ELSE back[i - Len(front)]
  BY <1>3, <1>4, ConcatProperties
<1> HIDE DEF q
<1>9. Len(q) = m - 1
  BY <1>1, <1>5, <1>8
<1>10. ASSUME NEW k \in 1..m - 1 PROVE q[k] = IF k < a THEN s[k] ELSE s[k + 1]
  <2>1. q[k] = IF k <= a - 1 THEN front[k] ELSE back[k - (a - 1)]
    BY <1>1, <1>5, <1>8
  <2>2. CASE k < a
    BY <2>1, <2>2, <1>1, <1>6
  <2>3. CASE ~(k < a)
    <3>1. k - (a - 1) \in 1..m - a /\ a + (k - (a - 1)) = k + 1
      BY <2>3, <1>1
    <3> QED BY <2>1, <2>3, <3>1, <1>1, <1>7
  <2> QED BY <2>2, <2>3
<1> QED BY <1>8, <1>9, <1>10 DEF q, front, back, m

LEMMA OthersIs ==
    ASSUME fills \in Seq(Fill), Single(fills), NEW f \in Fields
    PROVE  /\ Others(f) \in Seq(Fill) /\ Single(Others(f)) /\ Out(Others(f), f)
           /\ \A k \in DOMAIN Others(f) : \E i \in DOMAIN fills : fills[i] = Others(f)[k]
           /\ \A i \in DOMAIN fills : fills[i].on # f => \E k \in DOMAIN Others(f) : Others(f)[k] = fills[i]
<1>1. CASE ~filledBy(f)
  BY <1>1 DEF Others, filledBy, Out
<1>2. CASE filledBy(f)
  <2> DEFINE a == CHOOSE i \in DOMAIN fills : fills[i].on = f /\ \A j \in 1..i - 1 : fills[j].on # f
             q == SubSeq(fills, 1, a - 1) \o SubSeq(fills, a + 1, Len(fills))
  <2>1. PICK i \in DOMAIN fills : fills[i].on = f
    BY <1>2 DEF filledBy
  <2>2. DOMAIN fills = 1..Len(fills) /\ Len(fills) \in Nat
    OBVIOUS
  <2>3. \A j \in 1..i - 1 : fills[j].on # f
    BY <2>1, <2>2 DEF Single
  <2>4. a \in 1..Len(fills) /\ fills[a].on = f
    BY <2>1, <2>2, <2>3
  <2>5. Others(f) = q
    BY <1>2 DEF Others
  <2> HIDE DEF a
  <2>8. q \in Seq(Fill) /\ Len(q) = Len(fills) - 1 /\ \A k \in 1..Len(fills) - 1 : q[k] = IF k < a THEN fills[k] ELSE fills[k + 1]
    BY <2>4, WithoutIs
  <2> HIDE DEF q
  <2>10. DOMAIN q = 1..Len(fills) - 1
    BY <2>8
  <2>11. \A k \in DOMAIN q : \E j \in DOMAIN fills : fills[j] = q[k] /\ j # a /\ j = IF k < a THEN k ELSE k + 1
    BY <2>2, <2>4, <2>8, <2>10
  <2>12. \A j \in DOMAIN fills : j # a => \E k \in DOMAIN q : q[k] = fills[j]
    <3> TAKE j \in DOMAIN fills
    <3> HAVE j # a
    <3>1. CASE j < a
      BY <3>1, <2>2, <2>4, <2>8, <2>10
    <3>2. CASE j > a
      <4>1. j - 1 \in DOMAIN q /\ ~(j - 1 < a) /\ j - 1 + 1 = j
        BY <3>2, <2>2, <2>4, <2>10
      <4> QED BY <4>1, <2>8, <2>10
    <3> QED BY <3>1, <3>2, <2>2, <2>4
  <2>13. Single(q) /\ Out(q, f)
    BY <2>2, <2>4, <2>10, <2>11 DEF Single, Out
  <2> QED BY <2>4, <2>5, <2>8, <2>11, <2>12, <2>13
<1> QED BY <1>1, <1>2

\* The ledger with the fill at work noted.
Noted == Append(Others(step.on), [on |-> step.on, value |-> step.value, doc |-> page.doc])
LEMMA NotedIs ==
    ASSUME fills \in Seq(Fill), Single(fills), step.on \in Fields, step.value \in Values, page.doc \in 1..MaxReloads + 1
    PROVE  /\ Noted \in Seq(Fill) /\ Single(Noted)
           /\ \A k \in DOMAIN Noted : Noted[k].on = step.on => Noted[k].value = step.value
           /\ \A k \in DOMAIN Noted : Noted[k].on # step.on => \E i \in DOMAIN fills : fills[i] = Noted[k]
           /\ \E k \in DOMAIN Noted : Noted[k].on = step.on /\ Noted[k].value = step.value
           /\ \A i \in DOMAIN fills : fills[i].on # step.on => \E k \in DOMAIN Noted : Noted[k] = fills[i]
<1> DEFINE o == Others(step.on)
           e == [on |-> step.on, value |-> step.value, doc |-> page.doc]
           q == Append(o, e)
<1>1. o \in Seq(Fill) /\ Single(o) /\ Out(o, step.on)
      /\ (\A k \in DOMAIN o : \E i \in DOMAIN fills : fills[i] = o[k])
      /\ (\A i \in DOMAIN fills : fills[i].on # step.on => \E k \in DOMAIN o : o[k] = fills[i])
  BY OthersIs
<1>2. e \in Fill /\ e.on = step.on /\ e.value = step.value
  BY DEF Fill
<1> HIDE DEF o, e
<1>3. q \in Seq(Fill) /\ DOMAIN q = 1..Len(o) + 1 /\ Len(o) \in Nat /\ DOMAIN o = 1..Len(o) /\ q[Len(o) + 1] = e /\ \A k \in 1..Len(o) : q[k] = o[k]
  BY <1>1, <1>2
<1> HIDE DEF q
<1>4. Single(q)
  BY <1>1, <1>2, <1>3 DEF Single, Out
<1>5. \A k \in DOMAIN q : q[k].on = step.on => q[k].value = step.value
  BY <1>1, <1>2, <1>3 DEF Out
<1>6. \A k \in DOMAIN q : q[k].on # step.on => \E i \in DOMAIN fills : fills[i] = q[k]
  BY <1>1, <1>2, <1>3
<1>7. \E k \in DOMAIN q : q[k].on = step.on /\ q[k].value = step.value
  BY <1>2, <1>3
<1>8. \A i \in DOMAIN fills : fills[i].on # step.on => \E k \in DOMAIN q : q[k] = fills[i]
  BY <1>1, <1>3
<1>9. Noted = q
  BY DEF Noted, o, e, q
<1> QED BY <1>3, <1>4, <1>5, <1>6, <1>7, <1>8, <1>9

\* A step ends: the next one, or the end.
LEMMA OnwardIs ==
    ASSUME PlaceType, Onward
    PROVE  /\ ~Final => phase' = "step" /\ n' = n + 1 /\ n' \in DOMAIN rec
           /\ Final => phase' = "done" /\ n' = n
<1>1. n \in 1..Len(rec) /\ Len(rec) \in Nat /\ DOMAIN rec = 1..Len(rec)
  BY StepIs
<1>2. ASSUME n # Len(rec) PROVE n + 1 \in DOMAIN rec
  <2>1. n + 1 \in 1..Len(rec)
    BY <1>1, <1>2, NextNumber
  <2> QED BY <2>1, <1>1
<1> QED BY <1>1, <1>2 DEF Onward, Final

LEMMA PerformType == FillsTypeInv /\ Perform => FillsTypeInv'
<1> SUFFICES ASSUME FillsTypeInv, Perform PROVE FillsTypeInv'
  OBVIOUS
<1>0. page \in Page /\ NetType /\ PostType /\ LedgerType /\ CheckType /\ PlaceType
  BY DEF FillsTypeInv
<1>1. /\ step.tool \in {"fill", "type", "save", "press", "pick", "check"}
      /\ step.tool \in {"fill", "type", "press"} => step.on \in Fields
      /\ step.tool = "type" => step.value \in Values
      /\ step.value \in Values \cup {Nil}
  BY <1>0, StepParts
<1>2. phase = "act" /\ phase' = "judge" /\ before' = page.doc
      /\ UNCHANGED <<rec, lands, n, fills, submitted, check, repeated, unseen, slow, posts>>
  BY DEF Perform, ledger
<1>3. page' \in Page /\ page'.doc = page.doc /\ NetType' /\ gone' \cup astray' \subseteq Fields
  <2>1. CASE step.tool = "fill"
    <3>1. page' = reactSafeFill(page, step.on, step.value) /\ gone' \subseteq gone /\ UNCHANGED <<net, astray>>
      BY <2>1 DEF Perform, Submits, Retires
    <3>2. Put(page, step.on, TextOf(step.value), step.on \in Keyed /\ step.value # Nil, reactSafeFill(page, step.on, step.value))
      BY <1>0, <1>1, <2>1, FillIs
    <3> QED BY <3>1, <3>2, <1>0 DEF Put, NetType, PlaceType
  <2>2. CASE step.tool = "type"
    <3>1. page' = Typed(Cleared(step), step.on, step.value) /\ gone' \subseteq gone /\ astray' \subseteq astray \cup {step.on} /\ UNCHANGED net
      BY <2>2 DEF Perform, Submits, Retires
    <3>2. <<>> \in Seq(Values) /\ FALSE \in BOOLEAN /\ step.on \in Fields /\ step.value \in Values
      BY <1>1, <2>2
    <3>3. Put(page, step.on, <<>>, FALSE, Holding(Focus(page, step.on), step.on, <<>>, FALSE))
      BY <3>2, <1>0, PutIs
    <3>4. Cleared(step) \in Page /\ Cleared(step).doc = page.doc
      BY <3>3, <1>0 DEF Cleared, Put
    <3>5. Put(Cleared(step), step.on, Onto(Cleared(step), step.on) \o <<step.value>>, FALSE, Typed(Cleared(step), step.on, step.value))
      BY <3>2, <3>4, TypedIs
    <3> QED BY <3>1, <3>2, <3>4, <3>5, <1>0 DEF Put, NetType, PlaceType
  <2>3. CASE step.tool \in Submits \cup Retires
    <3>1. page' = Pressed(page, step) /\ gone' \subseteq Fields /\ UNCHANGED astray
          /\ net' \in {net, [at |-> "sent", form |-> FormOf(page'), excused |-> gone' \cup unseen]}
      <4>1. page' = Pressed(page, step) /\ UNCHANGED astray
            /\ gone' = gone \cup {g \in Fields : step.tool = "press" /\ page.val[g] # FormOf(page')[g]}
            /\ net' \in {net, [at |-> "sent", form |-> FormOf(page'), excused |-> gone' \cup unseen]}
        BY <2>3 DEF Perform, Submits, Retires
      <4> QED BY <4>1, <1>0 DEF PlaceType
    <3>2. page' \in Page /\ page'.doc = page.doc
      BY <3>1, <1>0, <1>1, PressedIs
    <3>3. FormOf(page') \in Form
      BY <3>2, FormIs DEF Form
    <3>4. gone' \cup unseen \in SUBSET Fields
      BY <3>1, <1>0 DEF PlaceType
    <3>5. NetType'
      BY <3>1, <3>3, <3>4, <1>0 DEF NetType
    <3> QED BY <3>1, <3>2, <3>5, <1>0 DEF PlaceType
  <2> QED BY <2>1, <2>2, <2>3, <1>1 DEF Submits, Retires
<1>4. LedgerType'
  BY <1>0, <1>2, <1>3 DEF LedgerType
<1>5. CheckType'
  BY <1>0, <1>2 DEF CheckType, Checking
<1>6. PlaceType'
  <2>1. before' \in 1..MaxReloads + 1 /\ before' <= page'.doc /\ page.doc \in 1..MaxReloads + 1
    BY <1>0, <1>2, <1>3, FormAssumption DEF PlaceType, Page
  <2> QED BY <2>1, <1>0, <1>2, <1>3 DEF PlaceType
<1> QED BY <1>0, <1>2, <1>3, <1>4, <1>5, <1>6 DEF FillsTypeInv, PostType

LEMMA ThrownType == FillsTypeInv /\ Thrown => FillsTypeInv'
BY DEF FillsTypeInv, Thrown, ledger, history, NetType, PostType, LedgerType, CheckType, Checking, PlaceType

LEMMA NoTargetType == FillsTypeInv /\ NoTarget => FillsTypeInv'
BY DEF FillsTypeInv, NoTarget, ledger, NetType, PostType, LedgerType, CheckType, Checking, PlaceType

LEMMA JudgeType == FillsTypeInv /\ Judge => FillsTypeInv'
<1> SUFFICES ASSUME FillsTypeInv, Judge PROVE FillsTypeInv'
  OBVIOUS
<1>0. page \in Page /\ NetType /\ PostType /\ LedgerType /\ CheckType /\ PlaceType
  BY DEF FillsTypeInv
<1>1. /\ phase = "judge" /\ UNCHANGED <<page, net, rec, lands, fills, submitted, check, before, gone, unseen, astray, posts>>
      /\ slow' \in BOOLEAN
  BY <1>0 DEF Judge, ledger, PlaceType
<1>2. n \in 1..Len(rec) /\ Len(rec) \in Nat /\ DOMAIN rec = 1..Len(rec) /\ (Final <=> step.tool \in {"save", "press"})
  BY <1>0, StepIs
<1>3. phase' \in {"note", "step", "done", "stopped", "lost"}
  BY DEF Judge, Onward, Stop
<1>4. CheckType'
  BY <1>0, <1>1, <1>3 DEF CheckType, Checking
<1>5. n' \in DOMAIN rec /\ repeated' \subseteq 1..n' /\ (phase' = "done" => n' = Len(rec))
      /\ (phase' = "note" => step.tool = "fill" /\ n' = n) /\ (phase' = "lost" => Final /\ n' = n /\ lands /\ n \notin repeated')
  <2>1. Onward => n' \in {n, n + 1} /\ n' \in DOMAIN rec /\ repeated \subseteq 1..n' /\ (phase' = "done" => n' = Len(rec)) /\ phase' \in {"done", "step"}
    BY <1>0, <1>2 DEF Onward, PlaceType
  <2>2. CASE step.tool = "fill"
    <3>1. phase' \in {"note", "step", "stopped"} /\ n' = n /\ repeated' \subseteq repeated \cup {n}
      BY <2>2 DEF Judge, Stop
    <3> QED BY <3>1, <2>2, <1>0, <1>2 DEF PlaceType
  <2>3. CASE step.tool \in {"type", "pick", "check"}
    <3>1. repeated' = repeated /\ (Onward \/ (phase' = "stopped" /\ n' = n))
      BY <2>3 DEF Judge, Stop
    <3> QED BY <3>1, <2>1, <1>0, <1>2 DEF PlaceType
  <2>4. CASE step.tool \in {"save", "press"}
    <3>1. repeated' = repeated /\ (Onward \/ (phase' = "stopped" /\ n' = n) \/ (phase' = "lost" /\ n' = n /\ lands /\ n \notin repeated))
      BY <2>4 DEF Judge, Stop
    <3> QED BY <3>1, <2>1, <2>4, <1>0, <1>2 DEF PlaceType
  <2> QED BY <2>2, <2>3, <2>4, <1>0, StepParts
<1>6. PlaceType'
  BY <1>0, <1>1, <1>3, <1>5 DEF PlaceType, Final, step
<1> QED BY <1>0, <1>1, <1>4, <1>6 DEF FillsTypeInv, NetType, PostType, LedgerType

LEMMA NoteType == FillsTypeInv /\ Note => FillsTypeInv'
<1> SUFFICES ASSUME FillsTypeInv, Note PROVE FillsTypeInv'
  OBVIOUS
<1>0. page \in Page /\ NetType /\ PostType /\ LedgerType /\ CheckType /\ PlaceType
  BY DEF FillsTypeInv
<1>1. phase = "note" /\ step.tool = "fill" /\ Onward /\ UNCHANGED <<page, net, rec, lands, submitted, check, before, repeated, history, posts>>
  BY <1>0 DEF Note, PlaceType
<1>2. n \in 1..Len(rec) /\ Len(rec) \in Nat /\ DOMAIN rec = 1..Len(rec) /\ (Final <=> step.tool \in {"save", "press"})
  BY <1>0, StepIs
<1>3. phase' = "step" /\ n' = n + 1 /\ n' \in DOMAIN rec
  BY <1>0, <1>1, <1>2, OnwardIs
<1>4. step.on \in Fields /\ step.value \in Values \cup {Nil}
  BY <1>0, <1>1, StepParts
<1>5. fills' \in Seq(Fill) /\ Single(fills')
  <2>1. CASE step.value = Nil
    BY <2>1, <1>0 DEF Note, LedgerType
  <2>2. CASE step.value # Nil
    <3>1. fills' = Noted
      BY <2>2 DEF Note, Noted
    <3>2. page.doc \in 1..MaxReloads + 1
      BY <1>0 DEF Page
    <3> QED BY <2>2, <3>1, <3>2, <1>0, <1>4, NotedIs DEF LedgerType
  <2> QED BY <2>1, <2>2
<1>6. LedgerType'
  BY <1>0, <1>1, <1>5 DEF LedgerType
<1>7. CheckType'
  BY <1>0, <1>1, <1>3 DEF CheckType, Checking
<1>8. PlaceType'
  BY <1>0, <1>1, <1>2, <1>3 DEF PlaceType, history
<1> QED BY <1>0, <1>1, <1>6, <1>7, <1>8 DEF FillsTypeInv, NetType, PostType

LEMMA LostType == FillsTypeInv /\ Lost => FillsTypeInv'
<1> SUFFICES ASSUME FillsTypeInv, Lost PROVE FillsTypeInv'
  OBVIOUS
<1>0. page \in Page /\ NetType /\ PostType /\ LedgerType /\ CheckType /\ PlaceType
  BY DEF FillsTypeInv
<1>1. phase = "lost" /\ phase' \in {"step", "stopped"} /\ slow' \in BOOLEAN
      /\ UNCHANGED <<page, net, rec, lands, n, check, before, gone, unseen, astray, posts>> /\ repeated' \subseteq repeated \cup {n}
  BY <1>0 DEF Lost, PlaceType
<1>2. n \in 1..Len(rec) /\ Len(rec) \in Nat
  BY <1>0, StepIs
<1>3. LedgerType'
  <2>1. CASE fills' = submitted.fills /\ submitted' = Nothing
    <3>1. <<>> \in Seq(Fill) /\ 0 \in 0..MaxReloads + 1 /\ page.doc \in Nat /\ Single(<<>>)
      BY <1>0, FormAssumption DEF Page, Single
    <3>2. submitted' \in [fills : Seq(Fill), doc : 0..MaxReloads + 1] /\ submitted'.doc <= page.doc /\ submitted'.fills = <<>>
      BY <2>1, <3>1 DEF Nothing
    <3>3. submitted.fills \in Seq(Fill) /\ Single(submitted.fills)
      BY <1>0 DEF LedgerType
    <3>4. fills' \in Seq(Fill) /\ Single(fills') /\ Single(submitted.fills)'
      BY <2>1, <3>1, <3>2, <3>3
    <3>5. submitted'.doc <= page'.doc
      BY <3>2, <1>1
    <3> QED BY <3>2, <3>4, <3>5 DEF LedgerType
  <2>2. CASE UNCHANGED <<fills, submitted>>
    BY <2>2, <1>0, <1>1 DEF LedgerType
  <2> QED BY <2>1, <2>2 DEF Lost
<1>4. CheckType'
  BY <1>0, <1>1 DEF CheckType, Checking
<1>5. PlaceType'
  BY <1>0, <1>1, <1>2 DEF PlaceType
<1> QED BY <1>0, <1>1, <1>3, <1>4, <1>5 DEF FillsTypeInv, NetType, PostType

\* The answer to the last form taken was cut off.
CutOff == [posts EXCEPT ![Len(posts)].cut = TRUE]
LEMMA CutIs ==
    ASSUME posts \in Seq(Post)
    PROVE  /\ CutOff \in Seq(Post) /\ DOMAIN CutOff = DOMAIN posts /\ Len(CutOff) = Len(posts)
           /\ \A i \in DOMAIN posts : CutOff[i].form = posts[i].form /\ CutOff[i].excused = posts[i].excused
           /\ \A i \in DOMAIN posts : CutOff[i].cut = (i = Len(posts) \/ posts[i].cut)
<1> DEFINE m == Len(posts)
<1>1. DOMAIN posts = 1..m /\ m \in Nat
  OBVIOUS
<1>2. \A i \in 1..m : posts[i] \in Post
  OBVIOUS
<1>3. \A r \in Post : [r EXCEPT !.cut = TRUE] \in Post /\ [r EXCEPT !.cut = TRUE].form = r.form
      /\ [r EXCEPT !.cut = TRUE].excused = r.excused /\ [r EXCEPT !.cut = TRUE].cut = TRUE
  BY DEF Post
<1> DEFINE last == [posts[m] EXCEPT !.cut = TRUE]
<1>4. CutOff = [posts EXCEPT ![m] = last]
  BY DEF CutOff
<1> HIDE DEF m
<1>5. m \in 1..m => last \in Post /\ last.form = posts[m].form /\ last.excused = posts[m].excused /\ last.cut = TRUE
  BY <1>2, <1>3
<1> HIDE DEF last
<1>6. \A i \in 1..m : CutOff[i] = IF i = m THEN last ELSE posts[i]
  BY <1>1, <1>4
<1>7. DOMAIN CutOff = 1..m
  BY <1>1, <1>4
<1>8. \A i \in 1..m : CutOff[i] \in Post
  BY <1>2, <1>5, <1>6
<1>9. CutOff = [i \in 1..m |-> CutOff[i]]
  BY <1>1, <1>4, <1>7
<1>10. CutOff \in [1..m -> Post]
  BY <1>8, <1>9
<1>11. CutOff \in Seq(Post) /\ Len(CutOff) = m
  BY <1>1, <1>10, IsASeq, LenProperties, <1>7
<1>12. \A i \in 1..m : posts[i].cut \in BOOLEAN
  BY <1>2 DEF Post
<1>13. \A i \in 1..m : CutOff[i].form = posts[i].form /\ CutOff[i].excused = posts[i].excused
  BY <1>5, <1>6
<1>14. \A i \in 1..m : CutOff[i].cut = (i = m \/ posts[i].cut)
  <2> TAKE i \in 1..m
  <2>1. CASE i = m
    BY <2>1, <1>5, <1>6
  <2>2. CASE i # m
    <3>1. CutOff[i] = posts[i] /\ posts[i].cut \in BOOLEAN
      BY <2>2, <1>6, <1>12
    <3> QED BY <3>1, <2>2
  <2> QED BY <2>1, <2>2
<1> QED BY <1>1, <1>7, <1>11, <1>13, <1>14 DEF m

LEMMA TakeIs ==
    ASSUME posts \in Seq(Post), NEW p \in Post
    PROVE  /\ Append(posts, p) \in Seq(Post) /\ DOMAIN Append(posts, p) = 1..Len(posts) + 1 /\ Len(Append(posts, p)) = Len(posts) + 1
           /\ Append(posts, p)[Len(posts) + 1] = p /\ \A i \in DOMAIN posts : Append(posts, p)[i] = posts[i]
           /\ Len(posts) \in Nat /\ DOMAIN posts = 1..Len(posts)
OBVIOUS

LEMMA ReloadType == FillsTypeInv /\ Reload => FillsTypeInv'
<1> SUFFICES ASSUME FillsTypeInv, Reload PROVE FillsTypeInv'
  OBVIOUS
<1>0. page \in Page /\ NetType /\ PostType /\ LedgerType /\ CheckType /\ PlaceType
  BY DEF FillsTypeInv
<1>1. page.doc \in 1..MaxReloads + 1 /\ page.doc <= MaxReloads /\ page' = Document(page.doc + 1, {}, posts # <<>>)
      /\ UNCHANGED <<rec, lands, phase, n, fills, submitted, check, before, repeated, astray, slow>> /\ net' = NoForm
  BY <1>0 DEF Reload, Page, ledger
<1>2. page.doc + 1 \in 1..MaxReloads + 1 /\ {} \in SUBSET Fields /\ (posts # <<>>) \in BOOLEAN
  BY <1>1, FormAssumption
<1>3. page' \in Page /\ page'.doc = page.doc + 1
  <2>1. page' \in Page
    BY <1>1, <1>2, DocumentIn
  <2> QED BY <1>1, <2>1, DocumentIs
<1>4. PostType'
  BY <1>0, CutIs DEF Reload, PostType, CutOff
<1>5. LedgerType'
  <2>1. submitted \in [fills : Seq(Fill), doc : 0..MaxReloads + 1] /\ submitted.doc <= page.doc
    BY <1>0 DEF LedgerType
  <2>2. submitted.doc <= page'.doc
    BY <1>1, <1>3, <2>1, FormAssumption
  <2> QED BY <2>2, <1>0, <1>1 DEF LedgerType
<1>6. CheckType'
  BY <1>0, <1>1 DEF CheckType, Checking, step
<1>7. gone' \cup unseen' \subseteq Fields
  BY <1>0 DEF Reload, PlaceType, Unkept
<1>8. before <= page'.doc
  BY <1>0, <1>1, <1>3, FormAssumption DEF PlaceType
<1>9. PlaceType'
  BY <1>0, <1>1, <1>7, <1>8 DEF PlaceType, Final, step
<1> QED BY <1>1, <1>3, <1>4, <1>5, <1>6, <1>9 DEF FillsTypeInv, NetType

LEMMA BuildIs ==
    ASSUME NEW p \in Page, NEW f \in Fields
    PROVE  LET q == [p EXCEPT !.built = @ \cup {f}]
           IN  /\ q \in Page /\ q.doc = p.doc /\ q.val = p.val /\ q.soft = p.soft /\ q.at = p.at /\ q.row = p.row /\ q.focus = p.focus
               /\ q.built = p.built \cup {f}
BY DEF Page

LEMMA EmptiedIs ==
    ASSUME NEW p \in Page
    PROVE  LET q == [p EXCEPT !.val = [f \in Fields |-> <<>>], !.soft = {}]
           IN  /\ q \in Page /\ q.doc = p.doc /\ q.soft = {} /\ q.at = p.at /\ q.row = p.row /\ q.focus = p.focus /\ q.built = p.built
               /\ \A f \in Fields : q.val[f] = <<>>
<1>1. [f \in Fields |-> <<>>] \in [Fields -> Seq(Values)]
  OBVIOUS
<1> QED BY <1>1 DEF Page

LEMMA LandedIs ==
    ASSUME page \in Page, Land, lands \in BOOLEAN
    PROVE  /\ page' \in Page /\ page'.doc = page.doc /\ page'.built = page.built /\ page'.soft = {} /\ page'.focus = Nil
           /\ page'.at = (IF lands THEN "record" ELSE "form") /\ page'.row = (~lands \/ page.row)
           /\ \A f \in Fields : page'.val[f] = <<>>
<1>1. page.doc \in 1..MaxReloads + 1 /\ page.built \in SUBSET Fields /\ (~lands \/ page.row) \in BOOLEAN
  BY DEF Page
<1> DEFINE row == ~lands \/ page.row
           d == Document(page.doc, page.built, row)
           where == IF lands THEN "record" ELSE "form"
<1>2. /\ d \in Page /\ d.doc = page.doc /\ d.built = page.built
      /\ d.soft = {} /\ d.focus = Nil /\ d.row = row /\ \A f \in Fields : d.val[f] = <<>>
  <2>1. row \in BOOLEAN
    BY <1>1
  <2>2. d \in Page
    BY <1>1, <2>1, DocumentIn
  <2>3. /\ d.doc = page.doc /\ d.built = page.built /\ d.row = row
        /\ d.soft = {} /\ d.focus = Nil /\ \A f \in Fields : d.val[f] = <<>>
    BY DocumentIs
  <2> QED BY <2>2, <2>3
<1>3. page' = [d EXCEPT !.at = where]
  BY DEF Land
<1>4. where \in {"form", "record"}
  OBVIOUS
<1> HIDE DEF d, where
<1>5. /\ [d EXCEPT !.at = where] \in Page /\ [d EXCEPT !.at = where].doc = d.doc /\ [d EXCEPT !.at = where].built = d.built
      /\ [d EXCEPT !.at = where].soft = d.soft /\ [d EXCEPT !.at = where].focus = d.focus
      /\ [d EXCEPT !.at = where].at = where /\ [d EXCEPT !.at = where].row = d.row /\ [d EXCEPT !.at = where].val = d.val
  BY <1>2, <1>4 DEF Page
<1> QED BY <1>2, <1>3, <1>5 DEF where

\* What the page and the server do leaves the replay where it is.
LEMMA BesideType ==
    ASSUME FillsTypeInv, page' \in Page, page'.doc = page.doc, NetType', PostType', gone' \subseteq Fields,
           UNCHANGED <<rec, lands, phase, n, fills, submitted, check, before, repeated, unseen, astray, slow>>
    PROVE  FillsTypeInv'
<1>0. LedgerType /\ CheckType /\ PlaceType
  BY DEF FillsTypeInv
<1>1. LedgerType' /\ CheckType'
  BY <1>0 DEF LedgerType, CheckType, Checking, step
<1>2. PlaceType'
  BY <1>0 DEF PlaceType, Final, step
<1> QED BY <1>1, <1>2 DEF FillsTypeInv

LEMMA BesidesType ==
    ASSUME FillsTypeInv, (\E f \in Fields : Build(f)) \/ Arrive \/ Reset \/ Land
    PROVE  FillsTypeInv'
<1>0. page \in Page /\ NetType /\ PostType /\ PlaceType /\ gone \subseteq Fields
  BY DEF FillsTypeInv, PlaceType
<1>1. CASE \E f \in Fields : Build(f)
  <2>1. PICK f \in Fields : Build(f)
    BY <1>1
  <2>2. page' = [page EXCEPT !.built = @ \cup {f}]
    BY <2>1 DEF Build
  <2>3. page' \in Page /\ page'.doc = page.doc
    BY <2>2, <1>0, BuildIs
  <2>4. UNCHANGED <<net, rec, lands, phase, n, fills, submitted, check, before, repeated, gone, unseen, astray, slow, posts>>
    BY <2>1 DEF Build, ledger, history
  <2> QED BY <2>3, <2>4, <1>0, BesideType DEF NetType, PostType
<1>2. CASE Arrive
  <2>1. net.at = "sent" /\ net' = [net EXCEPT !.at = "taken"]
        /\ posts' = Append(posts, [form |-> net.form, excused |-> net.excused, cut |-> FALSE])
        /\ UNCHANGED <<page, rec, lands, phase, n, fills, submitted, check, before, repeated, gone, unseen, astray, slow>>
    BY <1>2 DEF Arrive, ledger, history
  <2>2. net \in [at : {"sent", "taken"}, form : Form, excused : SUBSET Fields]
    BY <2>1, <1>0 DEF NetType, NoForm
  <2>3. NetType'
    BY <2>1, <2>2 DEF NetType
  <2>4. [form |-> net.form, excused |-> net.excused, cut |-> FALSE] \in Post
    BY <2>2 DEF Post
  <2>5. PostType'
    BY <2>1, <2>4, <1>0, TakeIs DEF PostType
  <2> QED BY <2>1, <2>3, <2>5, <1>0, BesideType
<1>3. CASE Reset
  <2>1. page' = [page EXCEPT !.val = [f \in Fields |-> <<>>], !.soft = {}]
        /\ UNCHANGED <<net, rec, lands, phase, n, fills, submitted, check, before, repeated, unseen, astray, slow, posts>>
    BY <1>3 DEF Reset, ledger
  <2>2. page' \in Page /\ page'.doc = page.doc
    BY <2>1, <1>0, EmptiedIs
  <2>3. gone' \subseteq Fields
    BY <1>0, <1>3 DEF Reset, Unkept
  <2> QED BY <2>1, <2>2, <2>3, <1>0, BesideType DEF NetType, PostType
<1>4. CASE Land
  <2>1. net' = NoForm /\ UNCHANGED <<rec, lands, phase, n, fills, submitted, check, before, repeated, gone, unseen, astray, slow, posts>>
    BY <1>4 DEF Land, ledger, history
  <2>2. page' \in Page /\ page'.doc = page.doc
    BY <1>0, <1>4, LandedIs DEF PlaceType
  <2> QED BY <2>1, <2>2, <1>0, BesideType DEF NetType, PostType
<1> QED BY <1>1, <1>2, <1>3, <1>4

LEMMA FillsTypeStep == FillsTypeInv /\ [FillsNext]_fillsVars => FillsTypeInv'
<1> SUFFICES ASSUME FillsTypeInv, [FillsNext]_fillsVars PROVE FillsTypeInv'
  OBVIOUS
<1>1. CASE Replay
  BY <1>1, RestoreType, LookType, SetAgainType, ConfirmType, EndCheckType, PerformType, ThrownType, NoTargetType, JudgeType, NoteType, LostType DEF Replay
<1>2. CASE Environment
  BY <1>2, ReloadType, BesidesType DEF Environment
<1>3. CASE UNCHANGED fillsVars
  BY <1>3 DEF fillsVars, ledger, history, FillsTypeInv, NetType, PostType, LedgerType, CheckType, PlaceType, Checking, step, Final
<1> QED BY <1>1, <1>2, <1>3 DEF FillsNext

----------------------------------------------------------------------------
(* FillsOK: a submit goes out again only where its answer was cut off      *)

LEMMA OnceInit == FillsInit => OnceInv
BY DEF FillsInit, OnceInv, Final, Early, Late, NoForm, Document, SentOnce, AllHarmless, Blank

\* The steps of a check change no form.
LEMMA OnceQuiet ==
    ASSUME FillsTypeInv, OnceInv, UNCHANGED <<net, rec, lands, n, repeated, posts>>, page'.at = page.at, page'.row = page.row,
           Early, phase' \in {"step", "look", "set", "confirm", "act"},
           phase' = "act" /\ step.tool \in Submits /\ submitted'.fills # <<>> => page'.doc = submitted'.doc
    PROVE  OnceInv'
<1>1. step' = step /\ Final' = Final /\ Early' /\ ~Late' /\ phase' # "done" /\ AllHarmless' = AllHarmless /\ Blank' = Blank /\ SentOnce' = SentOnce
  BY DEF step, Final, Early, Late, AllHarmless, Blank, SentOnce, Harmless
<1> QED BY <1>1 DEF OnceInv

LEMMA OnceCheck ==
    ASSUME FillsTypeInv, OnceInv, Restore \/ Look \/ SetAgain \/ Confirm \/ EndCheck
    PROVE  OnceInv'
<1>0. page \in Page /\ NetType /\ PostType /\ LedgerType /\ CheckType /\ PlaceType
  BY DEF FillsTypeInv
<1>1. CASE Restore
  <2>1. /\ UNCHANGED <<net, rec, lands, n, repeated, posts>> /\ phase = "step" /\ phase' \in {"look", "act"}
        /\ page' \in {page, blurFirst(page)} /\ (step.tool \in Submits => submitted' = Nothing)
    BY <1>1 DEF Restore
  <2>2. page'.at = page.at /\ page'.row = page.row
    BY <2>1, <1>0, BlurFirstIs
  <2> QED BY <2>1, <2>2, OnceQuiet DEF Early, Nothing
<1>2. CASE Look
  <2>1. /\ UNCHANGED <<page, net, rec, lands, n, repeated, posts>> /\ phase = "look" /\ phase' \in {"look", "set"}
    BY <1>2 DEF Look, NextEntry
  <2> QED BY <2>1, OnceQuiet DEF Early
<1>3. CASE SetAgain \/ Confirm
  <2>1. /\ UNCHANGED <<net, rec, lands, n, repeated, posts>> /\ phase \in {"set", "confirm"} /\ phase' \in {"look", "confirm"}
        /\ page' \in {page, blurFirst(reactSafeFill(page, entry.on, entry.value)), blurFirst(typeInto(page, entry.on, entry.value))}
    BY <1>3 DEF SetAgain, Confirm, NextEntry
  <2>2. entry.on \in Fields /\ entry.value \in Values
    BY <1>0, <2>1, EntryIs DEF CheckType, Checking
  <2>3. page'.at = page.at /\ page'.row = page.row
    BY <2>1, <2>2, <1>0, RefillIs
  <2> QED BY <2>1, <2>3, OnceQuiet DEF Early
<1>4. CASE EndCheck
  <2>1. /\ UNCHANGED <<net, rec, lands, n, repeated, posts>> /\ phase = "look" /\ phase' \in {"look", "act"}
        /\ page' \in {page, blurFirst(page)} /\ (phase' = "act" => page' = page /\ submitted'.doc = page.doc)
    BY <1>4 DEF EndCheck
  <2>2. page'.at = page.at /\ page'.row = page.row
    BY <2>1, <1>0, BlurFirstIs
  <2> QED BY <2>1, <2>2, OnceQuiet DEF Early
<1> QED BY <1>1, <1>2, <1>3, <1>4

LEMMA OncePerform ==
    ASSUME FillsTypeInv, OnceInv, Perform
    PROVE  OnceInv'
<1>0. page \in Page /\ NetType /\ PostType /\ LedgerType /\ CheckType /\ PlaceType
  BY DEF FillsTypeInv
<1>1. Final <=> step.tool \in {"save", "press"}
  BY <1>0, StepIs
<1>2. /\ phase = "act" /\ phase' = "judge" /\ UNCHANGED <<rec, lands, n, fills, submitted, repeated, posts>>
      /\ page.at = "form"
  BY DEF Perform, ledger, Reachable
<1>3. Early /\ ~Early' /\ Final' = Final /\ AllHarmless' = AllHarmless /\ SentOnce' = SentOnce
  BY <1>2 DEF Early, Final, AllHarmless, SentOnce, Harmless
<1>4. CASE ~Final
  <2>1. net = NoForm /\ posts = <<>> /\ net' = net /\ ~Late'
    BY <1>1, <1>3, <1>4 DEF OnceInv, Perform, Late
  <2>2. page'.at = page.at /\ page'.row = page.row
    <3>0. page'.at = page.at /\ page'.row = page.row
      <4>1. CASE step.tool = "fill"
        <5>1. page' = reactSafeFill(page, step.on, step.value) /\ step.on \in Fields /\ step.value \in Values \cup {Nil}
          BY <4>1, <1>0, StepParts DEF Perform, Submits, Retires
        <5>2. Put(page, step.on, TextOf(step.value), step.on \in Keyed /\ step.value # Nil, reactSafeFill(page, step.on, step.value))
          BY <5>1, <1>0, FillIs
        <5> QED BY <5>1, <5>2 DEF Put
      <4>2. CASE step.tool = "type"
        <5>1. page' = Typed(Cleared(step), step.on, step.value) /\ step.on \in Fields /\ step.value \in Values
          BY <4>2, <1>0, StepParts DEF Perform, Submits, Retires
        <5>2. <<>> \in Seq(Values) /\ FALSE \in BOOLEAN
          OBVIOUS
        <5>3. Put(page, step.on, <<>>, FALSE, Holding(Focus(page, step.on), step.on, <<>>, FALSE))
          BY <5>1, <5>2, <1>0, PutIs
        <5>4. Cleared(step) \in Page /\ Cleared(step).at = page.at /\ Cleared(step).row = page.row
          BY <5>3, <1>0 DEF Cleared, Put
        <5>5. Put(Cleared(step), step.on, Onto(Cleared(step), step.on) \o <<step.value>>, FALSE, Typed(Cleared(step), step.on, step.value))
          BY <5>1, <5>4, TypedIs
        <5> QED BY <5>1, <5>4, <5>5 DEF Put
      <4>3. CASE step.tool \in Submits \cup Retires
        <5>1. page' = Pressed(page, step) /\ (step.tool = "press" => step.on \in Fields)
          BY <4>3, <1>0, StepParts DEF Perform, Submits, Retires
        <5> QED BY <5>1, <1>0, PressedIs
      <4> QED BY <4>1, <4>2, <4>3, <1>0, StepParts DEF Submits, Retires
    <3> QED BY <3>0
  <2> QED BY <2>1, <2>2, <1>2, <1>3, <1>4 DEF OnceInv, NoForm, AllHarmless, SentOnce, Blank
<1>5. CASE Final
  <2>1. step.tool \in {"save", "press"} /\ step.tool \in Submits
    BY <1>1, <1>5 DEF Submits
  <2>2. AllHarmless
    <3>1. CASE n \in repeated
      BY <3>1, <1>3, <1>5 DEF OnceInv
    <3>2. CASE n \notin repeated
      BY <3>2, <1>3, <1>5 DEF OnceInv, AllHarmless
    <3> QED BY <3>1, <3>2
  <2>3. Blank /\ (net.at # "none" => posts # <<>> \/ n \in repeated)
    BY <1>3, <1>5, <1>0, NetParts DEF OnceInv, Blank, NoForm
  <2>4. /\ page' = Pressed(page, step) /\ (step.tool = "press" => step.on \in Fields)
        /\ net' \in {net, [at |-> "sent", form |-> FormOf(page'), excused |-> gone' \cup unseen]}
    BY <2>1, <1>0, StepParts DEF Perform, Submits, Retires
  <2>5. /\ page' \in Page /\ page'.at = page.at /\ page'.row = page.row /\ page'.doc = page.doc
        /\ \A g \in Fields : page'.val[g] \in {page.val[g], <<>>}
    BY <2>4, <1>0, PressedIs
  <2>6. submitted.fills # <<>> /\ page.doc # submitted.doc => Blank'
    <3> SUFFICES ASSUME submitted.fills # <<>>, page.doc # submitted.doc PROVE Blank'
      OBVIOUS
    <3>1. \A f \in Fields : page.val[f] = <<>>
      BY <1>2, <2>1 DEF OnceInv
    <3>2. \A f \in Fields : FormOf(page')[f] = <<>>
      BY <3>1, <2>5, FormIs DEF Onto
    <3> QED BY <2>3, <2>4, <3>2 DEF Blank
  <2>7. net'.at = "taken" => net' = net
    BY <2>4
  <2>8. page'.at = "form"
    BY <1>2, <2>5
  <2> QED BY <2>2, <2>5, <2>6, <2>7, <2>8, <1>2, <1>3, <1>5 DEF OnceInv, Late
<1> QED BY <1>4, <1>5

LEMMA OnceGoesOn ==
    ASSUME FillsTypeInv, OnceInv, Thrown \/ NoTarget \/ Judge \/ Note \/ Lost
    PROVE  OnceInv'
<1>0. page \in Page /\ NetType /\ PostType /\ LedgerType /\ CheckType /\ PlaceType
  BY DEF FillsTypeInv
<1>1. (Final <=> step.tool \in {"save", "press"}) /\ n \in Nat /\ Len(rec) \in Nat /\ Len(rec) = Len(rec)' /\ n \in 1..Len(rec)
  BY <1>0, StepIs DEF Thrown, NoTarget, Judge, Note, Lost
<1>2. /\ UNCHANGED <<page, net, rec, lands, posts>> /\ AllHarmless' = AllHarmless /\ Blank' = Blank /\ SentOnce' = SentOnce
  BY DEF Thrown, NoTarget, Judge, Note, Lost, AllHarmless, Blank, SentOnce, Harmless
<1>3. ASSUME UNCHANGED <<n, repeated, submitted>>, phase' \in {"note", "lost", "stopped", "torn"} \/ (phase' = "step" /\ ~Final), phase' = "lost" => phase = "judge"
      PROVE  OnceInv'
  <2>1. Final' = Final /\ (Late' => Late) /\ phase' \notin {"act", "done"} /\ (Early' => ~Final)
    BY <1>2, <1>3 DEF Final, Late, Early
  <2> QED BY <1>2, <1>3, <2>1 DEF OnceInv
<1>4. ASSUME Onward, UNCHANGED <<repeated, submitted>>, Final => phase = "judge" /\ Shown
      PROVE  OnceInv'
  <2>1. CASE Final
    <3>1. n' = n /\ phase' = "done" /\ Final' /\ ~Early' /\ ~Late'
      BY <2>1, <1>4, <1>2 DEF Onward, Final, Early, Late
    <3>2. page.at = "record" \/ page.row
      BY <2>1, <1>4 DEF Shown
    <3>3. posts # <<>>
      BY <3>2 DEF OnceInv
    <3> QED BY <3>1, <3>3, <1>2, <1>4, <2>1 DEF OnceInv
  <2>2. CASE ~Final
    <3>1. n' = n + 1 /\ phase' = "step" /\ ~Late' /\ n' \notin repeated
      BY <2>2, <1>4, <1>0, <1>1 DEF Onward, Final, Late, PlaceType
    <3>2. net = NoForm /\ posts = <<>>
      BY <2>2 DEF OnceInv
    <3> QED BY <3>1, <3>2, <1>2, <1>4 DEF OnceInv, NoForm
  <2> QED BY <2>1, <2>2
<1>5. CASE Thrown \/ NoTarget
  BY <1>5, <1>3 DEF Thrown, NoTarget, ledger
<1>6. CASE Note
  <2>1. phase = "note" /\ step.tool = "fill" /\ Onward /\ UNCHANGED <<repeated, submitted>> /\ ~Final
    BY <1>0, <1>1, <1>6 DEF Note, PlaceType
  <2> QED BY <2>1, <1>4
<1>7. CASE Lost
  <2>1. phase = "lost" /\ Final /\ lands /\ Late /\ n' = n /\ Final' = Final
    BY <1>0, <1>7 DEF Lost, PlaceType, Late, Final
  <2>2. CASE standingFillsLost /\ phase' = "step" /\ repeated' = repeated \cup {n} /\ submitted' = Nothing
    <3>1. AllHarmless /\ Blank
      BY <2>1, <2>2 DEF OnceInv, standingFillsLost
    <3>2. ~Late' /\ phase' # "done"
      BY <2>2 DEF Late
    <3> QED BY <2>1, <2>2, <3>1, <3>2, <1>2 DEF OnceInv
  <2>3. CASE phase' = "stopped" /\ UNCHANGED <<repeated, submitted>>
    BY <2>1, <2>3, <1>3
  <2> QED BY <2>2, <2>3, <1>7 DEF Lost
<1>8. CASE Judge
  <2>1. phase = "judge" /\ UNCHANGED submitted
    BY <1>8 DEF Judge, ledger
  <2>2. CASE step.tool = "fill"
    <3>1. ~Final /\ n' = n /\ ((repeated' = repeated /\ phase' \in {"note", "stopped"}) \/ (repeated' = repeated \cup {n} /\ phase' = "step"))
      <4>1. CASE fillLost
        BY <4>1, <2>2, <1>1, <1>8 DEF Judge, Stop
      <4>2. CASE ~fillLost
        BY <4>2, <2>2, <1>1, <1>8 DEF Judge, Stop
      <4> QED BY <4>1, <4>2
    <3>2. ~Final' /\ ~Late' /\ net = NoForm /\ posts = <<>> /\ phase' \notin {"act", "done"}
      BY <3>1, <1>2 DEF OnceInv, Final, Late
    <3> QED BY <3>1, <3>2, <1>2, <2>1 DEF OnceInv, NoForm
  <2>3. CASE step.tool \in {"type", "pick", "check"}
    <3>1. ~Final /\ repeated' = repeated /\ (Onward \/ (phase' = "stopped" /\ n' = n))
      BY <2>3, <1>1, <1>8 DEF Judge, Stop
    <3> QED BY <3>1, <2>1, <1>3, <1>4
  <2>4. CASE step.tool \in {"save", "press"}
    <3>1. repeated' = repeated /\ ((Onward /\ Shown) \/ (phase' \in {"stopped", "lost"} /\ n' = n))
      BY <2>4, <1>8 DEF Judge, Stop
    <3> QED BY <3>1, <2>1, <1>3, <1>4
  <2> QED BY <2>2, <2>3, <2>4, <1>0, StepParts
<1> QED BY <1>5, <1>6, <1>7, <1>8

LEMMA OnceBeside ==
    ASSUME FillsTypeInv, FillsTypeInv', OnceInv, Environment
    PROVE  OnceInv'
<1>0. page \in Page /\ NetType /\ PostType /\ LedgerType /\ CheckType /\ PlaceType
  BY DEF FillsTypeInv
<1>1. UNCHANGED <<rec, lands, phase, n, fills, submitted, check, repeated>>
  BY DEF Environment, Reload, Build, Arrive, Reset, Land, ledger
<1>2. step' = step /\ Final' = Final /\ Early' = Early /\ Late' = Late
  BY <1>1 DEF step, Final, Early, Late
<1>3. net.at \in {"none", "sent", "taken"} /\ (net = NoForm <=> net.at = "none")
  BY <1>0, NetParts
<1>4. CASE Reload
  <2>1. /\ page.at = "form" /\ net' = NoForm /\ page.doc \in 1..MaxReloads + 1 /\ page.doc <= MaxReloads
        /\ page' = Document(page.doc + 1, {}, posts # <<>>)
    BY <1>4, <1>0 DEF Reload, Page
  <2>2. page.doc + 1 \in 1..MaxReloads + 1 /\ {} \in SUBSET Fields /\ (posts # <<>>) \in BOOLEAN
    BY <2>1, FormAssumption
  <2>3. page'.row = (posts # <<>>) /\ page'.at = "form" /\ \A f \in Fields : page'.val[f] = <<>>
    <3>1. page'.row = (posts # <<>>)
      BY <2>1, DocumentIs
    <3>2. page'.at = "form" /\ \A f \in Fields : page'.val[f] = <<>>
      BY <2>1, DocumentIs
    <3> QED BY <3>1, <3>2
  <2>4. net'.at = "none" /\ Blank'
    BY <2>1 DEF NoForm, Blank
  <2>5. DOMAIN posts' = DOMAIN posts /\ Len(posts') = Len(posts)
        /\ (\A i \in DOMAIN posts : posts'[i].form = posts[i].form)
        /\ (\A i \in DOMAIN posts : posts[i].cut => posts'[i].cut)
        /\ (net.at = "taken" => \A i \in DOMAIN posts : i = Len(posts) => posts'[i].cut)
    BY <1>0, <1>4, CutIs DEF Reload, PostType, CutOff
  <2>6. DOMAIN posts = 1..Len(posts) /\ Len(posts) \in Nat
    BY <1>0 DEF PostType
  <2>7. ASSUME NEW i \in DOMAIN posts, Harmless(i) PROVE Harmless(i)'
    BY <2>5, <2>7 DEF Harmless
  <2>8. SentOnce' /\ (posts' # <<>> <=> posts # <<>>)
    <3>1. (posts' # <<>> <=> posts # <<>>)
      BY <2>5, <2>6, <1>0, <1>4 DEF Reload
    <3>2. ASSUME NEW i \in 2..Len(posts) PROVE Harmless(i - 1)'
      <4>1. i - 1 \in DOMAIN posts
        BY <2>6
      <4>2. Harmless(i - 1)
        BY DEF OnceInv, SentOnce, Harmless
      <4> QED BY <4>1, <4>2, <2>7
    <3> QED BY <3>1, <3>2, <2>5 DEF SentOnce, Harmless
  <2>9. lands => AllHarmless'
    <3> SUFFICES ASSUME lands PROVE AllHarmless'
      OBVIOUS
    <3>1. CASE net.at \in {"none", "sent"}
      <4>1. AllHarmless
        BY <3>1, <2>1 DEF OnceInv
      <4> QED BY <4>1, <2>5, <2>7 DEF AllHarmless
    <3>2. CASE net.at = "taken"
      <4> SUFFICES ASSUME NEW i \in DOMAIN posts PROVE Harmless(i)'
        BY <2>5 DEF AllHarmless
      <4>1. CASE i = Len(posts)
        BY <4>1, <3>2, <2>5 DEF Harmless
      <4>2. CASE i # Len(posts)
        <5>1. i + 1 \in 2..Len(posts) /\ i + 1 - 1 = i
          BY <4>2, <2>6
        <5>2. Harmless(i)
          BY <5>1 DEF OnceInv, SentOnce, Harmless
        <5> QED BY <5>2, <2>7
      <4> QED BY <4>1, <4>2
    <3> QED BY <3>1, <3>2, <1>3
  <2>10. ~Final \/ (Early /\ n \notin repeated) => net' = NoForm /\ posts' = <<>>
    BY <2>1, <2>8 DEF OnceInv
  <2>11. phase = "done" => posts' # <<>>
    BY <2>8 DEF OnceInv
  <2> QED BY <2>3, <2>4, <2>8, <2>9, <2>10, <2>11, <1>1, <1>2 DEF OnceInv
<1>5. CASE \E f \in Fields : Build(f)
  <2>1. PICK f \in Fields : Build(f)
    BY <1>5
  <2>2. page' = [page EXCEPT !.built = @ \cup {f}] /\ UNCHANGED <<net, posts>>
    BY <2>1 DEF Build
  <2>3. page'.doc = page.doc /\ page'.at = page.at /\ page'.row = page.row /\ page'.val = page.val
    BY <2>2, <1>0, BuildIs
  <2>4. AllHarmless' = AllHarmless /\ Blank' = Blank /\ SentOnce' = SentOnce
    BY <2>2 DEF AllHarmless, Blank, SentOnce, Harmless
  <2> QED BY <2>2, <2>3, <2>4, <1>1, <1>2 DEF OnceInv
<1>6. CASE Reset
  <2>1. page' = [page EXCEPT !.val = [f \in Fields |-> <<>>], !.soft = {}] /\ UNCHANGED <<net, posts>>
    BY <1>6 DEF Reset
  <2>2. page'.doc = page.doc /\ page'.at = page.at /\ page'.row = page.row /\ \A f \in Fields : page'.val[f] = <<>>
    BY <2>1, <1>0, EmptiedIs
  <2>4. AllHarmless' = AllHarmless /\ Blank' = Blank /\ SentOnce' = SentOnce
    BY <2>1 DEF AllHarmless, Blank, SentOnce, Harmless
  <2> QED BY <2>1, <2>2, <2>4, <1>1, <1>2 DEF OnceInv
<1>7. CASE Land
  <2>1. net' = NoForm /\ net.at = "taken" /\ UNCHANGED posts
    BY <1>7 DEF Land
  <2>2. page'.doc = page.doc /\ page'.at = (IF lands THEN "record" ELSE "form") /\ \A f \in Fields : page'.val[f] = <<>>
    BY <1>0, <1>7, LandedIs DEF PlaceType
  <2>3. posts # <<>>
    BY <2>1 DEF OnceInv
  <2>4. AllHarmless' = AllHarmless /\ Blank' /\ SentOnce' = SentOnce /\ net'.at = "none"
    BY <2>1 DEF AllHarmless, Blank, SentOnce, Harmless, NoForm
  <2> QED BY <2>1, <2>2, <2>3, <2>4, <1>1, <1>2 DEF OnceInv
<1>8. CASE Arrive
  <2> DEFINE p == [form |-> net.form, excused |-> net.excused, cut |-> FALSE]
  <2>1. net.at = "sent" /\ net' = [net EXCEPT !.at = "taken"] /\ posts' = Append(posts, p) /\ page' = page
    BY <1>8 DEF Arrive
  <2>2. net \in [at : {"sent", "taken"}, form : Form, excused : SUBSET Fields]
    BY <2>1, <1>0 DEF NetType, NoForm
  <2>3. p \in Post /\ p.form = net.form
    BY <2>2 DEF Post
  <2> HIDE DEF p
  <2>4. DOMAIN posts' = 1..Len(posts) + 1 /\ Len(posts') = Len(posts) + 1
        /\ posts'[Len(posts) + 1] = p /\ (\A i \in DOMAIN posts : posts'[i] = posts[i]) /\ Len(posts) \in Nat /\ DOMAIN posts = 1..Len(posts)
    BY <2>1, <2>3, <1>0, TakeIs DEF PostType
  <2>5. net'.at = "taken" /\ net'.form = net.form
    BY <2>1, <2>2
  <2>6. AllHarmless
    BY <2>1 DEF OnceInv
  <2>7. \A i \in 1..Len(posts) : Harmless(i)'
    BY <2>4, <2>6 DEF AllHarmless, Harmless
  <2>8. SentOnce'
    <3>1. ASSUME NEW i \in 2..Len(posts') PROVE i - 1 \in 1..Len(posts)
      BY <2>4
    <3> QED BY <3>1, <2>7 DEF SentOnce, Harmless
  <2>9. Blank' = Blank
    BY <2>1, <2>5 DEF Blank
  <2>10. Blank => AllHarmless'
    <3> SUFFICES ASSUME Blank PROVE AllHarmless'
      OBVIOUS
    <3>1. ASSUME NEW i \in DOMAIN posts', i = Len(posts) + 1 PROVE Harmless(i)'
      BY <3>1, <2>1, <2>3, <2>4 DEF Harmless, Blank
    <3>2. \A i \in 1..Len(posts) + 1 : i \in 1..Len(posts) \/ i = Len(posts) + 1
      BY <2>4
    <3> QED BY <3>1, <3>2, <2>4, <2>7 DEF AllHarmless
  <2>11. Final /\ ~(Early /\ n \notin repeated)
    BY <2>1 DEF OnceInv, NoForm
  <2>12. posts' # <<>>
    BY <2>1, <2>4
  <2> QED BY <2>1, <2>5, <2>8, <2>9, <2>10, <2>11, <2>12, <1>1, <1>2 DEF OnceInv
<1> QED BY <1>4, <1>5, <1>6, <1>7, <1>8 DEF Environment

LEMMA OnceStep == FillsTypeInv /\ FillsTypeInv' /\ OnceInv /\ [FillsNext]_fillsVars => OnceInv'
<1> SUFFICES ASSUME FillsTypeInv, FillsTypeInv', OnceInv, [FillsNext]_fillsVars PROVE OnceInv'
  OBVIOUS
<1>1. CASE Replay
  BY <1>1, OnceCheck, OncePerform, OnceGoesOn DEF Replay
<1>2. CASE Environment
  BY <1>2, OnceBeside
<1>3. CASE UNCHANGED fillsVars
  BY <1>3 DEF fillsVars, ledger, history, OnceInv, Final, Early, Late, AllHarmless, Blank, SentOnce, Harmless, step
<1> QED BY <1>1, <1>2, <1>3 DEF FillsNext

LEMMA FillsOKHolds == FillsTypeInv /\ OnceInv => FillsOK
<1> SUFFICES ASSUME FillsTypeInv, OnceInv PROVE FillsOK
  OBVIOUS
<1>1. page \in Page /\ LedgerType /\ CheckType /\ PlaceType
  BY DEF FillsTypeInv
<1>2. repeated \subseteq DOMAIN rec
  <2>1. n \in 1..Len(rec) /\ Len(rec) \in Nat /\ DOMAIN rec = 1..Len(rec)
    BY <1>1, StepIs
  <2> QED BY <2>1, <1>1 DEF PlaceType
<1>3. FillsTypeOK
  BY <1>1, <1>2 DEF FillsTypeOK, LedgerType, CheckType, PlaceType
<1> QED BY <1>3 DEF FillsOK, OnceInv

\* One submit (runStepBody, standingFillsLost) leaves one form with the server,
\* unless a reload cut off the answer to it or it had nothing in it; and a
\* replay that ends well has sent one.
THEOREM FillsAreKept == FillsSpec => []FillsOK
<1>1. FillsInit => FillsTypeInv /\ OnceInv
  BY FillsTypeInit, OnceInit
<1>2. (FillsTypeInv /\ OnceInv) /\ [FillsNext]_fillsVars => (FillsTypeInv /\ OnceInv)'
  BY FillsTypeStep, OnceStep
<1> QED BY <1>1, <1>2, FillsOKHolds, PTL DEF FillsSpec

----------------------------------------------------------------------------
(* What a step of the replay does to the field it does not write to        *)

\* A field nobody writes to keeps its text or loses it.
Fades(p, q, f) ==
    /\ q.val[f] \in {p.val[f], <<>>} /\ (f \in q.soft => f \in p.soft)
    /\ f \in p.soft => f \in q.soft \/ q.val[f] = <<>>
Stays(p, q) == q \in Page /\ q.doc = p.doc /\ q.built = p.built /\ q.at = p.at /\ q.row = p.row
\* A step that writes a text into its field, which has the app empty others.
Writes(s) == s.tool = "type" \/ (s.tool = "fill" /\ s.value # Nil)

LEMMA PutFades ==
    ASSUME NEW p \in Page, NEW f \in Fields, NEW w, NEW soft, NEW q, Put(p, f, w, soft, q)
    PROVE  Stays(p, q) /\ \A g \in Fields \ {f} : Fades(p, q, g)
BY DEF Put, Stays, Fades, TextAfter, TextLeft

LEMMA FadesOn ==
    ASSUME NEW p, NEW q, NEW r, NEW f, Fades(p, q, f), Fades(q, r, f)
    PROVE  Fades(p, r, f)
BY DEF Fades

LEMMA BlurFades ==
    ASSUME NEW p \in Page
    PROVE  Stays(p, Blur(p)) /\ \A f \in Fields : Fades(p, Blur(p), f)
BY BlurIs DEF Stays, Fades, TextLeft

LEMMA BlurFirstFades ==
    ASSUME NEW p \in Page
    PROVE  /\ Stays(p, blurFirst(p)) /\ \A f \in Fields : Fades(p, blurFirst(p), f)
           /\ step.tool # "press" => blurFirst(p).focus = Nil
           /\ \A f \in Fields : f \notin p.soft => blurFirst(p).val[f] = p.val[f]
           /\ step.tool # "press" => \A f \in Fields : f # p.focus => blurFirst(p).val[f] = p.val[f]
           /\ step.tool = "press" => blurFirst(p) = p
<1>1. CASE step.tool = "press"
  <2>1. blurFirst(p) = p
    BY <1>1 DEF blurFirst
  <2> QED BY <1>1, <2>1 DEF Stays, Fades
<1>2. CASE step.tool # "press"
  <2>1. blurFirst(p) = Blur(p)
    BY <1>2 DEF blurFirst
  <2> QED BY <1>2, <2>1, BlurIs, BlurFades DEF TextLeft
<1> QED BY <1>1, <1>2

LEMMA GestureFades ==
    ASSUME NEW p \in Page, NEW s \in Step, Given(s)
    PROVE  /\ Stays(p, Gesture(p, s))
           /\ \A f \in Fields : ~Enters(s, f) => Fades(p, Gesture(p, s), f)
           /\ \A f \in Fields : Writes(s) /\ s.on # f /\ f \in Empties[s.on] => Gesture(p, s).val[f] = <<>>
           /\ s.tool = "fill" => Gesture(p, s).val[s.on] = TextOf(s.value) /\ (s.on \in Gesture(p, s).soft <=> s.on \in Keyed /\ s.value # Nil)
           /\ s.tool = "type" => Gesture(p, s).val[s.on] # <<>> /\ s.on \notin Gesture(p, s).soft
<1>0. s.value \in Values \cup {Nil} /\ s.tool \in {"fill", "type"} \cup Submits \cup Retires
  BY DEF Step
<1>1. CASE s.tool = "fill"
  <2> DEFINE f == s.on
             q == reactSafeFill(p, f, s.value)
  <2>1. f \in Fields /\ Gesture(p, s) = q
    BY <1>1 DEF Given, Gesture
  <2>2. Put(p, f, TextOf(s.value), f \in Keyed /\ s.value # Nil, q)
    BY <1>0, <2>1, FillIs
  <2>3. s.value # Nil => TextOf(s.value) # <<>>
    BY <1>0, TextIs
  <2> HIDE DEF f, q
  <2>4. Stays(p, q) /\ \A g \in Fields \ {f} : Fades(p, q, g)
    BY <2>1, <2>2, PutFades
  <2>5. /\ q.val[f] = TextOf(s.value) /\ (f \in q.soft <=> f \in Keyed /\ s.value # Nil)
        /\ \A g \in Fields : s.value # Nil /\ f # g /\ g \in Empties[f] => q.val[g] = <<>>
    BY <2>2, <2>3 DEF Put, TextAfter
  <2>6. f = s.on
    BY DEF f
  <2> QED BY <2>1, <2>4, <2>5, <2>6, <1>1 DEF Enters, Writes
<1>2. CASE s.tool = "type"
  <2> DEFINE f == s.on
             q == Typed(p, f, s.value)
             w == Onto(p, f) \o <<s.value>>
  <2>1. f \in Fields /\ s.value \in Values /\ Gesture(p, s) = q
    BY <1>2 DEF Given, Gesture
  <2>2. Put(p, f, w, FALSE, q) /\ w # <<>>
    BY <2>1, TypedIs
  <2> HIDE DEF f, q, w
  <2>4. Stays(p, q) /\ \A g \in Fields \ {f} : Fades(p, q, g)
    BY <2>1, <2>2, PutFades
  <2>5. /\ q.val[f] # <<>> /\ f \notin q.soft
        /\ \A g \in Fields : f # g /\ g \in Empties[f] => q.val[g] = <<>>
    BY <2>2 DEF Put, TextAfter
  <2>6. f = s.on
    BY DEF f
  <2> QED BY <2>1, <2>4, <2>5, <2>6, <1>2 DEF Enters, Writes
<1>3. CASE s.tool \in Submits \cup Retires
  <2>1. Gesture(p, s) = Pressed(p, s) /\ (s.tool = "press" => s.on \in Fields) /\ s.tool \notin {"fill", "type"}
    BY <1>3 DEF Given, Gesture, Submits, Retires
  <2> DEFINE q == Pressed(p, s)
  <2>2. /\ q \in Page /\ q.soft \subseteq p.soft
        /\ q.doc = p.doc /\ q.built = p.built
        /\ q.at = p.at /\ q.row = p.row
        /\ \A g \in Fields : q.val[g] \in {p.val[g], <<>>}
        /\ \A g \in Fields \ p.soft : q.val[g] = p.val[g]
        /\ \A g \in Fields : g \in p.soft => g \in q.soft \/ q.val[g] = <<>>
    BY <2>1, PressedIs
  <2> HIDE DEF q
  <2>3. Stays(p, q) /\ \A g \in Fields : Fades(p, q, g)
    BY <2>2 DEF Stays, Fades
  <2>4. Gesture(p, s) = q
    BY <2>1 DEF q
  <2> QED BY <2>1, <2>3, <2>4 DEF Writes
<1> QED BY <1>0, <1>1, <1>2, <1>3

\* What the step does to the page as it finds it.
LEMMA PerformIs ==
    ASSUME FillsTypeInv, Perform
    PROVE  /\ Stays(page, page')
           /\ \A f \in Fields : ~Enters(step, f) => Fades(page, page', f)
           /\ \A f \in Fields : ~Enters(step, f) /\ f \notin page.soft =>
                page'.val[f] = page.val[f] \/ (page'.val[f] = <<>> /\ Writes(step) /\ f \in Empties[step.on])
           /\ step.tool = "fill" => page'.val[step.on] = TextOf(step.value) /\ (step.on \in page'.soft <=> step.on \in Keyed /\ step.value # Nil)
           /\ step.tool = "type" => page'.val[step.on] # <<>> /\ step.on \notin page'.soft
           /\ step.tool \in Submits \cup Retires =>
                page' = Pressed(page, step) /\ page'.soft \subseteq page.soft
<1>0. page \in Page /\ PlaceType
  BY DEF FillsTypeInv
<1>1. step \in Step /\ Given(step) /\ step.value \in Values \cup {Nil} /\ step.tool \in {"fill", "type"} \cup Submits \cup Retires
  BY <1>0, StepIs DEF Step
<1>2. CASE step.tool = "fill"
  <2> DEFINE f == step.on
             q == reactSafeFill(page, f, step.value)
  <2>1. f \in Fields /\ page' = q
    BY <1>1, <1>2 DEF Given, Perform, Submits, Retires
  <2>2. Put(page, f, TextOf(step.value), f \in Keyed /\ step.value # Nil, q)
    BY <1>0, <1>1, <2>1, FillIs
  <2>3. TextOf(step.value) # <<>> => step.value # Nil
    BY <1>1, TextIs
  <2> HIDE DEF q
  <2>4. Stays(page, q) /\ \A g \in Fields \ {f} : Fades(page, q, g)
    BY <1>0, <2>1, <2>2, PutFades
  <2>5. /\ q.val[f] = TextOf(step.value) /\ (f \in q.soft <=> f \in Keyed /\ step.value # Nil)
        /\ \A g \in Fields : f # g /\ g \notin page.soft => q.val[g] = page.val[g] \/ (q.val[g] = <<>> /\ step.value # Nil /\ g \in Empties[f])
    BY <2>2, <2>3 DEF Put, TextAfter, TextLeft
  <2> QED BY <2>1, <2>4, <2>5, <1>2 DEF Enters, Writes, Submits, Retires
<1>3. CASE step.tool = "type"
  <2> DEFINE f == step.on
             c == Cleared(step)
             q == Typed(c, f, step.value)
             w == Onto(c, f) \o <<step.value>>
  <2>1. f \in Fields /\ step.value \in Values /\ page' = q
    BY <1>1, <1>3 DEF Given, Perform, Submits, Retires
  <2>2. c \in {page, Holding(Focus(page, f), f, <<>>, FALSE)}
    BY DEF Cleared
  <2>3. <<>> \in Seq(Values) /\ FALSE \in BOOLEAN
    OBVIOUS
  <2>4. Put(page, f, <<>>, FALSE, Holding(Focus(page, f), f, <<>>, FALSE))
    BY <1>0, <2>1, <2>3, PutIs
  <2> DEFINE h == Holding(Focus(page, f), f, <<>>, FALSE)
  <2>5. Stays(page, h) /\ (\A g \in Fields \ {f} : Fades(page, h, g)) /\ (\A g \in Fields \ {f} : g \notin page.soft => h.val[g] = page.val[g])
    <3>1. Stays(page, h) /\ (\A g \in Fields \ {f} : Fades(page, h, g))
      BY <1>0, <2>1, <2>4, PutFades
    <3>2. \A g \in Fields \ {f} : h.val[g] = TextAfter(page, f, <<>>, g)
      BY <2>4 DEF Put
    <3> QED BY <3>1, <3>2 DEF TextAfter, TextLeft
  <2>6. c \in Page /\ Stays(page, c) /\ (\A g \in Fields \ {f} : Fades(page, c, g)) /\ (\A g \in Fields \ {f} : g \notin page.soft => c.val[g] = page.val[g])
    BY <1>0, <2>2, <2>5 DEF Stays, Fades
  <2> HIDE DEF c
  <2>7. Put(c, f, w, FALSE, q) /\ w # <<>>
    BY <2>1, <2>6, TypedIs
  <2> HIDE DEF q, w, h
  <2>8. Stays(c, q) /\ \A g \in Fields \ {f} : Fades(c, q, g)
    BY <2>1, <2>6, <2>7, PutFades
  <2>9. \A g \in Fields \ {f} : Fades(page, q, g)
    BY <2>6, <2>8, FadesOn
  <2>10. q.val[f] # <<>> /\ f \notin q.soft /\ \A g \in Fields \ {f} : q.val[g] = TextAfter(c, f, w, g)
    BY <2>7 DEF Put
  <2>11. \A g \in Fields \ {f} : g \notin page.soft => q.val[g] = page.val[g] \/ (q.val[g] = <<>> /\ g \in Empties[f])
    BY <2>6, <2>10 DEF TextAfter, TextLeft, Fades
  <2>12. Stays(page, q)
    BY <2>6, <2>8 DEF Stays
  <2> QED BY <2>1, <2>9, <2>10, <2>11, <2>12, <1>3 DEF Enters, Writes, Submits, Retires
<1>4. CASE step.tool \in Submits \cup Retires
  <2>1. page' = Pressed(page, step) /\ (step.tool = "press" => step.on \in Fields) /\ step.tool \notin {"fill", "type"}
    BY <1>1, <1>4 DEF Given, Perform, Submits, Retires
  <2> DEFINE q == Pressed(page, step)
  <2>2. /\ q \in Page /\ q.soft \subseteq page.soft
        /\ q.doc = page.doc /\ q.built = page.built
        /\ q.at = page.at /\ q.row = page.row
        /\ \A g \in Fields : q.val[g] \in {page.val[g], <<>>}
        /\ \A g \in Fields \ page.soft : q.val[g] = page.val[g]
        /\ \A g \in Fields : g \in page.soft => g \in q.soft \/ q.val[g] = <<>>
    BY <1>0, <2>1, PressedIs
  <2> HIDE DEF q
  <2>3. Stays(page, q) /\ (\A g \in Fields : Fades(page, q, g)) /\ \A g \in Fields : g \notin page.soft => q.val[g] = page.val[g]
    BY <2>2 DEF Stays, Fades
  <2>4. page' = q /\ page' = Pressed(page, step)
    BY <2>1 DEF q
  <2> QED BY <2>1, <2>2, <2>3, <2>4
<1> QED BY <1>1, <1>2, <1>3, <1>4

\* What a refill of field e does, by the setter and key by key.
LEMMA RefillFades ==
    ASSUME NEW p \in Page, NEW e \in Fields, NEW v \in Values, p.soft \subseteq Keyed, step.tool # "press" => p.focus = Nil
    PROVE  LET q == blurFirst(reactSafeFill(p, e, v))
               r == blurFirst(typeInto(p, e, v))
           IN  /\ Stays(p, q) /\ (\A f \in Fields \ {e} : Fades(p, q, f)) /\ (step.tool # "press" => q.focus = Nil)
               /\ Stays(p, r) /\ (\A f \in Fields \ {e} : Fades(p, r, f)) /\ (step.tool # "press" => r.focus = Nil)
               /\ q.val[e] = <<v>> \/ (q.val[e] = <<>> /\ e \in Keyed /\ step.tool # "press")
               /\ r.val[e] = <<v>> /\ e \notin r.soft
               /\ e \in q.soft => step.tool = "press" /\ e \in Keyed
               /\ \A f \in Fields \ {e} : q.val[f] = p.val[f] \/ step.tool = "press" \/ f \in Empties[e]
               /\ \A f \in Fields \ {e} : r.val[f] = p.val[f] \/ step.tool = "press" \/ f \in Empties[e]
<1> DEFINE a == reactSafeFill(p, e, v)
           b == typeInto(p, e, v)
           q == blurFirst(a)
           r == blurFirst(b)
<1>0. v \in Values \cup {Nil} /\ v # Nil /\ TextOf(v) = <<v>>
  BY FormAssumption DEF TextOf
<1>1. Put(p, e, TextOf(v), e \in Keyed /\ v # Nil, a)
  BY <1>0, FillIs
<1>2. Put(p, e, <<v>>, FALSE, b)
  BY TypeIntoIs
<1> HIDE DEF a, b
<1>3. Stays(p, a) /\ (\A f \in Fields \ {e} : Fades(p, a, f)) /\ a.focus = e /\ a.val[e] = <<v>> /\ (e \in a.soft <=> e \in Keyed)
      /\ (\A f \in Fields \ {e} : a.val[f] = p.val[f] \/ f \in Empties[e] \/ (f = p.focus /\ f \in p.soft))
  <2>1. Stays(p, a) /\ (\A f \in Fields \ {e} : Fades(p, a, f))
    BY <1>1, PutFades
  <2>2. a.focus = e /\ a.val[e] = <<v>> /\ (e \in a.soft <=> e \in Keyed)
    BY <1>0, <1>1 DEF Put
  <2>3. \A f \in Fields \ {e} : a.val[f] = TextAfter(p, e, <<v>>, f)
    BY <1>0, <1>1 DEF Put
  <2> QED BY <2>1, <2>2, <2>3 DEF TextAfter, TextLeft
<1>4. Stays(p, b) /\ (\A f \in Fields \ {e} : Fades(p, b, f)) /\ b.focus = e /\ b.val[e] = <<v>> /\ e \notin b.soft
      /\ (\A f \in Fields \ {e} : b.val[f] = p.val[f] \/ f \in Empties[e] \/ (f = p.focus /\ f \in p.soft))
  BY <1>2, PutFades DEF Put, TextAfter, TextLeft
<1>5. a \in Page /\ b \in Page
  BY <1>3, <1>4 DEF Stays
<1>6. /\ Stays(a, q) /\ \A f \in Fields : Fades(a, q, f)
      /\ step.tool # "press" => q.focus = Nil
      /\ \A f \in Fields : f \notin a.soft => q.val[f] = a.val[f]
      /\ step.tool # "press" => \A f \in Fields : f # a.focus => q.val[f] = a.val[f]
      /\ step.tool = "press" => q = a
  BY <1>5, BlurFirstFades
<1>7. /\ Stays(b, r) /\ \A f \in Fields : Fades(b, r, f)
      /\ step.tool # "press" => r.focus = Nil
      /\ \A f \in Fields : f \notin b.soft => r.val[f] = b.val[f]
      /\ step.tool # "press" => \A f \in Fields : f # b.focus => r.val[f] = b.val[f]
      /\ step.tool = "press" => r = b
  BY <1>5, BlurFirstFades
<1>8. step.tool # "press" => e \notin q.soft
  <2>1. step.tool # "press" => q = Blur(a)
    BY DEF blurFirst
  <2> QED BY <2>1, <1>3, <1>5, BlurIs
<1> HIDE DEF q, r
<1>9. Nil \notin Fields
  BY FormAssumption
<1>10. /\ Stays(p, q) /\ (\A f \in Fields \ {e} : Fades(p, q, f)) /\ (step.tool # "press" => q.focus = Nil)
       /\ Stays(p, r) /\ (\A f \in Fields \ {e} : Fades(p, r, f)) /\ (step.tool # "press" => r.focus = Nil)
  BY <1>3, <1>4, <1>6, <1>7, FadesOn DEF Stays
<1>11. q.val[e] = <<v>> \/ (q.val[e] = <<>> /\ e \in Keyed /\ step.tool # "press")
  BY <1>3, <1>6 DEF Fades
<1>12. r.val[e] = <<v>> /\ e \notin r.soft /\ (e \in q.soft => step.tool = "press" /\ e \in Keyed)
  BY <1>3, <1>4, <1>6, <1>7, <1>8 DEF Fades
<1>13. /\ \A f \in Fields \ {e} : q.val[f] = p.val[f] \/ step.tool = "press" \/ f \in Empties[e]
       /\ \A f \in Fields \ {e} : r.val[f] = p.val[f] \/ step.tool = "press" \/ f \in Empties[e]
  BY <1>3, <1>4, <1>6, <1>7, <1>9
<1> QED BY <1>10, <1>11, <1>12, <1>13 DEF q, r, a, b

(* The recording                                                           *)

LEMMA RecordedIs ==
    ASSUME PlaceType
    PROVE  /\ \A i \in DOMAIN rec : rec[i] \in Step /\ Given(rec[i]) /\ Recorded(i) \in Page
           /\ Recorded(0) = Document(1, Fields, FALSE) /\ Recorded(0) \in Page
           /\ Recorded(n) = Gesture(Recorded(n - 1), step) /\ Recorded(n - 1) \in Page
           /\ Sent(rec) = FormOf(Recorded(Len(rec)))
<1>1. /\ rec \in Seq(Step) /\ n \in 1..Len(rec) /\ Len(rec) \in Nat /\ DOMAIN rec = 1..Len(rec)
      /\ \A i \in DOMAIN rec : Given(rec[i]) /\ rec[i].seen = Gesture(Seen(rec, i - 1), rec[i])
  BY StepIs, RecordingsAssumption DEF PlaceType
<1>2. \A i \in DOMAIN rec : rec[i] \in Step
  BY <1>1
<1>3. ASSUME NEW i \in DOMAIN rec PROVE i # 0 /\ Recorded(i) = rec[i].seen /\ rec[i].seen \in Page
  <2>1. i # 0
    BY <1>1
  <2> QED BY <1>2, <2>1 DEF Recorded, Seen, Step
<1>4. Recorded(0) = Document(1, Fields, FALSE)
  BY DEF Recorded, Seen
<1>5. 1 \in 1..MaxReloads + 1
  BY FormAssumption
<1>6. Recorded(0) \in Page
  BY <1>4, <1>5, DocumentIn
<1>7. n - 1 = 0 \/ n - 1 \in DOMAIN rec
  BY <1>1
<1>8. Recorded(n) = Gesture(Recorded(n - 1), step)
  BY <1>1, <1>3 DEF Recorded, step
<1>9. Sent(rec) = FormOf(Recorded(Len(rec)))
  BY DEF Sent, Recorded
<1> QED BY <1>1, <1>2, <1>3, <1>4, <1>6, <1>7, <1>8, <1>9

----------------------------------------------------------------------------
(* LedgerInv: an entry was filled since the last submit                    *)

\* The entry was filled in a step before step k, and nothing submitted or
\* retired since.
FilledBefore(r, e, k) ==
    \E j \in 1..k - 1 :
        /\ r[j].tool = "fill" /\ r[j].on = e.on /\ r[j].value = e.value
        /\ \A m \in j + 1..k - 1 : r[m].tool \notin Submits \cup Retires
Stands(r, l, k) == \A i \in DOMAIN l : FilledBefore(r, l[i], k)
TakenAlong == Final /\ phase \in {"act", "judge", "lost"}
LedgerInv ==
    /\ Checking => fills = <<>> /\ submitted = Nothing /\ check.doc <= page.doc
    /\ phase \in {"act", "judge", "lost"} /\ step.tool \in Submits \cup Retires => fills = <<>>
    /\ Stands(rec, fills, n) /\ (Checking => Stands(rec, check.fills, n)) /\ (TakenAlong => Stands(rec, submitted.fills, n))

LEMMA StandsOn ==
    ASSUME NEW r, NEW l, NEW k \in Nat \ {0}, Stands(r, l, k), r[k].tool \notin Submits \cup Retires
    PROVE  Stands(r, l, k + 1)
<1> SUFFICES ASSUME NEW i \in DOMAIN l PROVE FilledBefore(r, l[i], k + 1)
  BY DEF Stands
<1>0. FilledBefore(r, l[i], k)
  BY DEF Stands
<1>1. PICK j \in 1..k - 1 :
        /\ r[j].tool = "fill" /\ r[j].on = l[i].on /\ r[j].value = l[i].value
        /\ \A m \in j + 1..k - 1 : r[m].tool \notin Submits \cup Retires
  BY <1>0 DEF FilledBefore
<1>2. j \in 1..k + 1 - 1
  OBVIOUS
<1>3. ASSUME NEW m \in j + 1..k + 1 - 1 PROVE m = k \/ m \in j + 1..k - 1
  OBVIOUS
<1> QED BY <1>1, <1>2, <1>3 DEF FilledBefore

LEMMA StandsBack ==
    ASSUME NEW r, NEW l, NEW k \in Nat \ {0}, Stands(r, l, k + 1), r[k].tool # "fill"
    PROVE  Stands(r, l, k)
<1> SUFFICES ASSUME NEW i \in DOMAIN l PROVE FilledBefore(r, l[i], k)
  BY DEF Stands
<1>0. FilledBefore(r, l[i], k + 1)
  BY DEF Stands
<1>1. PICK j \in 1..k + 1 - 1 :
        /\ r[j].tool = "fill" /\ r[j].on = l[i].on /\ r[j].value = l[i].value
        /\ \A m \in j + 1..k + 1 - 1 : r[m].tool \notin Submits \cup Retires
  BY <1>0 DEF FilledBefore
<1>2. j \in 1..k - 1 /\ \A m \in j + 1..k - 1 : m \in j + 1..k + 1 - 1
  BY <1>1
<1> QED BY <1>1, <1>2 DEF FilledBefore

LEMMA StandsEmpty ==
    ASSUME NEW r, NEW k PROVE Stands(r, <<>>, k)
BY DEF Stands

LEMMA StandsNoted ==
    ASSUME FillsTypeInv, Stands(rec, fills, n), step.tool = "fill", step.value # Nil
    PROVE  Stands(rec, Noted, n + 1)
<1>0. PlaceType /\ LedgerType /\ page \in Page
  BY DEF FillsTypeInv
<1>1. step.on \in Fields /\ step.value \in Values /\ n \in Nat \ {0} /\ page.doc \in 1..MaxReloads + 1
  BY <1>0, StepParts, StepIs DEF Page
<1>2. Stands(rec, fills, n + 1)
  BY <1>1, StandsOn DEF step, Submits, Retires
<1>3. /\ \A k \in DOMAIN Noted : Noted[k].on = step.on => Noted[k].value = step.value
      /\ \A k \in DOMAIN Noted : Noted[k].on # step.on => \E i \in DOMAIN fills : fills[i] = Noted[k]
  BY <1>0, <1>1, NotedIs DEF LedgerType
<1> SUFFICES ASSUME NEW k \in DOMAIN Noted PROVE FilledBefore(rec, Noted[k], n + 1)
  BY DEF Stands
<1>4. CASE Noted[k].on = step.on
  <2>1. n \in 1..n + 1 - 1 /\ n + 1..n + 1 - 1 = {}
    BY <1>1
  <2> QED BY <2>1, <1>3, <1>4 DEF step, FilledBefore
<1>5. CASE Noted[k].on # step.on
  <2>1. PICK i \in DOMAIN fills : fills[i] = Noted[k]
    BY <1>3, <1>5
  <2> QED BY <2>1, <1>2 DEF Stands
<1> QED BY <1>4, <1>5

LEMMA LedgerInit == FillsInit => LedgerInv
BY StandsEmpty DEF FillsInit, LedgerInv, Checking, TakenAlong

LEMMA LedgerReplay ==
    ASSUME FillsTypeInv, LedgerInv, Replay
    PROVE  LedgerInv'
<1>0. page \in Page /\ NetType /\ PostType /\ LedgerType /\ CheckType /\ PlaceType
  BY DEF FillsTypeInv
<1>1. (Final <=> step.tool \in {"save", "press"}) /\ n \in Nat \ {0} /\ rec' = rec /\ page.doc \in Nat
  BY <1>0, StepIs DEF Replay, Restore, Look, SetAgain, Confirm, EndCheck, Perform, Thrown, NoTarget, Judge, Note, Lost, Page
<1>2. CASE Restore
  <2>1. phase = "step" /\ UNCHANGED n /\ step' = step /\ Final' = Final /\ phase' \in {"look", "act"} /\ Nothing.fills = <<>>
    BY <1>1, <1>2 DEF Restore, step, Final, Nothing
  <2>2. page'.doc = page.doc
    BY <1>0, <1>2, BlurFirstFades DEF Restore, Stays
  <2>3. CASE step.tool \in Submits /\ fills # <<>>
    <3>1. check' = [fills |-> fills, doc |-> page.doc, pass |-> 1, i |-> 1] /\ phase' = "look" /\ fills' = <<>> /\ submitted' = Nothing
      BY <1>2, <2>3 DEF Restore
    <3> QED BY <3>1, <2>1, <2>2, <1>1, StandsEmpty DEF LedgerInv, TakenAlong
  <2>4. CASE step.tool \in Submits \cup Retires /\ ~(step.tool \in Submits /\ fills # <<>>)
    <3>1. phase' = "act" /\ fills' = <<>> /\ submitted' = Nothing
      BY <1>2, <2>4 DEF Restore
    <3> QED BY <3>1, <2>1, <1>1, StandsEmpty DEF LedgerInv, TakenAlong, Checking
  <2>5. CASE step.tool \notin Submits \cup Retires
    <3>1. phase' = "act" /\ fills' = fills /\ ~Final
      BY <1>1, <1>2, <2>5 DEF Restore, Submits
    <3> QED BY <3>1, <2>1, <2>5, <1>1 DEF LedgerInv, TakenAlong, Checking
  <2> QED BY <2>3, <2>4, <2>5
<1>3. CASE Look \/ SetAgain \/ Confirm
  <2>1. Checking /\ Checking' /\ UNCHANGED <<n, fills, submitted>> /\ step' = step /\ ~TakenAlong'
    BY <1>1, <1>3 DEF Look, SetAgain, Confirm, NextEntry, Checking, step, TakenAlong
  <2>2. check'.fills = check.fills /\ check'.doc = check.doc
    <3>1. check \in [fills : Seq(Fill), doc : 1..MaxReloads + 1, pass : 1..2, i : Nat \ {0}]
      BY <1>0, <2>1 DEF CheckType
    <3>2. check' = check \/ check' = [check EXCEPT !.i = @ + 1]
      BY <1>3 DEF Look, SetAgain, Confirm, NextEntry
    <3> QED BY <3>1, <3>2
  <2>3. page'.doc = page.doc
    <3>1. page' \in {page, blurFirst(reactSafeFill(page, entry.on, entry.value)), blurFirst(typeInto(page, entry.on, entry.value))}
      BY <1>3 DEF Look, SetAgain, Confirm
    <3>2. CASE Look
      BY <3>2 DEF Look
    <3>3. CASE SetAgain \/ Confirm
      <4>1. entry.on \in Fields /\ entry.value \in Values
        BY <1>0, <2>1, <3>3, EntryIs DEF CheckType, SetAgain, Confirm
      <4> QED BY <3>1, <4>1, <1>0, RefillIs
    <3> QED BY <3>2, <3>3, <1>3
  <2>4. phase' \notin {"act", "judge", "lost"}
    BY <2>1 DEF Checking
  <2> QED BY <2>1, <2>2, <2>3, <2>4, <1>1 DEF LedgerInv
<1>4. CASE EndCheck
  <2>1. phase = "look" /\ Checking /\ UNCHANGED <<n, fills>> /\ step' = step /\ Final' = Final
    BY <1>1, <1>4 DEF EndCheck, Checking, step, Final
  <2>2. check \in [fills : Seq(Fill), doc : 1..MaxReloads + 1, pass : 1..2, i : Nat \ {0}]
    BY <1>0, <2>1 DEF CheckType
  <2>3. page'.doc = page.doc
    BY <1>0, <1>4, BlurFirstFades DEF EndCheck, Stays
  <2>4. CASE Again
    <3>1. check' = [check EXCEPT !.doc = page.doc, !.pass = 2, !.i = 1] /\ phase' = "look" /\ submitted' = submitted
      BY <1>4, <2>4 DEF EndCheck
    <3>2. check'.fills = check.fills /\ check'.doc = page.doc
      BY <2>2, <3>1
    <3> QED BY <3>1, <3>2, <2>1, <2>3, <1>1 DEF LedgerInv, TakenAlong
  <2>5. CASE ~Again
    <3>1. phase' = "act" /\ submitted' = [fills |-> check.fills, doc |-> page.doc]
      BY <1>4, <2>5 DEF EndCheck
    <3> QED BY <3>1, <2>1, <1>1 DEF LedgerInv, Checking
  <2> QED BY <2>4, <2>5
<1>5. CASE Perform \/ Thrown \/ NoTarget
  <2>1. phase \in {"act", "judge"} /\ phase' \in {"judge", "stopped", "torn"} /\ UNCHANGED <<n, fills, submitted, check>> /\ step' = step /\ Final' = Final
    BY <1>1, <1>5 DEF Perform, Thrown, NoTarget, step, Final, ledger
  <2> QED BY <2>1, <1>1 DEF LedgerInv, TakenAlong, Checking
<1>6. ASSUME UNCHANGED <<n, fills, submitted>>, phase \in {"judge", "lost"}, phase' \in {"note", "step", "stopped", "lost"},
             phase' = "lost" => phase = "judge"
      PROVE  LedgerInv'
  <2>1. step' = step /\ Final' = Final /\ ~Checking' /\ (TakenAlong' => TakenAlong)
    BY <1>1, <1>6 DEF step, Final, Checking, TakenAlong
  <2> QED BY <2>1, <1>1, <1>6 DEF LedgerInv
<1>7. ASSUME Onward, Stands(rec, fills', n + 1) PROVE LedgerInv'
  <2>1. CASE Final
    <3>1. phase' = "done" /\ n' = n
      BY <2>1, <1>7 DEF Onward, Final
    <3>2. Stands(rec, fills', n) 
      BY <2>1, <1>1, <1>7, StandsBack DEF step
    <3> QED BY <3>1, <3>2, <1>1 DEF LedgerInv, TakenAlong, Checking
  <2>2. CASE ~Final
    <3>1. phase' = "step" /\ n' = n + 1
      BY <2>2, <1>7 DEF Onward, Final
    <3> QED BY <3>1, <1>1, <1>7 DEF LedgerInv, TakenAlong, Checking
  <2> QED BY <2>1, <2>2
<1>8. CASE Judge
  <2>1. phase = "judge" /\ UNCHANGED <<fills, submitted>>
    BY <1>8 DEF Judge, ledger
  <2>2. Onward \/ (n' = n /\ phase' \in {"note", "step", "stopped", "lost"})
    BY <1>8 DEF Judge, Stop
  <2>3. Stands(rec, fills, n + 1)
    <3>1. CASE step.tool \in Submits \cup Retires
      BY <3>1, <2>1, StandsEmpty DEF LedgerInv
    <3>2. CASE step.tool \notin Submits \cup Retires
      BY <3>2, <1>1, StandsOn DEF LedgerInv, step
    <3> QED BY <3>1, <3>2
  <2> QED BY <2>1, <2>2, <2>3, <1>6, <1>7
<1>9. CASE Note
  <2>1. step.tool = "fill" /\ Onward
    BY <1>0, <1>9 DEF Note, PlaceType
  <2>2. Stands(rec, fills', n + 1)
    <3>1. CASE step.value = Nil
      <4>1. fills' = fills /\ rec[n].tool \notin Submits \cup Retires
        BY <3>1, <2>1, <1>9 DEF Note, step, Submits, Retires
      <4> QED BY <4>1, <1>1, StandsOn DEF LedgerInv
    <3>2. CASE step.value # Nil
      <4>1. fills' = Noted
        BY <3>2, <1>9 DEF Note, Noted
      <4> QED BY <4>1, <3>2, <2>1, StandsNoted DEF LedgerInv
    <3> QED BY <3>1, <3>2
  <2> QED BY <2>1, <2>2, <1>7
<1>10. CASE Lost
  <2>1. phase = "lost" /\ Final /\ n' = n /\ TakenAlong
    BY <1>0, <1>10 DEF Lost, PlaceType, TakenAlong
  <2>2. CASE fills' = submitted.fills /\ phase' = "step"
    BY <2>1, <2>2, <1>1 DEF LedgerInv, TakenAlong, Checking
  <2>3. CASE UNCHANGED <<fills, submitted>> /\ phase' = "stopped"
    BY <2>1, <2>3, <1>6
  <2> QED BY <2>2, <2>3, <1>10 DEF Lost
<1> QED BY <1>2, <1>3, <1>4, <1>5, <1>8, <1>9, <1>10 DEF Replay

\* What the page and the server do changes neither the ledger nor the place.
LEMMA BesideIs ==
    ASSUME FillsTypeInv, Environment
    PROVE  /\ UNCHANGED <<rec, lands, phase, n, fills, submitted, check, before, repeated, astray, slow>>
           /\ step' = step /\ Final' = Final /\ Checking' = Checking /\ TakenAlong' = TakenAlong /\ Running
           /\ page'.doc >= page.doc
           /\ \/ /\ Reload /\ page'.doc = page.doc + 1 /\ page'.soft = {} /\ page'.focus = Nil /\ page'.at = page.at
                 /\ \A f \in Fields : page'.val[f] = <<>>
              \/ /\ \E f \in Fields : Build(f)
                 /\ page'.doc = page.doc /\ page'.soft = page.soft /\ page'.val = page.val /\ page'.focus = page.focus /\ page'.at = page.at
                 /\ page.built \subseteq page'.built
              \/ /\ Arrive /\ page' = page
              \/ /\ Reset /\ page'.doc = page.doc /\ page'.soft = {} /\ page'.focus = page.focus /\ page'.at = page.at
                 /\ \A f \in Fields : page'.val[f] = <<>>
              \/ /\ Land /\ page'.doc = page.doc /\ page'.soft = {} /\ page'.focus = Nil
                 /\ page'.at = (IF lands THEN "record" ELSE "form") /\ \A f \in Fields : page'.val[f] = <<>>
<1>0. page \in Page /\ PlaceType /\ page.doc \in Nat
  BY DEF FillsTypeInv, Page
<1>1. UNCHANGED <<rec, lands, phase, n, fills, submitted, check, before, repeated, astray, slow>> /\ Running
  BY DEF Environment, Reload, Build, Arrive, Reset, Land, ledger, history
<1>2. step' = step /\ Final' = Final /\ Checking' = Checking /\ TakenAlong' = TakenAlong
  BY <1>1 DEF step, Final, Checking, TakenAlong
<1>3. CASE Reload
  <2>1. page' = Document(page.doc + 1, {}, posts # <<>>) /\ page.at = "form"
    BY <1>3 DEF Reload
  <2>2. page'.doc = page.doc + 1 /\ page'.soft = {} /\ page'.focus = Nil /\ page'.at = "form" /\ \A f \in Fields : page'.val[f] = <<>>
    BY <2>1, DocumentIs
  <2> QED BY <2>1, <2>2, <1>0, <1>1, <1>2, <1>3
<1>4. CASE \E f \in Fields : Build(f)
  <2>1. PICK f \in Fields : Build(f)
    BY <1>4
  <2>2. page' = [page EXCEPT !.built = @ \cup {f}]
    BY <2>1 DEF Build
  <2>3. page'.doc = page.doc /\ page'.soft = page.soft /\ page'.val = page.val /\ page'.focus = page.focus /\ page'.at = page.at
        /\ page.built \subseteq page'.built
    BY <2>2, <1>0, BuildIs
  <2> QED BY <2>3, <1>0, <1>1, <1>2, <1>4
<1>5. CASE Arrive
  BY <1>0, <1>1, <1>2, <1>5 DEF Arrive
<1>6. CASE Reset
  <2>1. page' = [page EXCEPT !.val = [f \in Fields |-> <<>>], !.soft = {}]
    BY <1>6 DEF Reset
  <2>2. page'.doc = page.doc /\ page'.soft = {} /\ page'.focus = page.focus /\ page'.at = page.at /\ \A f \in Fields : page'.val[f] = <<>>
    BY <2>1, <1>0, EmptiedIs
  <2> QED BY <2>2, <1>0, <1>1, <1>2, <1>6
<1>7. CASE Land
  <2>1. page'.doc = page.doc /\ page'.soft = {} /\ page'.focus = Nil /\ page'.at = (IF lands THEN "record" ELSE "form") /\ \A f \in Fields : page'.val[f] = <<>>
    BY <1>0, <1>7, LandedIs DEF PlaceType
  <2> QED BY <2>1, <1>0, <1>1, <1>2, <1>7
<1> QED BY <1>3, <1>4, <1>5, <1>6, <1>7 DEF Environment

LEMMA LedgerStep == FillsTypeInv /\ LedgerInv /\ [FillsNext]_fillsVars => LedgerInv'
<1> SUFFICES ASSUME FillsTypeInv, LedgerInv, [FillsNext]_fillsVars PROVE LedgerInv'
  OBVIOUS
<1>1. CASE Replay
  BY <1>1, LedgerReplay
<1>2. CASE Environment
  <2>1. UNCHANGED <<rec, n, fills, submitted, check, phase>> /\ step' = step /\ Checking' = Checking /\ TakenAlong' = TakenAlong /\ page'.doc >= page.doc
    BY <1>2, BesideIs
  <2>2. Checking => check.doc <= page'.doc
    <3>1. Checking => check.doc \in Nat /\ check.doc <= page.doc
      BY FormAssumption DEF FillsTypeInv, CheckType, LedgerInv
    <3>2. page.doc \in Nat /\ page'.doc \in Nat
      <4>1. FillsTypeInv'
        BY FillsTypeStep
      <4> QED BY <4>1 DEF FillsTypeInv, Page
    <3> QED BY <2>1, <3>1, <3>2
  <2> QED BY <2>1, <2>2 DEF LedgerInv
<1>3. CASE UNCHANGED fillsVars
  BY <1>3 DEF fillsVars, ledger, LedgerInv, step, Final, TakenAlong, Checking
<1> QED BY <1>1, <1>2, <1>3 DEF FillsNext

----------------------------------------------------------------------------
(* RecordInv and PageInv: the last entry of a field, recorded and replayed *)

Last(r, i, f) == i \in DOMAIN r /\ Enters(r[i], f) /\ \A j \in i + 1..Len(r) : ~Enters(r[j], f)
Never(r, f) == \A j \in DOMAIN r : ~Enters(r[j], f)
\* An entry a widget may drop at a blur.
Rests(s) == s.tool = "fill" /\ s.on \in Keyed
\* What step k of the recording still shows of the last entry of a field.
Shows(r, i, f, k) ==
    /\ r[i].value = Nil => Seen(r, k).val[f] = <<>> /\ f \notin Seen(r, k).soft
    /\ r[i].value # Nil /\ Rests(r[i]) => Seen(r, k).val[f] = <<>> \/ f \in Seen(r, k).soft
    /\ ~Rests(r[i]) => Seen(r, k).val[f] \in {Seen(r, i).val[f], <<>>} /\ f \notin Seen(r, k).soft
    /\ ~Rests(r[i]) /\ r[i].tool = "fill" /\ r[i].value # Nil => Seen(r, i).val[f] = <<r[i].value>>
\* The recording by itself: what a field shows is what its last entry left.
RecordAt(r, k) ==
    /\ Seen(r, k).soft \subseteq Keyed
    /\ \A f \in Fields : Never(r, f) => Seen(r, k).val[f] = <<>> /\ f \notin Seen(r, k).soft
    /\ \A f \in Fields : \A i \in 1..k : Last(r, i, f) => Shows(r, i, f, k)
RecordInv == RecordAt(rec, n - 1)

LEMMA RecordInit == FillsInit => RecordInv
<1> SUFFICES ASSUME FillsInit PROVE RecordInv
  OBVIOUS
<1>1. Seen(rec, 0) = Document(1, Fields, FALSE)
  BY DEF Seen
<1>2. Seen(rec, 0).soft = {} /\ \A f \in Fields : Seen(rec, 0).val[f] = <<>>
  BY <1>1 DEF Document
<1>3. RecordAt(rec, 0)
  BY <1>2 DEF RecordAt
<1>4. n = 1
  BY DEF FillsInit
<1>5. n - 1 = 0
  BY <1>4
<1> QED BY <1>3, <1>5 DEF RecordInv

LEMMA RecordOn ==
    ASSUME PlaceType, RecordAt(rec, n - 1)
    PROVE  RecordAt(rec, n)
<1> DEFINE p == Seen(rec, n - 1)
           q == Seen(rec, n)
<1>0. n \in 1..Len(rec) /\ Len(rec) \in Nat /\ DOMAIN rec = 1..Len(rec) /\ step \in Step /\ Given(step) /\ rec[n] = step
  BY StepIs DEF step
<1>1. q = Gesture(p, step) /\ p \in Page
  BY RecordedIs DEF Recorded
<1> HIDE DEF p, q
<1>2. /\ Stays(p, q)
      /\ \A f \in Fields : ~Enters(step, f) => Fades(p, q, f)
      /\ step.tool = "fill" => q.val[step.on] = TextOf(step.value) /\ (step.on \in q.soft <=> step.on \in Keyed /\ step.value # Nil)
      /\ step.tool = "type" => q.val[step.on] # <<>> /\ step.on \notin q.soft
  BY <1>0, <1>1, GestureFades
<1>3. q \in Page /\ q.soft \subseteq Fields
  BY <1>2 DEF Stays, Page
<1>4. p.soft \subseteq Keyed
  BY DEF RecordAt, p
<1>5. ASSUME NEW f \in Fields, f \in q.soft PROVE f \in Keyed
  <2>1. CASE Enters(step, f)
    BY <2>1, <1>2, <1>5 DEF Enters
  <2>2. CASE ~Enters(step, f)
    BY <2>2, <1>2, <1>4, <1>5 DEF Fades
  <2> QED BY <2>1, <2>2
<1>6. ASSUME NEW f \in Fields, Never(rec, f) PROVE q.val[f] = <<>> /\ f \notin q.soft
  <2>1. ~Enters(step, f)
    BY <1>0, <1>6 DEF Never
  <2>2. p.val[f] = <<>> /\ f \notin p.soft
    BY <1>6 DEF RecordAt, p
  <2> QED BY <2>1, <2>2, <1>2 DEF Fades
<1>7. ASSUME NEW f \in Fields, NEW i \in 1..n, Last(rec, i, f) PROVE Shows(rec, i, f, n)
  <2>1. CASE i = n
    <3>1. Enters(step, f) /\ step.tool \in {"fill", "type"} /\ step.on = f /\ rec[i] = step /\ Seen(rec, i) = q
      BY <2>1, <1>0, <1>7 DEF Last, Enters, q
    <3>2. CASE step.tool = "fill"
      BY <3>1, <3>2, <1>2 DEF Shows, Rests, TextOf, q
    <3>3. CASE step.tool = "type"
      <4>1. step.value # Nil
        BY <3>3, <1>0, FormAssumption DEF Given
      <4> QED BY <3>1, <3>3, <4>1, <1>2 DEF Shows, Rests, q
    <3> QED BY <3>1, <3>2, <3>3
  <2>2. CASE i # n
    <3>1. i \in 1..n - 1 /\ n \in i + 1..Len(rec)
      BY <2>2, <1>0
    <3>2. ~Enters(step, f)
      BY <3>1, <1>0, <1>7 DEF Last
    <3>3. Shows(rec, i, f, n - 1)
      BY <3>1, <1>7 DEF RecordAt
    <3>4. Fades(p, q, f)
      BY <3>2, <1>2
    <3> QED BY <3>3, <3>4 DEF Shows, Fades, p, q
  <2> QED BY <2>1, <2>2
<1> QED BY <1>3, <1>5, <1>6, <1>7 DEF RecordAt, q

\* A step ahead is the only way forward.
LEMMA PlaceStep ==
    ASSUME FillsTypeInv, [FillsNext]_fillsVars
    PROVE  rec' = rec /\ n' \in {n, n + 1}
<1>1. CASE Replay
  BY <1>1 DEF Replay, Restore, Look, SetAgain, Confirm, EndCheck, Perform, Thrown, NoTarget, Judge, Note, Lost, Onward, Stop
<1>2. CASE Environment
  BY <1>2 DEF Environment, Reload, Build, Arrive, Reset, Land
<1> QED BY <1>1, <1>2 DEF FillsNext, fillsVars

LEMMA RecordStep == FillsTypeInv /\ RecordInv /\ [FillsNext]_fillsVars => RecordInv'
<1> SUFFICES ASSUME FillsTypeInv, RecordInv, [FillsNext]_fillsVars PROVE RecordInv'
  OBVIOUS
<1>1. rec' = rec /\ n' \in {n, n + 1} /\ n \in Nat /\ PlaceType
  BY PlaceStep, StepIs DEF FillsTypeInv
<1>2. RecordAt(rec, n)
  BY <1>1, RecordOn DEF RecordInv
<1>3. n + 1 - 1 = n
  BY <1>1
<1>4. n' = n => n' - 1 = n - 1
  OBVIOUS
<1>5. n' = n + 1 => n' - 1 = n
  BY <1>1, <1>3
<1>6. RecordInv' <=> RecordAt(rec, n' - 1)
  BY <1>1 DEF RecordInv
<1> QED BY <1>1, <1>2, <1>4, <1>5, <1>6 DEF RecordInv

(* The page                                                                *)

\* The page by itself: what has a text is built, and a check keeps focus away
\* but ahead of a key.
PageInv ==
    /\ page.soft \subseteq Keyed
    /\ \A f \in Fields : page.val[f] # <<>> => f \in page.built
    /\ Checking /\ step.tool # "press" => page.focus = Nil
    /\ phase = "set" => page.val[entry.on] = <<>>
    /\ phase = "note" => page.val[step.on] = TextOf(step.value) \/ (page.val[step.on] = <<>> /\ page.doc > 1)
    /\ phase = "judge" /\ step.tool = "fill" /\ page.doc = before => page.val[step.on] = TextOf(step.value)
    /\ phase = "judge" /\ step.tool = "type" => step.on \notin page.soft

LEMMA PageInit == FillsInit => PageInv
<1> SUFFICES ASSUME FillsInit PROVE PageInv
  OBVIOUS
<1>1. page.soft = {} /\ \A f \in Fields : page.val[f] = <<>>
  <2>1. page = Document(1, Fields, FALSE)
    BY DEF FillsInit
  <2> QED BY <2>1 DEF Document
<1>2. phase = "step"
  BY DEF FillsInit
<1> QED BY <1>1, <1>2 DEF PageInv, Checking

LEMMA PageReplay ==
    ASSUME FillsTypeInv, PageInv, Replay
    PROVE  PageInv'
<1>0. page \in Page /\ LedgerType /\ CheckType /\ PlaceType
  BY DEF FillsTypeInv
<1>1. step \in Step /\ Given(step) /\ n \in Nat
  BY <1>0, StepIs
<1>2. CASE Restore
  <2>1. phase = "step" /\ phase' \in {"look", "act"} /\ step' = step
        /\ ((phase' = "look" /\ page' = blurFirst(page)) \/ (phase' = "act" /\ page' = page))
    BY <1>2 DEF Restore, step
  <2>2. page'.soft \subseteq page.soft /\ page'.built = page.built /\ (\A f \in Fields : page'.val[f] \in {page.val[f], <<>>})
        /\ (phase' = "look" /\ step.tool # "press" => page'.focus = Nil)
    <3>1. Stays(page, blurFirst(page)) /\ (\A f \in Fields : Fades(page, blurFirst(page), f)) /\ (step.tool # "press" => blurFirst(page).focus = Nil)
      BY <1>0, BlurFirstFades
    <3>2. blurFirst(page).soft \subseteq Fields
      BY <3>1 DEF Stays, Page
    <3> QED BY <2>1, <3>1, <3>2 DEF Stays, Fades
  <2> QED BY <2>1, <2>2 DEF PageInv, Checking
<1>3. CASE Look
  <2>1. phase = "look" /\ phase' \in {"look", "set"} /\ page' = page /\ step' = step /\ (phase' = "set" => check' = check /\ page.val[entry.on] = <<>>)
    BY <1>3 DEF Look, NextEntry, step
  <2>2. phase' = "set" => entry' = entry
    BY <2>1 DEF entry
  <2> QED BY <2>1, <2>2 DEF PageInv, Checking
<1>4. CASE SetAgain \/ Confirm
  <2>1. phase \in {"set", "confirm"} /\ phase' \in {"look", "confirm"} /\ step' = step
    BY <1>4 DEF SetAgain, Confirm, NextEntry, step
  <2>2. CASE page' = page
    BY <2>1, <2>2 DEF PageInv, Checking
  <2>3. CASE page' # page
    <3> DEFINE e == entry.on
               a == blurFirst(reactSafeFill(page, e, entry.value))
               b == blurFirst(typeInto(page, e, entry.value))
    <3>1. e \in Fields /\ entry.value \in Values
      BY <1>0, <1>4, EntryIs DEF CheckType, Checking, SetAgain, Confirm
    <3>2. page' \in {a, b} /\ e \in page.built
      BY <1>4, <2>3 DEF SetAgain, Confirm
    <3>3. page.soft \subseteq Keyed /\ (step.tool # "press" => page.focus = Nil)
      BY <2>1 DEF PageInv, Checking
    <3>4. /\ Stays(page, a) /\ (\A f \in Fields \ {e} : Fades(page, a, f)) /\ (step.tool # "press" => a.focus = Nil)
          /\ Stays(page, b) /\ (\A f \in Fields \ {e} : Fades(page, b, f)) /\ (step.tool # "press" => b.focus = Nil)
          /\ e \notin b.soft /\ (e \in a.soft => e \in Keyed)
      BY <1>0, <3>1, <3>3, RefillFades
    <3> HIDE DEF e, a, b
    <3>5. page'.built = page.built /\ page'.soft \subseteq Fields /\ (step.tool # "press" => page'.focus = Nil) /\ (e \in page'.soft => e \in Keyed)
          /\ \A f \in Fields \ {e} : Fades(page, page', f)
      BY <3>2, <3>4 DEF Stays, Page
    <3>6. page'.soft \subseteq Keyed
      BY <3>3, <3>5 DEF Fades
    <3>7. \A f \in Fields : page'.val[f] # <<>> => f \in page'.built
      BY <3>2, <3>5 DEF Fades, PageInv
    <3> QED BY <3>5, <3>6, <3>7, <2>1 DEF PageInv
  <2> QED BY <2>2, <2>3
<1>5. CASE EndCheck
  <2>1. phase = "look" /\ phase' \in {"look", "act"} /\ step' = step
        /\ ((phase' = "look" /\ page' = blurFirst(page)) \/ (phase' = "act" /\ page' = page))
    BY <1>5 DEF EndCheck, step
  <2>2. page'.soft \subseteq page.soft /\ page'.built = page.built /\ (\A f \in Fields : page'.val[f] \in {page.val[f], <<>>})
        /\ (phase' = "look" /\ step.tool # "press" => page'.focus = Nil)
    <3>1. Stays(page, blurFirst(page)) /\ (\A f \in Fields : Fades(page, blurFirst(page), f)) /\ (step.tool # "press" => blurFirst(page).focus = Nil)
      BY <1>0, BlurFirstFades
    <3>2. blurFirst(page).soft \subseteq Fields
      BY <3>1 DEF Stays, Page
    <3> QED BY <2>1, <3>1, <3>2 DEF Stays, Fades
  <2> QED BY <2>1, <2>2 DEF PageInv, Checking
<1>6. CASE Perform
  <2>1. phase = "act" /\ phase' = "judge" /\ step' = step
    BY <1>6 DEF Perform, step
  <2>2. /\ Stays(page, page')
        /\ \A f \in Fields : ~Enters(step, f) => Fades(page, page', f)
        /\ step.tool = "fill" => page'.val[step.on] = TextOf(step.value) /\ (step.on \in page'.soft <=> step.on \in Keyed /\ step.value # Nil)
        /\ step.tool = "type" => page'.val[step.on] # <<>> /\ step.on \notin page'.soft
    BY <1>6, PerformIs
  <2>3. page'.soft \subseteq Fields /\ page'.built = page.built
    BY <2>2 DEF Stays, Page
  <2>4. ASSUME NEW f \in Fields PROVE (f \in page'.soft => f \in Keyed) /\ (page'.val[f] # <<>> => f \in page.built)
    <3>1. CASE Enters(step, f)
      <4>1. f \in page.built /\ f = step.on /\ step.tool \in {"fill", "type"}
        BY <3>1, <1>6 DEF Perform, Reachable, Enters
      <4> QED BY <4>1, <2>2
    <3>2. CASE ~Enters(step, f)
      BY <3>2, <2>2 DEF Fades, PageInv
    <3> QED BY <3>1, <3>2
  <2> QED BY <2>1, <2>2, <2>3, <2>4 DEF PageInv, Checking
<1>7. CASE Thrown \/ NoTarget
  BY <1>7 DEF Thrown, NoTarget, PageInv, Checking
<1>8. CASE Judge
  <2>1. phase = "judge" /\ page' = page /\ phase' \in {"note", "step", "done", "stopped", "lost"}
        /\ (phase' = "note" => step' = step /\ page.val[step.on] = TextOf(step.value))
    <3>1. phase = "judge" /\ page' = page /\ rec' = rec /\ phase' \in {"note", "step", "done", "stopped", "lost"}
      BY <1>8 DEF Judge, Onward, Stop
    <3>2. phase' = "note" => n' = n /\ page.val[step.on] = TextOf(step.value)
      BY <1>8 DEF Judge, Onward, Stop
    <3> QED BY <3>1, <3>2 DEF step
  <2> QED BY <2>1 DEF PageInv, Checking
<1>9. CASE Note \/ Lost
  <2>1. page' = page /\ phase' \in {"step", "done", "stopped"}
    BY <1>9 DEF Note, Lost, Onward
  <2> QED BY <2>1 DEF PageInv, Checking
<1> QED BY <1>2, <1>3, <1>4, <1>5, <1>6, <1>7, <1>8, <1>9 DEF Replay

LEMMA PageBeside ==
    ASSUME FillsTypeInv, FillsTypeInv', OnceInv, PageInv, Environment
    PROVE  PageInv'
<1>0. page \in Page /\ page' \in Page /\ PlaceType /\ page.doc \in Nat /\ before \in Nat /\ before <= page.doc
  BY FormAssumption DEF FillsTypeInv, PlaceType, Page
<1>1. UNCHANGED <<rec, phase, n, check, before>> /\ step' = step /\ Checking' = Checking /\ entry' = entry
  BY BesideIs DEF entry
<1>2. phase = "note" => net = NoForm /\ step.on \in Fields
  <2>1. phase = "note" => ~Final
    BY <1>0, StepIs DEF PlaceType
  <2>2. phase = "note" => step.on \in Fields
    BY <1>0, StepParts DEF PlaceType
  <2> QED BY <2>1, <2>2 DEF OnceInv
<1>3. CASE Reload
  <2>1. page'.doc = page.doc + 1 /\ page'.soft = {} /\ page'.focus = Nil /\ \A f \in Fields : page'.val[f] = <<>>
    <3>1. page' = Document(page.doc + 1, {}, posts # <<>>)
      BY <1>3 DEF Reload
    <3> QED BY <3>1, DocumentIs
  <2>2. page'.doc > 1 /\ page'.doc # before
    BY <2>1, <1>0 DEF Page
  <2>3. phase = "set" => entry.on \in Fields
    BY EntryIs DEF FillsTypeInv, CheckType, Checking
  <2> QED BY <2>1, <2>2, <2>3, <1>1, <1>2 DEF PageInv
<1>4. CASE \E f \in Fields : Build(f)
  <2>1. PICK f \in Fields : Build(f)
    BY <1>4
  <2>2. page' = [page EXCEPT !.built = @ \cup {f}]
    BY <2>1 DEF Build
  <2>3. page'.doc = page.doc /\ page'.soft = page.soft /\ page'.val = page.val /\ page'.focus = page.focus /\ page.built \subseteq page'.built
    BY <2>2, <1>0, BuildIs
  <2> QED BY <2>3, <1>1 DEF PageInv
<1>5. CASE Arrive
  BY <1>1, <1>5 DEF Arrive, PageInv
<1>6. CASE Reset \/ Land
  <2>1. page'.doc = page.doc /\ page'.soft = {} /\ page'.focus \in {page.focus, Nil} /\ \A f \in Fields : page'.val[f] = <<>>
    <3>1. CASE Reset
      <4>1. page' = [page EXCEPT !.val = [f \in Fields |-> <<>>], !.soft = {}]
        BY <3>1 DEF Reset
      <4> QED BY <4>1, <1>0, EmptiedIs
    <3>2. CASE Land
      BY <3>2, <1>0, LandedIs DEF PlaceType
    <3> QED BY <3>1, <3>2, <1>6
  <2>2. net # NoForm
    BY <1>6 DEF Reset, Land, NoForm
  <2>3. phase = "set" => entry.on \in Fields
    BY EntryIs DEF FillsTypeInv, CheckType, Checking
  <2>4. Final
    BY <2>2 DEF OnceInv
  <2>5. step.tool \notin {"fill", "type"}
    BY <2>4, <1>0, StepIs
  <2> QED BY <2>1, <2>2, <2>3, <2>5, <1>1, <1>2 DEF PageInv
<1> QED BY <1>3, <1>4, <1>5, <1>6 DEF Environment

LEMMA PageStep == FillsTypeInv /\ OnceInv /\ PageInv /\ [FillsNext]_fillsVars => PageInv'
<1> SUFFICES ASSUME FillsTypeInv, OnceInv, PageInv, [FillsNext]_fillsVars PROVE PageInv'
  OBVIOUS
<1>1. CASE UNCHANGED fillsVars
  BY <1>1 DEF fillsVars, ledger, PageInv, step, entry, Checking
<1> QED BY <1>1, PageReplay, PageBeside, FillsTypeStep DEF FillsNext

\* The last entry of f empties it, no fill of f standing any more.
ClearedAt(r, i, f) ==
    /\ Last(r, i, f) /\ r[i].value = Nil
    /\ \A j \in 1..i - 1 : r[j].tool = "fill" /\ r[j].on = f /\ r[j].value # Nil =>
        \E k \in j + 1..i - 1 : r[k].tool \in Submits \cup Retires
\* By step k field f is empty for good.
Bare(r, f, k) == Never(r, f) \/ \E i \in 1..k : ClearedAt(r, i, f)
\* A field that the recording emptied for good is empty, and in no ledger.
EmptyInv ==
    \A f \in Fields : Bare(rec, f, n - 1) =>
        /\ page.val[f] = <<>> /\ Out(fills, f)
        /\ Checking => Out(check.fills, f)
        /\ TakenAlong => Out(submitted.fills, f)

LEMMA BareNot ==
    ASSUME PlaceType, NEW f \in Fields, Bare(rec, f, n - 1)
    PROVE  ~Enters(step, f)
<1>0. n \in 1..Len(rec) /\ Len(rec) \in Nat /\ DOMAIN rec = 1..Len(rec) /\ rec[n] = step
  BY StepIs DEF step
<1>1. CASE Never(rec, f)
  BY <1>0, <1>1 DEF Never
<1>2. CASE \E i \in 1..n - 1 : ClearedAt(rec, i, f)
  <2>1. PICK i \in 1..n - 1 : Last(rec, i, f)
    BY <1>2 DEF ClearedAt
  <2>2. n \in i + 1..Len(rec)
    BY <1>0
  <2> QED BY <2>1, <2>2, <1>0 DEF Last
<1> QED BY <1>1, <1>2 DEF Bare

LEMMA BareOn ==
    ASSUME NEW r, NEW f, NEW k \in Nat \ {0}, Bare(r, f, k), ~ClearedAt(r, k, f)
    PROVE  Bare(r, f, k - 1)
<1>1. CASE Never(r, f)
  BY <1>1 DEF Bare
<1>2. CASE \E i \in 1..k : ClearedAt(r, i, f)
  <2>1. PICK i \in 1..k : ClearedAt(r, i, f)
    BY <1>2
  <2>2. i \in 1..k - 1
    BY <2>1
  <2> QED BY <2>1, <2>2 DEF Bare
<1> QED BY <1>1, <1>2 DEF Bare

LEMMA OutOfLedger ==
    ASSUME FillsTypeInv, LedgerInv, NEW f \in Fields, ClearedAt(rec, n, f)
    PROVE  Out(fills, f)
<1> SUFFICES ASSUME NEW i \in DOMAIN fills, fills[i].on = f PROVE FALSE
  BY DEF Out
<1>0. fills[i] \in Fill /\ fills[i].value # Nil
  <2>1. fills[i] \in Fill
    BY DEF FillsTypeInv, LedgerType
  <2> QED BY <2>1, FormAssumption DEF Fill
<1>1. FilledBefore(rec, fills[i], n)
  BY DEF LedgerInv, Stands
<1>2. PICK j \in 1..n - 1 :
        /\ rec[j].tool = "fill" /\ rec[j].on = fills[i].on /\ rec[j].value = fills[i].value
        /\ \A m \in j + 1..n - 1 : rec[m].tool \notin Submits \cup Retires
  BY <1>1 DEF FilledBefore
<1>3. \E k \in j + 1..n - 1 : rec[k].tool \in Submits \cup Retires
  BY <1>0, <1>2 DEF ClearedAt
<1> QED BY <1>2, <1>3

LEMMA EmptyInit == FillsInit => EmptyInv
<1> SUFFICES ASSUME FillsInit, NEW f \in Fields PROVE page.val[f] = <<>> /\ Out(fills, f) /\ ~Checking /\ ~TakenAlong
  BY DEF EmptyInv
<1>1. page = Document(1, Fields, FALSE) /\ fills = <<>> /\ phase = "step"
  BY DEF FillsInit
<1>2. page.val[f] = <<>>
  BY <1>1 DEF Document
<1>3. Out(fills, f)
  BY <1>1 DEF Out
<1> QED BY <1>1, <1>2, <1>3 DEF Checking, TakenAlong

LEMMA EmptyReplay ==
    ASSUME FillsTypeInv, LedgerInv, PageInv, EmptyInv, Replay
    PROVE  EmptyInv'
<1>0. page \in Page /\ LedgerType /\ CheckType /\ PlaceType
  BY DEF FillsTypeInv
<1>1. step \in Step /\ Given(step) /\ n \in Nat \ {0} /\ n + 1 - 1 = n /\ rec' = rec /\ rec[n] = step /\ (Final <=> step.tool \in {"save", "press"})
  BY <1>0, StepIs DEF step, Replay, Restore, Look, SetAgain, Confirm, EndCheck, Perform, Thrown, NoTarget, Judge, Note, Lost
<1>2. ASSUME n' = n,
             \A f \in Fields : Bare(rec, f, n - 1) =>
                page'.val[f] = <<>> /\ Out(fills', f) /\ (Checking' => Out(check'.fills, f)) /\ (TakenAlong' => Out(submitted'.fills, f))
      PROVE  EmptyInv'
  BY <1>1, <1>2 DEF EmptyInv, Out
<1>3. CASE Restore
  <2>1. phase = "step" /\ n' = n /\ phase' \in {"look", "act"} /\ page' \in {page, blurFirst(page)}
        /\ (fills' = fills \/ fills' = <<>>) /\ (Checking' => check'.fills = fills) /\ Final' = Final
    BY <1>1, <1>3 DEF Restore, Checking, Final
  <2>2. TakenAlong' => submitted' = Nothing
    BY <1>1, <1>3, <2>1 DEF Restore, TakenAlong, Submits
  <2>3. \A f \in Fields : page'.val[f] \in {page.val[f], <<>>}
    BY <2>1, <1>0, BlurFirstFades DEF Fades
  <2> QED BY <2>1, <2>2, <2>3, <1>2 DEF EmptyInv, Out, Nothing
<1>4. CASE Look \/ SetAgain \/ Confirm
  <2>1. Checking /\ n' = n /\ fills' = fills /\ ~TakenAlong' /\ check.i <= Len(check.fills)
    BY <1>0, <1>4 DEF Look, SetAgain, Confirm, NextEntry, TakenAlong, Checking, CheckType
  <2>2. check'.fills = check.fills
    <3>1. check \in [fills : Seq(Fill), doc : 1..MaxReloads + 1, pass : 1..2, i : Nat \ {0}]
      BY <1>0, <2>1 DEF CheckType
    <3>2. check' = check \/ check' = [check EXCEPT !.i = @ + 1]
      BY <1>4 DEF Look, SetAgain, Confirm, NextEntry
    <3> QED BY <3>1, <3>2
  <2>3. entry.on \in Fields /\ entry.value \in Values /\ check.i \in DOMAIN check.fills
    BY <1>0, <2>1, EntryIs
  <2>4. ASSUME NEW f \in Fields, Bare(rec, f, n - 1) PROVE page'.val[f] = <<>>
    <3>1. f # entry.on /\ page.val[f] = <<>>
      BY <2>1, <2>3, <2>4 DEF EmptyInv, Out, entry
    <3>2. (step.tool # "press" => page.focus = Nil) /\ page.soft \subseteq Keyed
      BY <2>1 DEF PageInv
    <3>3. page' \in {page, blurFirst(reactSafeFill(page, entry.on, entry.value)), blurFirst(typeInto(page, entry.on, entry.value))}
      BY <1>4 DEF Look, SetAgain, Confirm
    <3>4. page' = page \/ Fades(page, page', f)
      BY <3>1, <3>2, <3>3, <2>3, <1>0, RefillFades
    <3> QED BY <3>1, <3>4 DEF Fades
  <2> QED BY <2>1, <2>2, <2>4, <1>2 DEF EmptyInv
<1>5. CASE EndCheck
  <2>1. phase = "look" /\ Checking /\ n' = n /\ fills' = fills /\ page' \in {page, blurFirst(page)}
    BY <1>5 DEF EndCheck, Checking
  <2>2. check \in [fills : Seq(Fill), doc : 1..MaxReloads + 1, pass : 1..2, i : Nat \ {0}]
    BY <1>0, <2>1 DEF CheckType
  <2>3. check'.fills = check.fills
    BY <1>5, <2>2 DEF EndCheck
  <2>4. TakenAlong' => submitted'.fills = check.fills
    BY <1>5, <2>1 DEF EndCheck, TakenAlong
  <2>5. \A f \in Fields : page'.val[f] \in {page.val[f], <<>>}
    BY <2>1, <1>0, BlurFirstFades DEF Fades
  <2> QED BY <2>1, <2>3, <2>4, <2>5, <1>2 DEF EmptyInv
<1>6. CASE Perform
  <2>1. phase = "act" /\ phase' = "judge" /\ n' = n /\ UNCHANGED <<fills, submitted>> /\ ~Checking' /\ (TakenAlong' => TakenAlong)
    BY <1>1, <1>6 DEF Perform, ledger, Checking, TakenAlong, Final
  <2>2. \A f \in Fields : ~Enters(step, f) => Fades(page, page', f)
    BY <1>6, PerformIs
  <2>3. ASSUME NEW f \in Fields, Bare(rec, f, n - 1) PROVE page'.val[f] = <<>>
    BY <1>0, <2>2, <2>3, BareNot DEF EmptyInv, Fades
  <2> QED BY <2>1, <2>3, <1>2 DEF EmptyInv
<1>7. ASSUME n' = n, UNCHANGED <<page, fills>>, ~Checking', TakenAlong' => TakenAlong /\ submitted' = submitted PROVE EmptyInv'
  BY <1>2, <1>7 DEF EmptyInv
<1>8. ASSUME Onward, page' = page, \A f \in Fields : Bare(rec, f, n) => page.val[f] = <<>> /\ Out(fills', f)
      PROVE  EmptyInv'
  <2>1. CASE Final
    <3>1. n' = n /\ phase' = "done"
      BY <1>8, <2>1 DEF Onward, Final
    <3>2. ASSUME NEW f \in Fields, Bare(rec, f, n - 1) PROVE Bare(rec, f, n)
      <4>1. 1..n - 1 \subseteq 1..n
        BY <1>1
      <4> QED BY <3>2, <4>1 DEF Bare
    <3> QED BY <3>1, <3>2, <1>2, <1>8 DEF Checking, TakenAlong
  <2>2. CASE ~Final
    <3>1. n' = n + 1 /\ phase' = "step" /\ n' - 1 = n
      BY <1>1, <1>8, <2>2 DEF Onward, Final
    <3> QED BY <3>1, <1>1, <1>8 DEF EmptyInv, Checking, TakenAlong, Out
  <2> QED BY <2>1, <2>2
<1>9. CASE Thrown \/ NoTarget
  BY <1>7, <1>9 DEF Thrown, NoTarget, ledger, Checking, TakenAlong
<1>10. CASE Judge
  <2>1. UNCHANGED <<page, fills, submitted>> /\ phase = "judge"
    BY <1>10 DEF Judge, ledger
  <2>2. CASE n' = n /\ phase' \in {"note", "step", "stopped", "lost"}
    <3>1. ~Checking' /\ (TakenAlong' => TakenAlong)
      BY <1>1, <2>1, <2>2 DEF Checking, TakenAlong, Final
    <3> QED BY <2>1, <2>2, <3>1, <1>7
  <2>3. CASE Onward /\ step.tool # "fill"
    <3>1. ASSUME NEW f \in Fields, Bare(rec, f, n) PROVE page.val[f] = <<>> /\ Out(fills, f)
      <4>1. ~ClearedAt(rec, n, f)
        BY <1>1, <2>3, FormAssumption DEF ClearedAt, Last, Enters, Given
      <4>2. Bare(rec, f, n - 1)
        BY <1>1, <3>1, <4>1, BareOn
      <4> QED BY <4>2 DEF EmptyInv
    <3> QED BY <2>1, <2>3, <3>1, <1>8
  <2> QED BY <2>2, <2>3, <1>10 DEF Judge, Stop
<1>11. CASE Note
  <2>1. step.tool = "fill" /\ phase = "note" /\ Onward /\ page' = page
    BY <1>0, <1>11 DEF Note, PlaceType
  <2>2. step.on \in Fields /\ step.value \in Values \cup {Nil}
    BY <1>0, <2>1, StepParts
  <2>3. ASSUME NEW f \in Fields, Bare(rec, f, n - 1) PROVE page.val[f] = <<>> /\ Out(fills', f)
    <3>1. page.val[f] = <<>> /\ Out(fills, f)
      BY <2>3 DEF EmptyInv
    <3>2. CASE step.value = Nil
      BY <3>1, <3>2, <1>11 DEF Note
    <3>3. CASE step.value # Nil
      <4>1. fills' = Noted /\ page.doc \in 1..MaxReloads + 1
        BY <3>3, <1>0, <1>11 DEF Note, Noted, Page
      <4>2. \A k \in DOMAIN Noted : Noted[k].on # step.on => \E i \in DOMAIN fills : fills[i] = Noted[k]
        BY <1>0, <2>2, <3>3, <4>1, NotedIs DEF LedgerType
      <4>3. f # step.on
        BY <1>0, <2>1, <2>3, BareNot DEF Enters
      <4> QED BY <3>1, <4>1, <4>2, <4>3 DEF Out
    <3> QED BY <3>2, <3>3
  <2>4. ASSUME NEW f \in Fields, ClearedAt(rec, n, f) PROVE page.val[f] = <<>> /\ Out(fills', f)
    <3>1. f = step.on /\ step.value = Nil
      BY <1>1, <2>4 DEF ClearedAt, Last, Enters
    <3>2. page.val[f] = <<>>
      BY <2>1, <3>1 DEF PageInv, TextOf
    <3>3. fills' = fills
      BY <3>1, <1>11 DEF Note
    <3> QED BY <2>4, <3>2, <3>3, OutOfLedger
  <2>5. \A f \in Fields : Bare(rec, f, n) => page.val[f] = <<>> /\ Out(fills', f)
    BY <2>3, <2>4, <1>1, BareOn
  <2> QED BY <2>1, <2>5, <1>8
<1>12. CASE Lost
  <2>1. phase = "lost" /\ Final /\ TakenAlong /\ n' = n /\ page' = page /\ ~Checking' /\ ~TakenAlong' 
    BY <1>0, <1>12 DEF Lost, PlaceType, TakenAlong, Checking
  <2>2. fills' \in {fills, submitted.fills}
    BY <1>12 DEF Lost
  <2> QED BY <2>1, <2>2, <1>2 DEF EmptyInv
<1> QED BY <1>3, <1>4, <1>5, <1>6, <1>9, <1>10, <1>11, <1>12 DEF Replay

LEMMA EmptyStep == FillsTypeInv /\ LedgerInv /\ PageInv /\ EmptyInv /\ [FillsNext]_fillsVars => EmptyInv'
<1> SUFFICES ASSUME FillsTypeInv, LedgerInv, PageInv, EmptyInv, [FillsNext]_fillsVars PROVE EmptyInv'
  OBVIOUS
<1>1. CASE Environment
  <2>1. UNCHANGED <<rec, n, fills, submitted, check>> /\ Checking' = Checking /\ TakenAlong' = TakenAlong
        /\ (page'.val = page.val \/ \A f \in Fields : page'.val[f] = <<>>)
    BY <1>1, BesideIs
  <2> QED BY <2>1 DEF EmptyInv, Out
<1>2. CASE UNCHANGED fillsVars
  BY <1>2 DEF fillsVars, ledger, EmptyInv, Checking, TakenAlong, Final, Out
<1> QED BY <1>1, <1>2, EmptyReplay DEF FillsNext

(* What the first pass of a check did not see is there for the second.     *)

UnseenInv ==
    Checking /\ check.pass = 1 =>
        \A f \in unseen : page.val[f] = <<>> /\ \E k \in DOMAIN check.fills : k < check.i /\ check.fills[k].on = f

LEMMA UnseenStep == FillsTypeInv /\ PageInv /\ UnseenInv /\ [FillsNext]_fillsVars => UnseenInv'
<1> SUFFICES ASSUME FillsTypeInv, PageInv, UnseenInv, [FillsNext]_fillsVars PROVE UnseenInv'
  OBVIOUS
<1>0. page \in Page /\ CheckType /\ PlaceType /\ unseen \subseteq Fields
  BY DEF FillsTypeInv, PlaceType
<1>1. CASE Restore
  BY <1>1 DEF Restore, UnseenInv, Checking
<1>2. CASE Look \/ SetAgain \/ Confirm
  <2> DEFINE e == entry.on
  <2>1. Checking /\ check.i <= Len(check.fills)
    BY <1>0, <1>2 DEF Look, SetAgain, Confirm, Checking, CheckType
  <2>2. /\ entry.on \in Fields /\ entry.value \in Values /\ check.i \in 1..Len(check.fills) /\ check.i \in DOMAIN check.fills /\ check.i \in Nat
        /\ check.fills \in Seq(Fill) /\ Single(check.fills)
        /\ check \in [fills : Seq(Fill), doc : 1..MaxReloads + 1, pass : 1..2, i : Nat \ {0}]
    BY <1>0, <2>1, EntryIs DEF CheckType
  <2>3. check'.fills = check.fills /\ check'.pass = check.pass /\ (check'.i = check.i \/ check'.i = check.i + 1)
        /\ (NextEntry => check'.i = check.i + 1)
    <3>1. check' = check \/ NextEntry
      BY <1>2 DEF Look, SetAgain, Confirm
    <3>2. NextEntry => check' = [check EXCEPT !.i = @ + 1]
      BY DEF NextEntry
    <3> QED BY <3>1, <3>2, <2>2
  <2>4. page' \in {page, blurFirst(reactSafeFill(page, entry.on, entry.value)), blurFirst(typeInto(page, entry.on, entry.value))}
    BY <1>2 DEF Look, SetAgain, Confirm
  <2>5. (step.tool # "press" => page.focus = Nil) /\ page.soft \subseteq Keyed
    BY <2>1 DEF PageInv
  <2>6. \A f \in Fields \ {entry.on} : page' = page \/ Fades(page, page', f)
    BY <2>2, <2>4, <2>5, <1>0, RefillFades
  <2>7. unseen' = unseen \/ (unseen' = unseen \cup {entry.on} /\ entry.on \notin page.built /\ page' = page /\ NextEntry)
    BY <1>2 DEF Look, SetAgain, Confirm
  <2> SUFFICES ASSUME check.pass = 1, NEW f \in unseen'
               PROVE  page'.val[f] = <<>> /\ \E k \in DOMAIN check.fills : k < check'.i /\ check.fills[k].on = f
    BY <2>3 DEF UnseenInv
  <2>8. CASE f \in unseen
    <3>1. page.val[f] = <<>> /\ \E k \in DOMAIN check.fills : k < check.i /\ check.fills[k].on = f
      BY <2>1, <2>8 DEF UnseenInv
    <3>2. PICK k \in DOMAIN check.fills : k < check.i /\ check.fills[k].on = f
      BY <3>1
    <3>3. k < check'.i
      BY <3>2, <2>2, <2>3
    <3>4. f # entry.on
      BY <3>2, <2>2 DEF Single, entry
    <3>5. page'.val[f] = <<>>
      BY <3>1, <3>4, <2>6, <2>8, <1>0 DEF Fades
    <3> QED BY <3>2, <3>3, <3>5
  <2>9. CASE f \notin unseen
    <3>1. f = entry.on /\ entry.on \notin page.built /\ page' = page /\ check'.i = check.i + 1
      BY <2>7, <2>9, <2>3
    <3>2. page.val[f] = <<>>
      BY <3>1, <2>2 DEF PageInv
    <3>3. check.i < check'.i /\ check.fills[check.i].on = f
      BY <3>1, <2>2 DEF entry
    <3> QED BY <3>1, <3>2, <3>3, <2>2
  <2> QED BY <2>8, <2>9
<1>3. CASE EndCheck
  BY <1>3 DEF EndCheck, UnseenInv, Checking
<1>4. CASE Perform \/ Thrown \/ NoTarget \/ Judge \/ Note \/ Lost
  BY <1>4 DEF Perform, Thrown, NoTarget, Judge, Note, Lost, Onward, Stop, history, UnseenInv, Checking
<1>5. CASE Environment
  <2>1. UNCHANGED <<phase, check>> /\ Checking' = Checking
        /\ (page'.val = page.val \/ \A f \in Fields : page'.val[f] = <<>>)
    BY <1>5, BesideIs
  <2>2. Checking /\ check.pass = 1 => unseen' = unseen
    BY <1>5 DEF Environment, Reload, Build, Arrive, Reset, Land, history, Checking
  <2> QED BY <2>1, <2>2, <1>0 DEF UnseenInv
<1>6. CASE UNCHANGED fillsVars
  BY <1>6 DEF fillsVars, ledger, history, UnseenInv, Checking
<1> QED BY <1>1, <1>2, <1>3, <1>4, <1>5, <1>6 DEF FillsNext, Replay

----------------------------------------------------------------------------
(* KeptInv: a text the recording shows is kept, or is written off          *)

\* The recording left value v in field f by its last entry there, step i.
Wanted(r, i, f, v) == Last(r, i, f) /\ r[i].value = v /\ ~Rests(r[i]) /\ Seen(r, i).val[f] = <<v>>
\* The field holds the value, for good unless a key press is on its way to it.
Held(f, v) ==
    page.val[f] = <<v>> /\ (f \in page.soft => step.tool = "press" /\ phase \in {"look", "set", "confirm", "act"})
Ahead(f, v) == \E k \in DOMAIN check.fills : k >= check.i /\ check.fills[k].on = f /\ check.fills[k].value = v
\* The field is empty, and a ledger will bring the value back.
Will(f, v) ==
    /\ page.val[f] = <<>>
    /\ \/ Checking /\ (Ahead(f, v) \/ (Again /\ In(check.fills, f, v)))
       \/ ~Checking /\ In(fills, f, v) /\ (Final \/ page.doc > 1)
       \/ Late /\ In(submitted.fills, f, v)
\* The last check did not see the field, and nothing else is in the ledgers.
Excused(f, v) ==
    /\ f \in unseen /\ Out(fills, f)
    /\ Checking => Only(check.fills, f, v)
    /\ TakenAlong => Only(submitted.fills, f, v)
\* One of these is so of every value the recording still shows.
Kept(f, v) == f \in gone \/ Seen(rec, n).val[f] = <<>> \/ Held(f, v) \/ Will(f, v) \/ Excused(f, v)
\* While the form may still be sent, or sent again.
Scope == phase \notin {"done", "stopped", "torn"} /\ page.at = "form" /\ (Late => lands)
\* What the recording entered so far is kept.
KeptInv ==
    Scope => \A f \in Fields : \A v \in Values : \A i \in 1..n - 1 : Wanted(rec, i, f, v) => Kept(f, v)

LEMMA KeptInit == FillsInit => KeptInv
<1> SUFFICES ASSUME FillsInit PROVE KeptInv
  OBVIOUS
<1>1. n = 1
  BY DEF FillsInit
<1>2. 1..n - 1 = {}
  BY <1>1
<1> QED BY <1>2 DEF KeptInv

\* What a step of the replay may do before it is acted on: Kept stays.
LEMMA KeptRestore ==
    ASSUME FillsTypeInv, LedgerInv, Restore, NEW f \in Fields, NEW v \in Values, Kept(f, v)
    PROVE  Kept(f, v)'
<1>0. page \in Page /\ LedgerType /\ CheckType /\ PlaceType
  BY DEF FillsTypeInv
<1>1. /\ rec' = rec /\ n' = n /\ step' = step /\ Final' = Final /\ phase = "step" /\ phase' \in {"look", "act"} /\ ~Late /\ ~Late' /\ ~Checking
      /\ gone \subseteq gone'
  BY DEF Restore, step, Final, Late, Checking
<1>2. page' \in {page, blurFirst(page)}
  BY DEF Restore
<1>3. /\ Stays(page, blurFirst(page)) /\ \A g \in Fields : Fades(page, blurFirst(page), g)
      /\ \A g \in Fields : g \notin page.soft => blurFirst(page).val[g] = page.val[g]
  BY <1>0, BlurFirstFades
<1>4. CASE f \in gone
  BY <1>1, <1>4 DEF Kept
<1>5. CASE Seen(rec, n).val[f] = <<>>
  BY <1>1, <1>5 DEF Kept
<1>6. CASE Held(f, v)
  <2>1. page.val[f] = <<v>> /\ f \notin page.soft
    BY <1>1, <1>6 DEF Held
  <2>2. page'.val[f] = <<v>> /\ f \notin page'.soft
    BY <2>1, <1>2, <1>3 DEF Fades
  <2> QED BY <2>2 DEF Held, Kept
<1>7. CASE Will(f, v)
  <2>1. page.val[f] = <<>> /\ In(fills, f, v) /\ (Final \/ page.doc > 1)
    BY <1>1, <1>7 DEF Will
  <2>2. page'.val[f] = <<>>
    BY <2>1, <1>2, <1>3 DEF Fades
  <2>3. PICK k \in DOMAIN fills : fills[k].on = f /\ fills[k].value = v
    BY <2>1 DEF In
  <2>4. CASE step.tool \in Submits
    <3>1. check' = [fills |-> fills, doc |-> page.doc, pass |-> 1, i |-> 1] /\ phase' = "look"
      BY <2>3, <2>4 DEF Restore
    <3>2. k >= 1
      BY <2>3, <1>0 DEF LedgerType
    <3>3. Ahead(f, v)' /\ Checking'
      BY <2>3, <3>1, <3>2 DEF Ahead, Checking
    <3> QED BY <2>2, <3>3 DEF Will, Kept
  <2>5. CASE step.tool \in Retires
    <3>1. ~Final
      BY <2>5, <1>0, StepIs DEF Retires
    <3>2. f \in Forgotten
      BY <2>1, <2>3, <2>5, <3>1 DEF Forgotten
    <3> QED BY <3>2, <2>5 DEF Restore, Kept
  <2>6. CASE step.tool \notin Submits \cup Retires
    <3>1. fills' = fills /\ phase' = "act" /\ page' = page
      BY <2>6 DEF Restore
    <3> QED BY <2>1, <3>1, <1>1 DEF Will, Kept, In, Checking
  <2> QED BY <2>4, <2>5, <2>6
<1>8. CASE Excused(f, v)
  <2>1. f \in unseen /\ Out(fills, f)
    BY <1>8 DEF Excused
  <2>2. CASE step.tool \in Submits \cup Retires
    <3>1. f \notin {fills[i].on : i \in DOMAIN fills}
      BY <2>1 DEF Out
    <3> QED BY <2>1, <2>2, <3>1 DEF Restore, Kept
  <2>3. CASE step.tool \notin Submits \cup Retires
    <3>1. fills' = fills /\ phase' = "act" /\ unseen' = unseen /\ ~Final
      BY <2>3, <1>0, StepIs DEF Restore, Submits
    <3> QED BY <2>1, <3>1, <1>1 DEF Excused, Kept, Out, Checking, TakenAlong
  <2> QED BY <2>2, <2>3
<1> QED BY <1>4, <1>5, <1>6, <1>7, <1>8 DEF Kept

\* The entries a check has still to come to.
LEMMA AheadIs ==
    ASSUME CheckType, Checking, check.i <= Len(check.fills), NEW f, NEW v, Ahead(f, v)
    PROVE  (entry.on = f /\ entry.value = v) \/ (NextEntry => Ahead(f, v)')
<1>0. /\ check.fills \in Seq(Fill) /\ check.i \in DOMAIN check.fills /\ check.i \in Nat
      /\ check \in [fills : Seq(Fill), doc : 1..MaxReloads + 1, pass : 1..2, i : Nat \ {0}]
  BY EntryIs DEF CheckType
<1>1. PICK k \in DOMAIN check.fills : k >= check.i /\ check.fills[k].on = f /\ check.fills[k].value = v
  BY DEF Ahead
<1>2. CASE k = check.i
  BY <1>1, <1>2 DEF entry
<1>3. CASE k # check.i
  <2>1. k >= check.i + 1
    BY <1>0, <1>1, <1>3
  <2>2. NextEntry => check'.fills = check.fills /\ check'.i = check.i + 1
    BY <1>0 DEF NextEntry
  <2> QED BY <1>1, <2>1, <2>2 DEF Ahead
<1> QED BY <1>2, <1>3

\* One field of a check: nothing but the entry at work is passed over.
LEMMA KeptEntry ==
    ASSUME FillsTypeInv, LedgerInv, PageInv, Look \/ SetAgain \/ Confirm, NEW f \in Fields, NEW v \in Values, Kept(f, v)
    PROVE  Kept(f, v)'
<1>0. page \in Page /\ LedgerType /\ CheckType /\ PlaceType
  BY DEF FillsTypeInv
<1>1. /\ rec' = rec /\ n' = n /\ step' = step /\ fills' = fills /\ Checking /\ Checking' /\ check.i <= Len(check.fills)
      /\ gone \subseteq gone' /\ phase \in {"look", "set", "confirm"} /\ phase' \in {"look", "set", "confirm"}
  BY <1>0 DEF Look, SetAgain, Confirm, NextEntry, step, Checking, CheckType
<1>2. /\ entry.on \in Fields /\ entry.value \in Values /\ check.i \in DOMAIN check.fills
      /\ check.fills \in Seq(Fill) /\ Single(check.fills)
      /\ check \in [fills : Seq(Fill), doc : 1..MaxReloads + 1, pass : 1..2, i : Nat \ {0}]
  BY <1>0, <1>1, EntryIs DEF CheckType
<1>3. check'.fills = check.fills /\ check'.doc = check.doc /\ check'.pass = check.pass /\ ~TakenAlong' /\ fills = <<>>
  <2>1. check' = check \/ NextEntry
    BY DEF Look, SetAgain, Confirm
  <2>2. NextEntry => check' = [check EXCEPT !.i = @ + 1]
    BY DEF NextEntry
  <2> QED BY <2>1, <2>2, <1>1, <1>2 DEF TakenAlong, LedgerInv
<1>4. Out(fills, f)'
  BY <1>1, <1>3 DEF Out
<1>5. CASE f \in gone \/ Seen(rec, n).val[f] = <<>>
  BY <1>1, <1>5 DEF Kept
<1>6. CASE Excused(f, v)
  <2>1. f \in unseen' /\ Only(check.fills, f, v)'
    BY <1>1, <1>3, <1>6 DEF Excused, Look, SetAgain, Confirm, Only
  <2> QED BY <2>1, <1>3, <1>4 DEF Excused, Kept
<1>7. ASSUME Will(f, v) PROVE page.val[f] = <<>> /\ (Ahead(f, v) \/ (Again /\ In(check.fills, f, v))) /\ In(check.fills, f, v)
  BY <1>7, <1>1 DEF Will, Ahead, In, Late, Checking
<1>8. ASSUME In(check.fills, f, v) PROVE Only(check.fills, f, v) /\ (entry.on = f => entry.value = v)
  BY <1>8, <1>2 DEF In, Only, Single, entry
<1>9. page'.doc = page.doc => Again' = Again
  BY <1>3 DEF Again
\* the field was passed over
<1>10. ASSUME entry.on \notin page.built, page' = page, NextEntry, unseen' = unseen \cup {entry.on}, Held(f, v) \/ Will(f, v)
       PROVE  Kept(f, v)'
  <2>1. CASE Held(f, v)
    BY <2>1, <1>10, <1>1 DEF Held, Kept
  <2>2. CASE Will(f, v) /\ f = entry.on
    <3>1. Only(check.fills, f, v)'
      BY <2>2, <1>3, <1>7, <1>8 DEF Only
    <3> QED BY <2>2, <3>1, <1>3, <1>4, <1>10 DEF Excused, Kept
  <2>3. CASE Will(f, v) /\ f # entry.on
    <3>1. Ahead(f, v) => Ahead(f, v)'
      BY <2>3, <1>0, <1>1, <1>10, AheadIs
    <3>2. Again /\ In(check.fills, f, v) => (Again /\ In(check.fills, f, v))'
      BY <1>3, <1>9, <1>10 DEF In
    <3> QED BY <2>3, <3>1, <3>2, <1>1, <1>7, <1>10 DEF Will, Kept
  <2> QED BY <2>1, <2>2, <2>3, <1>10
\* the field was left as it is, or is about to be set
<1>11. ASSUME page' = page, UNCHANGED check \/ (NextEntry /\ page.val[entry.on] # <<>>), Held(f, v) \/ Will(f, v)
       PROVE  Kept(f, v)'
  <2>1. CASE Held(f, v)
    BY <2>1, <1>11, <1>1 DEF Held, Kept
  <2>2. CASE Will(f, v)
    <3>1. Ahead(f, v) => Ahead(f, v)'
      <4>1. CASE UNCHANGED check
        BY <4>1 DEF Ahead
      <4>2. CASE NextEntry /\ page.val[entry.on] # <<>>
        BY <2>2, <4>2, <1>0, <1>1, <1>7, AheadIs
      <4> QED BY <4>1, <4>2, <1>11
    <3>2. Again /\ In(check.fills, f, v) => (Again /\ In(check.fills, f, v))'
      BY <1>3, <1>9, <1>11 DEF In
    <3> QED BY <2>2, <3>1, <3>2, <1>1, <1>7, <1>11 DEF Will, Kept
  <2> QED BY <2>1, <2>2, <1>11
\* the field was set again
<1> DEFINE a == blurFirst(reactSafeFill(page, entry.on, entry.value))
           b == blurFirst(typeInto(page, entry.on, entry.value))
<1>12. ASSUME page.val[entry.on] = <<>>, gone' = gone \cup Swept(page'),
              (page' = a /\ UNCHANGED check) \/ (page' = b /\ NextEntry), Held(f, v) \/ Will(f, v)
       PROVE  Kept(f, v)'
  <2>1. page.soft \subseteq Keyed /\ (step.tool # "press" => page.focus = Nil)
    BY <1>1 DEF PageInv
  <2>2. /\ Stays(page, a) /\ (\A g \in Fields \ {entry.on} : Fades(page, a, g))
        /\ Stays(page, b) /\ (\A g \in Fields \ {entry.on} : Fades(page, b, g))
        /\ a.val[entry.on] = <<entry.value>> \/ (a.val[entry.on] = <<>> /\ entry.on \in Keyed /\ step.tool # "press")
        /\ b.val[entry.on] = <<entry.value>> /\ entry.on \notin b.soft
        /\ entry.on \in a.soft => step.tool = "press"
        /\ \A g \in Fields \ {entry.on} : a.val[g] = page.val[g] \/ step.tool = "press" \/ g \in Empties[entry.on]
        /\ \A g \in Fields \ {entry.on} : b.val[g] = page.val[g] \/ step.tool = "press" \/ g \in Empties[entry.on]
    BY <2>1, <1>0, <1>2, RefillFades
  <2> HIDE DEF a, b
  <2>3. Stays(page, page') /\ (\A g \in Fields \ {entry.on} : Fades(page, page', g) /\ (page'.val[g] = page.val[g] \/ step.tool = "press" \/ g \in Empties[entry.on]))
    BY <2>2, <1>12
  <2>4. Again' = Again
    BY <2>3, <1>9 DEF Stays
  <2>5. CASE f = entry.on
    <3>1. Will(f, v)
      BY <2>5, <1>12 DEF Held
    <3>2. entry.value = v
      BY <2>5, <3>1, <1>7, <1>8
    <3>3. CASE page' = b
      BY <2>2, <2>5, <3>2, <3>3 DEF Held, Kept
    <3>4. CASE page' = a /\ UNCHANGED check
      <4>1. CASE a.val[f] = <<v>>
        BY <2>2, <2>5, <3>4, <4>1, <1>1 DEF Held, Kept
      <4>2. CASE a.val[f] = <<>>
        <5>1. Ahead(f, v)'
          BY <2>5, <3>2, <3>4, <1>2 DEF Ahead, entry
        <5> QED BY <3>4, <4>2, <5>1, <1>1 DEF Will, Kept
      <4> QED BY <2>2, <2>5, <3>2, <4>1, <4>2
    <3> QED BY <3>3, <3>4, <1>12
  <2>6. CASE f # entry.on
    <3>1. Fades(page, page', f) /\ (page'.val[f] = page.val[f] \/ step.tool = "press" \/ f \in Empties[entry.on])
      BY <2>3, <2>6
    <3>2. CASE Held(f, v)
      <4>1. page.val[f] = <<v>> /\ page.val[f] # <<>> /\ (f \in page.soft => step.tool = "press")
        BY <3>2 DEF Held
      <4>2. CASE page'.val[f] = <<v>>
        BY <4>1, <4>2, <3>1, <1>1 DEF Held, Kept, Fades
      <4>3. CASE page'.val[f] = <<>>
        <5>1. CASE \A j \in check.i + 1..Len(check.fills) : check.fills[j].on = f => page.val[f] # <<check.fills[j].value>>
          <6>1. f \in Empties[entry.on] \/ step.tool = "press"
            BY <4>1, <4>3, <3>1
          <6>2. f \in Swept(page')
            BY <4>1, <4>3, <5>1, <6>1 DEF Swept
          <6> QED BY <6>2, <1>12 DEF Kept
        <5>2. CASE \E j \in check.i + 1..Len(check.fills) : check.fills[j].on = f /\ page.val[f] = <<check.fills[j].value>>
          <6>1. PICK j \in check.i + 1..Len(check.fills) : check.fills[j].on = f /\ page.val[f] = <<check.fills[j].value>>
            BY <5>2
          <6>2. j \in DOMAIN check.fills /\ check.fills[j].value = v /\ j >= check.i + 1 /\ j >= check.i
            BY <4>1, <6>1, <1>2
          <6>3. check'.i \in {check.i, check.i + 1}
            BY <1>2, <1>12 DEF NextEntry
          <6>4. Ahead(f, v)'
            BY <6>1, <6>2, <6>3, <1>3 DEF Ahead
          <6> QED BY <4>3, <6>4, <1>1 DEF Will, Kept
        <5> QED BY <5>1, <5>2
      <4> QED BY <4>1, <4>2, <4>3, <3>1 DEF Fades
    <3>3. CASE Will(f, v)
      <4>1. page'.val[f] = <<>>
        BY <3>1, <3>3, <1>7 DEF Fades
      <4>2. Ahead(f, v) => Ahead(f, v)'
        <5>1. CASE UNCHANGED check
          BY <5>1 DEF Ahead
        <5>2. CASE NextEntry
          BY <2>6, <5>2, <1>0, <1>1, AheadIs
        <5> QED BY <5>1, <5>2, <1>12
      <4>3. Again /\ In(check.fills, f, v) => (Again /\ In(check.fills, f, v))'
        BY <1>3, <2>4 DEF In
      <4> QED BY <3>3, <4>1, <4>2, <4>3, <1>1, <1>7 DEF Will, Kept
    <3> QED BY <3>2, <3>3, <1>12
  <2> QED BY <2>5, <2>6
<1> HIDE DEF a, b
<1>13. Held(f, v) \/ Will(f, v) \/ f \in gone \/ Seen(rec, n).val[f] = <<>> \/ Excused(f, v)
  BY DEF Kept
<1>14. CASE Look
  BY <1>5, <1>6, <1>10, <1>11, <1>13, <1>14 DEF Look
<1>15. CASE SetAgain
  <2>1. page.val[entry.on] = <<>>
    BY <1>15 DEF SetAgain, PageInv
  <2> QED BY <2>1, <1>5, <1>6, <1>10, <1>12, <1>13, <1>15 DEF SetAgain, a
<1>16. CASE Confirm
  <2>1. CASE page' = page /\ page.val[entry.on] # <<>>
    BY <2>1, <1>5, <1>6, <1>11, <1>13, <1>16 DEF Confirm
  <2>2. CASE page.val[entry.on] = <<>> /\ page' = b /\ gone' = gone \cup Swept(page')
    BY <2>2, <1>5, <1>6, <1>12, <1>13, <1>16 DEF Confirm
  <2>3. CASE entry.on \notin page.built /\ page' = page /\ unseen' = unseen \cup {entry.on}
    BY <2>3, <1>5, <1>6, <1>10, <1>13, <1>16 DEF Confirm
  <2> QED BY <2>1, <2>2, <2>3, <1>16 DEF Confirm, b
<1> QED BY <1>14, <1>15, <1>16

LEMMA KeptEndCheck ==
    ASSUME FillsTypeInv, LedgerInv, UnseenInv, EndCheck, NEW f \in Fields, NEW v \in Values, Kept(f, v)
    PROVE  Kept(f, v)'
<1>0. page \in Page /\ LedgerType /\ CheckType /\ PlaceType
  BY DEF FillsTypeInv
<1>1. /\ rec' = rec /\ n' = n /\ step' = step /\ Final' = Final /\ fills' = fills /\ Checking /\ phase = "look" /\ check.i > Len(check.fills)
      /\ gone' = gone /\ fills = <<>>
  BY DEF EndCheck, step, Final, Checking, LedgerInv
<1>2. /\ check.fills \in Seq(Fill) /\ Len(check.fills) \in Nat /\ DOMAIN check.fills = 1..Len(check.fills)
      /\ check \in [fills : Seq(Fill), doc : 1..MaxReloads + 1, pass : 1..2, i : Nat \ {0}]
  BY <1>0, <1>1 DEF CheckType
<1>3. ~Ahead(f, v)
  BY <1>1, <1>2 DEF Ahead
<1>4. CASE Again
  <2>1. check' = [check EXCEPT !.doc = page.doc, !.pass = 2, !.i = 1] /\ page' = blurFirst(page) /\ unseen' = {} /\ phase' = "look" /\ check.pass = 1
    BY <1>4 DEF EndCheck, Again
  <2>2. check'.fills = check.fills /\ check'.i = 1 /\ Checking'
    BY <2>1, <1>2 DEF Checking
  <2>3. In(check.fills, f, v) => Ahead(f, v)'
    BY <2>2, <1>2 DEF In, Ahead
  <2>4. /\ \A g \in Fields : Fades(page, blurFirst(page), g)
        /\ \A g \in Fields : g \notin page.soft => blurFirst(page).val[g] = page.val[g]
        /\ step.tool = "press" => blurFirst(page) = page
    BY <1>0, BlurFirstFades
  <2>5. CASE f \in gone \/ Seen(rec, n).val[f] = <<>>
    BY <2>5, <1>1 DEF Kept
  <2>6. CASE Held(f, v)
    BY <2>1, <2>4, <2>6, <1>1 DEF Held, Kept, Fades
  <2>7. CASE Will(f, v)
    BY <2>1, <2>2, <2>3, <2>4, <2>7, <1>1, <1>3 DEF Will, Kept, Fades, Late
  <2>8. CASE Excused(f, v)
    <3>1. page.val[f] = <<>> /\ In(check.fills, f, v)
      BY <2>1, <2>8, <1>1 DEF UnseenInv, Excused, Only, In
    <3> QED BY <3>1, <2>1, <2>2, <2>3, <2>4 DEF Will, Kept, Fades
  <2> QED BY <2>5, <2>6, <2>7, <2>8 DEF Kept
<1>5. CASE ~Again
  <2>1. submitted' = [fills |-> check.fills, doc |-> page.doc] /\ phase' = "act" /\ UNCHANGED <<check, page, unseen>>
    BY <1>5 DEF EndCheck
  <2>2. CASE f \in gone \/ Seen(rec, n).val[f] = <<>>
    BY <2>2, <1>1 DEF Kept
  <2>3. CASE Held(f, v)
    BY <2>1, <2>3, <1>1 DEF Held, Kept
  <2>4. CASE Will(f, v)
    BY <2>4, <1>1, <1>3, <1>5 DEF Will, Late
  <2>5. CASE Excused(f, v)
    BY <2>1, <2>5, <1>1 DEF Excused, Kept, Out, Only, Checking
  <2> QED BY <2>2, <2>3, <2>4, <2>5 DEF Kept
<1> QED BY <1>4, <1>5

\* TextAfter its last entry no step enters a field again.
LEMMA WantedNot ==
    ASSUME PlaceType, NEW f, NEW v, NEW i \in 1..n - 1, Wanted(rec, i, f, v)
    PROVE  ~Enters(step, f)
<1>1. n \in 1..Len(rec) /\ Len(rec) \in Nat
  BY StepIs
<1>2. n \in i + 1..Len(rec)
  BY <1>1
<1> QED BY <1>2 DEF Wanted, Last, step

\* What the step empties, it emptied in the recording.
LEMMA EmptiedThen ==
    ASSUME PlaceType, NEW f \in Fields, ~Enters(step, f), Writes(step), f \in Empties[step.on]
    PROVE  Seen(rec, n).val[f] = <<>>
<1>1. step \in Step /\ Given(step)
  BY StepIs
<1>2. Seen(rec, n) = Gesture(Seen(rec, n - 1), step) /\ Seen(rec, n - 1) \in Page
  BY RecordedIs DEF Recorded
<1>3. step.on # f
  BY DEF Writes, Enters
<1> QED BY <1>1, <1>2, <1>3, GestureFades

LEMMA HeldPerform ==
    ASSUME FillsTypeInv, Perform, NEW f \in Fields, NEW v \in Values, ~Enters(step, f), Held(f, v)
    PROVE  Held(f, v)' \/ f \in gone' \/ Seen(rec, n).val[f] = <<>>
<1>0. page \in Page /\ PlaceType
  BY DEF FillsTypeInv
<1>1. phase = "act" /\ page.val[f] = <<v>>
  BY DEF Perform, Held
<1>2. /\ Fades(page, page', f) /\ page' \in Page
      /\ f \notin page.soft => page'.val[f] = page.val[f] \/ (page'.val[f] = <<>> /\ Writes(step) /\ f \in Empties[step.on])
  BY PerformIs DEF Stays
<1>3. CASE f \notin page.soft
  <2>1. CASE page'.val[f] = page.val[f]
    BY <1>1, <1>2, <1>3, <2>1 DEF Held, Fades
  <2>2. CASE Writes(step) /\ f \in Empties[step.on]
    BY <2>2, <1>0, EmptiedThen
  <2> QED BY <1>2, <1>3, <2>1, <2>2
<1>4. CASE f \in page.soft
  <2>1. step.tool = "press"
    BY <1>4 DEF Held
  <2>2. FormOf(page')[f] = <<>>
    <3>1. FormOf(page')[f] = Onto(page', f)
      BY <1>2, FormIs
    <3> QED BY <3>1, <1>2, <1>4 DEF Onto, Fades
  <2>3. page.val[f] # FormOf(page')[f]
    BY <1>1, <2>2
  <2>4. gone' = gone \cup {g \in Fields : step.tool = "press" /\ page.val[g] # FormOf(page')[g]}
    BY <2>1 DEF Perform
  <2> QED BY <2>1, <2>3, <2>4
<1> QED BY <1>3, <1>4

LEMMA KeptPerform ==
    ASSUME FillsTypeInv, Perform, NEW f \in Fields, NEW v \in Values, ~Enters(step, f), Kept(f, v)
    PROVE  Kept(f, v)'
<1>0. page \in Page /\ PlaceType
  BY DEF FillsTypeInv
<1>1. /\ rec' = rec /\ n' = n /\ step' = step /\ Final' = Final /\ fills' = fills /\ submitted' = submitted /\ unseen' = unseen
      /\ phase = "act" /\ phase' = "judge" /\ ~Checking /\ ~Checking' /\ ~Late /\ (TakenAlong' => TakenAlong)
  BY DEF Perform, step, Final, ledger, Checking, Late, TakenAlong
<1>2. Fades(page, page', f) /\ page'.doc = page.doc
  BY PerformIs DEF Stays
<1>3. gone \ {step.on} \subseteq gone' /\ (step.tool \in Submits \cup Retires => gone \subseteq gone')
  BY DEF Perform, Submits, Retires
<1>4. CASE f \in gone
  <2>1. step.tool \in {"fill", "type"} \/ step.tool \in Submits \cup Retires
    BY <1>0, StepParts DEF Submits, Retires
  <2> QED BY <1>3, <1>4, <2>1 DEF Kept, Enters
<1>5. CASE Seen(rec, n).val[f] = <<>>
  BY <1>1, <1>5 DEF Kept
<1>6. CASE Held(f, v)
  BY <1>1, <1>6, HeldPerform DEF Kept
<1>7. CASE Will(f, v)
  BY <1>7, <1>1, <1>2 DEF Will, Kept, Fades
<1>8. CASE Excused(f, v)
  BY <1>8, <1>1 DEF Excused, Kept
<1> QED BY <1>4, <1>5, <1>6, <1>7, <1>8 DEF Kept

\* A step ahead: what the recording lost the next step finds lost.
LEMMA SeenOn ==
    ASSUME PlaceType, n + 1 \in DOMAIN rec, NEW f \in Fields, ~Enters(rec[n + 1], f), Seen(rec, n).val[f] = <<>>
    PROVE  Seen(rec, n + 1).val[f] = <<>>
<1>1. /\ rec \in Seq(Step) /\ n \in 1..Len(rec) /\ Len(rec) \in Nat /\ DOMAIN rec = 1..Len(rec)
      /\ \A k \in DOMAIN rec : Given(rec[k]) /\ rec[k].seen = Gesture(Seen(rec, k - 1), rec[k])
  BY StepIs, RecordingsAssumption DEF PlaceType
<1>2. n + 1 # 0 /\ n + 1 - 1 = n /\ rec[n + 1] \in Step
  BY <1>1
<1>3. Seen(rec, n + 1) = rec[n + 1].seen
  BY <1>2 DEF Seen
<1>4. rec[n + 1].seen = Gesture(Seen(rec, n + 1 - 1), rec[n + 1]) /\ Given(rec[n + 1])
  BY <1>1
<1>5. Seen(rec, n + 1) = Gesture(Seen(rec, n), rec[n + 1])
  BY <1>2, <1>3, <1>4
<1>6. Seen(rec, n) \in Page
  BY <1>1, RecordedIs DEF Recorded
<1>7. Fades(Seen(rec, n), Seen(rec, n + 1), f)
  BY <1>2, <1>4, <1>5, <1>6, GestureFades
<1> QED BY <1>7 DEF Fades

\* On to the next step, with the page as it is.
LEMMA KeptOnward ==
    ASSUME FillsTypeInv, PageInv, rec' = rec, page' = page, gone' = gone, unseen' = unseen, phase \in {"judge", "note"},
           ~Final, n' = n + 1, phase' = "step", NEW f \in Fields, NEW v \in Values,
           NEW i \in 1..n - 1, Wanted(rec, i, f, v), Kept(f, v),
           In(fills, f, v) => In(fills', f, v), Out(fills, f) => Out(fills', f)
    PROVE  Kept(f, v)'
<1>0. PlaceType /\ n + 1 \in DOMAIN rec /\ n + 1 \in i + 1..Len(rec)
  <2>1. PlaceType
    BY DEF FillsTypeInv
  <2>2. n \in 1..Len(rec) /\ Len(rec) \in Nat /\ n # Len(rec)
    BY <2>1, StepIs DEF Final
  <2>3. DOMAIN rec = 1..Len(rec)
    BY <2>1, StepIs
  <2>4. n + 1 \in 1..Len(rec)
    BY <2>2, NextNumber
  <2>5. n \in Nat /\ Len(rec) \in Nat
    BY <2>2
  <2>6. i \in Nat /\ i < n /\ n \in Nat /\ Len(rec) \in Nat
    BY <2>5
  <2>7. n + 1 \in i + 1..Len(rec)
    BY <2>4, <2>6
  <2> QED BY <2>1, <2>3, <2>4, <2>7
<1>1. ~Enters(rec[n + 1], f)
  BY <1>0 DEF Wanted, Last
<1>2. ~Checking /\ ~Checking' /\ ~Late /\ ~TakenAlong'
  BY DEF Checking, Late, TakenAlong
<1>3. CASE f \in gone
  BY <1>3 DEF Kept
<1>4. CASE Seen(rec, n).val[f] = <<>>
  BY <1>0, <1>1, <1>4, SeenOn DEF Kept
<1>5. CASE Held(f, v)
  BY <1>5 DEF Held, Kept
<1>6. CASE Will(f, v)
  BY <1>2, <1>6 DEF Will, Kept
<1>7. CASE Excused(f, v)
  BY <1>2, <1>7 DEF Excused, Kept
<1> QED BY <1>3, <1>4, <1>5, <1>6, <1>7 DEF Kept

LEMMA KeptJudge ==
    ASSUME FillsTypeInv, PageInv, KeptInv, Judge, Scope', NEW f \in Fields, NEW v \in Values, NEW i \in (1..n - 1)', Wanted(rec, i, f, v)
    PROVE  Kept(f, v)'
<1>0. PlaceType /\ n \in 1..Len(rec) /\ Len(rec) \in Nat /\ rec[n] = step /\ (Final <=> step.tool \in {"save", "press"})
  BY StepIs DEF FillsTypeInv, step
<1>1. /\ phase = "judge" /\ UNCHANGED <<page, rec, lands, fills, submitted, gone, unseen>> /\ ~Checking
      /\ phase' \notin {"done", "stopped", "torn"}
  BY DEF Judge, ledger, Scope, Checking
<1>2. CASE n' = n
  <2>1. phase' \in {"note", "step", "lost"} /\ (Final => phase' = "lost" /\ lands)
    <3>1. ~Onward
      BY <1>0, <1>1, <1>2 DEF Onward
    <3> QED BY <3>1, <1>0, <1>1 DEF Judge, Stop
  <2>2. Scope /\ i \in 1..n - 1 /\ Kept(f, v)
    <3>1. Scope
      BY <2>1, <1>1, <1>2 DEF Scope, Late
    <3> QED BY <3>1, <1>2 DEF KeptInv
  <2>3. Final' = Final /\ step' = step /\ ~Checking' /\ (Late => Late') /\ (TakenAlong' => TakenAlong)
    BY <1>1, <1>2, <2>1 DEF Final, step, Checking, Late, TakenAlong
  <2>4. CASE f \in gone \/ Seen(rec, n).val[f] = <<>>
    BY <1>1, <1>2, <2>4 DEF Kept
  <2>5. CASE Held(f, v)
    BY <1>1, <2>5 DEF Held, Kept
  <2>6. CASE Will(f, v)
    BY <1>1, <2>3, <2>6 DEF Will, Kept
  <2>7. CASE Excused(f, v)
    BY <1>1, <2>3, <2>7 DEF Excused, Kept
  <2> QED BY <2>2, <2>4, <2>5, <2>6, <2>7 DEF Kept
<1>3. CASE n' # n
  <2>1. Onward /\ step.tool # "fill"
    BY <1>3 DEF Judge, Stop
  <2>2. n' = n + 1 /\ phase' = "step" /\ ~Final /\ i \in 1..n
    BY <2>1, <1>0, <1>3 DEF Onward, Final
  <2>3. CASE i = n
    <3>1. Enters(step, f) /\ step.tool = "type" /\ step.on = f /\ Seen(rec, n).val[f] = <<v>>
      BY <2>1, <2>3, <1>0 DEF Wanted, Last, Enters
    <3>2. page.val[f] = Seen(rec, n).val[f]
      BY <3>1, <1>1, <2>2 DEF Judge, Stop, Recorded
    <3>3. f \notin page.soft
      BY <3>1, <1>1 DEF PageInv
    <3> QED BY <3>1, <3>2, <3>3, <1>1 DEF Held, Kept
  <2>4. CASE i # n
    <3>1. i \in 1..n - 1
      BY <2>2, <2>4, <1>0
    <3>2. Scope
      BY <2>2, <1>1 DEF Scope, Late
    <3>3. Kept(f, v)
      BY <3>1, <3>2 DEF KeptInv
    <3> QED BY <3>1, <3>3, <2>2, <1>1, KeptOnward
  <2> QED BY <2>3, <2>4
<1> QED BY <1>2, <1>3

LEMMA KeptNote ==
    ASSUME FillsTypeInv, PageInv, KeptInv, Note, Scope', NEW f \in Fields, NEW v \in Values, NEW i \in (1..n - 1)', Wanted(rec, i, f, v)
    PROVE  Kept(f, v)'
<1>0. PlaceType /\ LedgerType /\ n \in 1..Len(rec) /\ Len(rec) \in Nat /\ rec[n] = step /\ (Final <=> step.tool \in {"save", "press"})
  BY StepIs DEF FillsTypeInv, step
<1>1. /\ phase = "note" /\ UNCHANGED <<page, rec, lands, submitted, gone, unseen>> /\ ~Checking /\ step.tool = "fill"
  BY <1>0 DEF Note, history, Checking, PlaceType
<1>2. n' = n + 1 /\ phase' = "step" /\ ~Final /\ i \in 1..n
  BY <1>0, <1>1 DEF Note, Onward, Final
<1>3. step.on \in Fields /\ step.value \in Values \cup {Nil} /\ page.doc \in 1..MaxReloads + 1 /\ Nil \notin Values
  BY <1>0, <1>1, StepParts, FormAssumption DEF FillsTypeInv, Page
<1>4. step.value # Nil =>
        /\ fills' = Noted
        /\ \A k \in DOMAIN Noted : Noted[k].on # step.on => \E j \in DOMAIN fills : fills[j] = Noted[k]
        /\ \A k \in DOMAIN fills : fills[k].on # step.on => \E j \in DOMAIN Noted : Noted[j] = fills[k]
        /\ In(Noted, step.on, step.value)
  <2> SUFFICES ASSUME step.value # Nil
               PROVE  /\ fills' = Noted
                      /\ \A k \in DOMAIN Noted : Noted[k].on # step.on => \E j \in DOMAIN fills : fills[j] = Noted[k]
                      /\ \A k \in DOMAIN fills : fills[k].on # step.on => \E j \in DOMAIN Noted : Noted[j] = fills[k]
                      /\ In(Noted, step.on, step.value)
    OBVIOUS
  <2>1. fills' = Noted
    BY DEF Note, Noted
  <2>2. fills \in Seq(Fill) /\ Single(fills) /\ step.value \in Values
    BY <1>0, <1>3 DEF LedgerType
  <2>3. /\ \A k \in DOMAIN Noted : Noted[k].on # step.on => \E j \in DOMAIN fills : fills[j] = Noted[k]
        /\ \A k \in DOMAIN fills : fills[k].on # step.on => \E j \in DOMAIN Noted : Noted[j] = fills[k]
        /\ \E k \in DOMAIN Noted : Noted[k].on = step.on /\ Noted[k].value = step.value
    BY <2>2, <1>3, NotedIs
  <2> QED BY <2>1, <2>3 DEF In
<1>5. CASE i = n
  <2>1. step.on = f /\ step.value = v /\ f \notin Keyed /\ v # Nil
    BY <1>0, <1>1, <1>3, <1>5 DEF Wanted, Last, Enters, Rests
  <2>2. f \notin page.soft
    BY <2>1 DEF PageInv
  <2>3. page.val[f] = <<v>> \/ (page.val[f] = <<>> /\ page.doc > 1)
    BY <1>1, <2>1 DEF PageInv, TextOf
  <2>4. In(fills, f, v)'
    BY <2>1, <1>4 DEF In
  <2>5. CASE page.val[f] = <<v>>
    BY <2>2, <2>5, <1>1 DEF Held, Kept
  <2>6. CASE page.val[f] = <<>> /\ page.doc > 1
    BY <2>4, <2>6, <1>1, <1>2 DEF Will, Kept, Checking
  <2> QED BY <2>3, <2>5, <2>6
<1>6. CASE i # n
  <2>1. i \in 1..n - 1
    BY <1>0, <1>2, <1>6
  <2>2. Scope
    BY <1>1 DEF Scope, Late
  <2>3. Kept(f, v) /\ f # step.on
    BY <2>1, <2>2, <1>0, <1>1, WantedNot DEF KeptInv, Enters
  <2>4. (In(fills, f, v) => In(fills', f, v)) /\ (Out(fills, f) => Out(fills', f))
    <3>1. CASE step.value = Nil
      <4>1. fills' = fills
        BY <3>1 DEF Note
      <4> QED BY <4>1
    <3>2. CASE step.value # Nil
      BY <3>2, <2>3, <1>4 DEF In, Out
    <3> QED BY <3>1, <3>2
  <2> QED BY <2>1, <2>3, <2>4, <1>1, <1>2, KeptOnward
<1> QED BY <1>5, <1>6

LEMMA KeptLost ==
    ASSUME FillsTypeInv, LedgerInv, Lost, Scope', NEW f \in Fields, NEW v \in Values, Kept(f, v)
    PROVE  Kept(f, v)'
<1>1. /\ standingFillsLost /\ fills' = submitted.fills /\ phase = "lost" /\ phase' = "step" /\ Final /\ UNCHANGED <<page, rec, n, gone, unseen>>
  BY DEF Lost, Scope, FillsTypeInv, PlaceType
<1>2. Final' /\ Late /\ ~Checking /\ ~Checking' /\ TakenAlong /\ ~TakenAlong' /\ fills = <<>>
  <2>1. step.tool \in Submits
    BY <1>1, StepIs DEF FillsTypeInv, Submits
  <2> QED BY <2>1, <1>1 DEF Final, Late, Checking, TakenAlong, LedgerInv
<1>3. CASE f \in gone \/ Seen(rec, n).val[f] = <<>>
  BY <1>1, <1>3 DEF Kept
<1>4. CASE Held(f, v)
  BY <1>1, <1>4 DEF Held, Kept
<1>5. CASE Will(f, v)
  BY <1>1, <1>2, <1>5 DEF Will, Kept, In
<1>6. CASE Excused(f, v)
  <2>1. f \in unseen /\ Only(submitted.fills, f, v)
    BY <1>2, <1>6 DEF Excused
  <2>2. CASE Out(submitted.fills, f)
    BY <2>1, <2>2, <1>1, <1>2 DEF Excused, Kept, Out
  <2>3. CASE ~Out(submitted.fills, f)
    <3>1. In(submitted.fills, f, v) /\ f \in SentFields
      BY <2>1, <2>3 DEF Out, Only, In, SentFields
    <3>2. page.val[f] = <<>>
      BY <3>1, <1>1 DEF standingFillsLost
    <3>3. In(fills, f, v)'
      BY <3>1, <1>1 DEF In
    <3> QED BY <3>2, <3>3, <1>1, <1>2 DEF Will, Kept
  <2> QED BY <2>2, <2>3
<1> QED BY <1>3, <1>4, <1>5, <1>6 DEF Kept

LEMMA JoinIs ==
    ASSUME NEW s \in Seq(Fill), NEW t \in Seq(Fill), NEW f, NEW v, In(s \o t, f, v)
    PROVE  In(s, f, v) \/ In(t, f, v)
<1>1. PICK k \in DOMAIN (s \o t) : (s \o t)[k].on = f /\ (s \o t)[k].value = v
  BY DEF In
<1>2. k \in 1..Len(s) + Len(t) /\ Len(s) \in Nat /\ Len(t) \in Nat
  BY <1>1
<1>3. CASE k <= Len(s)
  <2>1. k \in DOMAIN s /\ (s \o t)[k] = s[k]
    BY <1>2, <1>3
  <2> QED BY <1>1, <2>1 DEF In
<1>4. CASE k > Len(s)
  <2>1. k - Len(s) \in 1..Len(t) /\ (s \o t)[k] = t[k - Len(s)]
    BY <1>2, <1>4
  <2>2. k - Len(s) \in DOMAIN t
    BY <2>1
  <2> QED BY <1>1, <2>1, <2>2 DEF In
<1> QED BY <1>2, <1>3, <1>4

\* A text that goes with its document is in a ledger, or is written off.
LEMMA KeptText ==
    ASSUME FillsTypeInv, NEW f \in Fields, NEW v \in Values, ~Enters(step, f), page.val[f] = <<v>>, f \notin Unkept
    PROVE  \/ In(fills, f, v) \/ (Checking /\ In(check.fills, f, v))
           \/ phase # "step" /\ step.tool \in {"save", "press"} /\ In(submitted.fills, f, v)
<1> DEFINE A == fills
           B == IF Checking THEN check.fills ELSE <<>>
           C == IF phase # "step" /\ step.tool \in {"save", "press"} THEN submitted.fills ELSE <<>>
<1>1. A \in Seq(Fill) /\ B \in Seq(Fill) /\ C \in Seq(Fill)
  BY DEF FillsTypeInv, LedgerType, CheckType
<1>2. Entries = A \o B \o C
  BY DEF Entries
<1>3. PICK k \in DOMAIN Entries : Entries[k].on = f /\ page.val[f] = <<Entries[k].value>>
  <2>1. ~Filling(f) /\ ~Typing(f)
    BY DEF Filling, Typing, Enters
  <2>2. page.val[f] # <<>>
    OBVIOUS
  <2> QED BY <2>1, <2>2 DEF Unkept
<1>4. In(Entries, f, v)
  BY <1>3 DEF In
<1> HIDE DEF A, B, C
<1>5. A \o B \in Seq(Fill)
  BY <1>1
<1>6. In(A, f, v) \/ In(B, f, v) \/ In(C, f, v)
  BY <1>1, <1>2, <1>4, <1>5, JoinIs
<1> QED BY <1>6 DEF A, B, C, In

LEMMA KeptBeside ==
    ASSUME FillsTypeInv, OnceInv, LedgerInv, KeptInv, Environment, Scope', NEW f \in Fields, NEW v \in Values,
           NEW i \in (1..n - 1)', Wanted(rec, i, f, v)
    PROVE  Kept(f, v)'
<1>0. page \in Page /\ LedgerType /\ CheckType /\ PlaceType /\ page.doc \in Nat /\ page.doc >= 1
  BY DEF FillsTypeInv, Page
<1>1. /\ UNCHANGED <<rec, lands, phase, n, fills, submitted, check>>
      /\ step' = step /\ Final' = Final /\ Checking' = Checking /\ TakenAlong' = TakenAlong /\ Late' = Late
  BY BesideIs DEF Late
<1>2. phase = "note" => ~Final
  BY <1>0, StepIs DEF PlaceType
<1>3. ~Land
  <2> SUFFICES ASSUME Land PROVE FALSE
    OBVIOUS
  <2>1. ~lands /\ phase \notin {"done", "stopped", "torn"} /\ ~Late
    BY <1>0, <1>1, LandedIs DEF Scope, PlaceType
  <2>2. net # NoForm
    BY DEF Land, NoForm
  <2>3. Final /\ ~(Early /\ n \notin repeated) /\ n \notin repeated
    BY <2>1, <2>2 DEF OnceInv
  <2> QED BY <2>1, <2>3, <1>0, <1>2 DEF PlaceType, Early, Late
<1>4. Scope /\ Kept(f, v) /\ ~Enters(step, f)
  <2>1. page.at = "form"
    BY <1>3, BesideIs DEF Scope, Reload
  <2>2. Scope /\ i \in 1..n - 1
    BY <2>1, <1>1 DEF Scope
  <2> QED BY <2>2, <1>0, WantedNot DEF KeptInv
<1>5. CASE page'.val = page.val /\ page'.soft = page.soft /\ page'.doc = page.doc /\ UNCHANGED <<gone, unseen>>
  BY <1>1, <1>4, <1>5 DEF Kept, Held, Will, Excused, Ahead, In, Only, Out, Again
<1>6. CASE f \in gone \/ Seen(rec, n).val[f] = <<>>
  BY <1>1, <1>6 DEF Kept, Environment, Reload, Build, Arrive, Reset, Land, history
<1>7. ASSUME Final \/ page'.doc > 1, page'.val[f] = <<>>, In(fills, f, v) PROVE Kept(f, v)'
  <2>1. ~Checking
    BY <1>7 DEF LedgerInv, In
  <2> QED BY <2>1, <1>1, <1>7 DEF Will, Kept, In
<1>8. ASSUME page'.val[f] = <<>>, phase \in {"judge", "lost"}, Final, In(submitted.fills, f, v) PROVE Kept(f, v)'
  BY <1>1, <1>8 DEF Will, Kept, Late, In
<1>9. CASE Reload
  <2>1. page'.doc = page.doc + 1 /\ page'.val[f] = <<>>
    <3>1. page' = Document(page.doc + 1, {}, posts # <<>>)
      BY <1>9 DEF Reload
    <3> QED BY <3>1, DocumentIs
  <2>2. /\ gone' = gone \cup Unkept /\ unseen \subseteq unseen'
        /\ phase = "act" \/ (Checking /\ check.pass = 2) => {g \in Fields : page.val[g] # <<>>} \subseteq unseen'
    BY <1>9 DEF Reload
  <2>3. Checking /\ check.pass = 1 => Again'
    <3>1. Checking => check.doc \in Nat /\ check.doc <= page.doc
      BY <1>0, FormAssumption DEF CheckType, LedgerInv
    <3> QED BY <3>1, <2>1, <1>0, <1>1 DEF Again
  <2>4. CASE Held(f, v) /\ f \in Unkept
    BY <2>2, <2>4 DEF Kept
  <2>5. CASE Held(f, v) /\ f \notin Unkept
    <3>1. page.val[f] = <<v>> /\ page.val[f] # <<>>
      BY <2>5 DEF Held
    <3>2. CASE In(fills, f, v)
      BY <3>2, <2>1, <1>0, <1>7
    <3>3. CASE Checking /\ In(check.fills, f, v)
      <4>1. CASE check.pass = 1
        BY <3>3, <4>1, <2>1, <2>3, <1>1 DEF Will, Kept, In
      <4>2. CASE check.pass = 2
        <5>1. f \in unseen'
          BY <3>1, <3>3, <4>2, <2>2
        <5>2. Only(check.fills, f, v) /\ Out(fills, f) /\ ~TakenAlong
          BY <3>3, <1>0 DEF CheckType, Single, Only, In, LedgerInv, Out, TakenAlong, Checking
        <5> QED BY <5>1, <5>2, <1>1 DEF Excused, Kept, Only, Out
      <4>3. check.pass \in 1..2
        BY <3>3, <1>0 DEF CheckType
      <4> QED BY <4>1, <4>2, <4>3
    <3>4. CASE phase # "step" /\ step.tool \in {"save", "press"} /\ In(submitted.fills, f, v)
      <4>1. ~Checking /\ Final
        <5>1. Nothing.fills = <<>>
          BY DEF Nothing
        <5> QED BY <5>1, <3>4, <1>0, StepIs DEF LedgerInv, In
      <4>2. phase \in {"act", "judge", "lost"}
        BY <3>4, <4>1, <1>0, <1>2, <1>4 DEF Scope, PlaceType, Checking
      <4>3. CASE phase = "act"
        <5>1. f \in unseen'
          BY <3>1, <4>3, <2>2
        <5>2. Only(submitted.fills, f, v) /\ Out(fills, f)
          BY <3>4, <4>3, <1>0 DEF LedgerType, Single, Only, In, LedgerInv, Out, Submits
        <5> QED BY <5>1, <5>2, <4>1, <1>1 DEF Excused, Kept, Only, Out
      <4> QED BY <4>1, <4>2, <4>3, <3>4, <2>1, <1>8
    <3> QED BY <2>5, <3>1, <3>2, <3>3, <3>4, <1>4, KeptText
  <2>6. CASE Will(f, v)
    <3>1. CASE Checking /\ Ahead(f, v)
      BY <3>1, <2>1, <1>1 DEF Will, Kept, Ahead
    <3>2. CASE Checking /\ Again /\ In(check.fills, f, v)
      <4>1. Again'
        BY <3>2, <2>3 DEF Again
      <4> QED BY <3>2, <4>1, <2>1, <1>1 DEF Will, Kept, In
    <3>3. CASE In(fills, f, v)
      BY <3>3, <2>1, <1>0, <1>7
    <3>4. CASE Late /\ In(submitted.fills, f, v)
      BY <3>4, <2>1, <1>1 DEF Will, Kept, In
    <3> QED BY <2>6, <3>1, <3>2, <3>3, <3>4 DEF Will
  <2>7. CASE Excused(f, v)
    BY <2>2, <2>7, <1>1 DEF Excused, Kept, Only, Out
  <2> QED BY <2>4, <2>5, <2>6, <2>7, <1>4, <1>6 DEF Kept
<1>10. CASE Reset
  <2>1. page'.doc = page.doc /\ page'.val[f] = <<>> /\ unseen' = unseen
    <3>1. page' = [page EXCEPT !.val = [g \in Fields |-> <<>>], !.soft = {}] /\ unseen' = unseen
      BY <1>10 DEF Reset
    <3> QED BY <3>1, <1>0, EmptiedIs
  <2>2. gone' = gone \cup IF Checking \/ phase = "act" THEN {g \in Fields : page.val[g] # <<>>} ELSE Unkept
    BY <1>10 DEF Reset
  <2>3. Final
    <3>1. net # NoForm
      BY <1>10 DEF Reset, NoForm
    <3> QED BY <3>1 DEF OnceInv
  <2>4. CASE Held(f, v) /\ (Checking \/ phase = "act" \/ f \in Unkept)
    BY <2>2, <2>4 DEF Held, Kept
  <2>5. CASE Held(f, v) /\ ~(Checking \/ phase = "act" \/ f \in Unkept)
    <3>1. page.val[f] = <<v>>
      BY <2>5 DEF Held
    <3>2. phase \in {"step", "judge", "lost"}
      BY <2>3, <2>5, <1>0, <1>2, <1>4 DEF Scope, PlaceType, Checking
    <3> QED BY <2>1, <2>3, <2>5, <3>1, <3>2, <1>4, <1>7, <1>8, KeptText
  <2>6. CASE Will(f, v)
    BY <2>1, <2>6, <1>1 DEF Will, Kept, Ahead, In, Again
  <2>7. CASE Excused(f, v)
    BY <2>1, <2>7, <1>1 DEF Excused, Kept, Only, Out
  <2> QED BY <2>4, <2>5, <2>6, <2>7, <1>4, <1>6 DEF Kept
<1>11. CASE (\E g \in Fields : Build(g)) \/ Arrive
  <2>1. page'.val = page.val /\ page'.soft = page.soft /\ page'.doc = page.doc
    <3>1. CASE Arrive
      BY <3>1 DEF Arrive
    <3>2. CASE \E g \in Fields : Build(g)
      <4>1. PICK g \in Fields : Build(g)
        BY <3>2
      <4>2. page' = [page EXCEPT !.built = @ \cup {g}]
        BY <4>1 DEF Build
      <4> QED BY <4>2, <1>0, BuildIs
    <3> QED BY <3>1, <3>2, <1>11
  <2>2. UNCHANGED <<gone, unseen>>
    BY <1>11 DEF Arrive, Build, history
  <2> QED BY <2>1, <2>2, <1>5
<1> QED BY <1>3, <1>9, <1>10, <1>11 DEF Environment

LEMMA KeptStep ==
    ASSUME FillsTypeInv, OnceInv, LedgerInv, PageInv, UnseenInv, KeptInv, [FillsNext]_fillsVars
    PROVE  KeptInv'
<1> SUFFICES ASSUME Scope', NEW f \in Fields, NEW v \in Values, NEW i \in (1..n - 1)', Wanted(rec', i, f, v) PROVE Kept(f, v)'
  BY DEF KeptInv
<1>0. rec' = rec /\ Wanted(rec, i, f, v) /\ PlaceType
  <2>1. rec' = rec /\ PlaceType
    BY PlaceStep DEF FillsTypeInv
  <2> QED BY <2>1
<1>1. ASSUME n' = n, Scope PROVE Kept(f, v) /\ ~Enters(step, f)
  BY <1>0, <1>1, WantedNot DEF KeptInv
<1>2. CASE Restore
  <2>1. n' = n /\ Scope
    BY <1>2, BlurFirstFades DEF Restore, Scope, Late, FillsTypeInv, Stays
  <2> QED BY <2>1, <1>1, <1>2, KeptRestore
<1>3. CASE Look \/ SetAgain \/ Confirm
  <2>1. n' = n /\ phase \in {"look", "set", "confirm"} /\ page' \in {page, blurFirst(reactSafeFill(page, entry.on, entry.value)), blurFirst(typeInto(page, entry.on, entry.value))}
    BY <1>3 DEF Look, SetAgain, Confirm
  <2>2. page.at = "form"
    <3>1. check.i <= Len(check.fills) /\ Checking
      BY <1>3, <2>1 DEF FillsTypeInv, CheckType, Look, SetAgain, Confirm, Checking
    <3>2. entry.on \in Fields /\ entry.value \in Values
      BY <3>1, EntryIs DEF FillsTypeInv
    <3>3. page \in Page
      BY DEF FillsTypeInv
    <3>4. /\ blurFirst(reactSafeFill(page, entry.on, entry.value)).at = page.at
          /\ blurFirst(typeInto(page, entry.on, entry.value)).at = page.at
      BY <3>2, <3>3, RefillIs
    <3>5. page'.at = page.at
      BY <2>1, <3>4
    <3> QED BY <3>5 DEF Scope
  <2>3. Scope
    BY <2>1, <2>2 DEF Scope, Late
  <2> QED BY <2>1, <2>3, <1>1, <1>3, KeptEntry
<1>4. CASE EndCheck
  <2>1. n' = n /\ Scope
    BY <1>4, BlurFirstFades DEF EndCheck, Scope, Late, FillsTypeInv, Stays
  <2> QED BY <2>1, <1>1, <1>4, KeptEndCheck
<1>5. CASE Perform
  <2>1. n' = n /\ Scope
    BY <1>5 DEF Perform, Reachable, Scope, Late
  <2> QED BY <2>1, <1>1, <1>5, KeptPerform
<1>6. CASE Thrown \/ NoTarget
  BY <1>6 DEF Thrown, NoTarget, Scope
<1>7. CASE Judge
  BY <1>0, <1>7, KeptJudge
<1>8. CASE Note
  BY <1>0, <1>8, KeptNote
<1>9. CASE Lost
  <2>1. n' = n /\ Scope
    BY <1>9 DEF Lost, Scope, Late, FillsTypeInv, PlaceType
  <2> QED BY <2>1, <1>1, <1>9, KeptLost
<1>10. CASE Environment
  BY <1>0, <1>10, KeptBeside
<1>11. CASE UNCHANGED fillsVars
  <2>1. UNCHANGED <<page, rec, lands, phase, n, fills, submitted, check, gone, unseen>>
    BY <1>11 DEF fillsVars, ledger, history
  <2>2. Scope /\ Checking' = Checking /\ TakenAlong' = TakenAlong /\ Late' = Late /\ Final' = Final /\ step' = step
    BY <2>1 DEF Scope, Late, Final, step, Checking, TakenAlong
  <2>3. Kept(f, v)
    BY <2>1, <2>2, <1>1
  <2> QED BY <2>1, <2>2, <2>3 DEF Kept, Held, Will, Excused, Ahead, In, Only, Out, Again
<1> QED BY <1>2, <1>3, <1>4, <1>5, <1>6, <1>7, <1>8, <1>9, <1>10, <1>11 DEF FillsNext, Replay

----------------------------------------------------------------------------
(* SentWhole: the form on its way                                          *)

\* A form on its way holds what the recording sent, as far as the replay
\* could keep it.
NetInv == net.at # "none" => \A f \in Fields \ net.excused : Sure(f) => net.form[f] = Sent(rec)[f]

LEMMA NetPerform ==
    ASSUME FillsTypeInv, LedgerInv, RecordInv, EmptyInv, KeptInv, Perform, step.tool \in {"save", "press"},
           NEW f \in Fields, f \notin gone' \cup unseen, Sure(f)
    PROVE  FormOf(page')[f] = Sent(rec)[f]
<1>0. page \in Page /\ PlaceType
  BY DEF FillsTypeInv
<1>1. n = Len(rec) /\ n \in Nat \ {0} /\ DOMAIN rec = 1..n /\ rec[n] = step /\ step.tool \in Submits /\ step.tool \notin {"fill", "type"}
  <2>1. Len(rec) \in Nat \ {0} /\ (Final <=> step.tool \in {"save", "press"}) /\ rec \in Seq(Step)
    BY <1>0, StepIs
  <2>2. n = Len(rec)
    BY <2>1 DEF Final
  <2>3. DOMAIN rec = 1..Len(rec)
    BY <2>1
  <2> QED BY <2>1, <2>2, <2>3 DEF Submits, step
<1>2. ~Enters(step, f)
  BY <1>1 DEF Enters
<1>3. Fades(page, page', f) /\ page' \in Page
  BY <1>2, PerformIs DEF Stays
<1>4. FormOf(page')[f] = Onto(page', f)
  BY <1>3, FormIs
<1>5. Sent(rec)[f] = Onto(Seen(rec, n), f)
  <2>1. Seen(rec, n) \in Page
    BY <1>0, <1>1, RecordedIs DEF Recorded
  <2>2. Sent(rec) = FormOf(Seen(rec, n))
    BY <1>1 DEF Sent
  <2> QED BY <2>1, <2>2, FormIs
<1>6. RecordAt(rec, n)
  BY <1>0, RecordOn DEF RecordInv
<1>7. ASSUME Bare(rec, f, n - 1) PROVE FormOf(page')[f] = <<>>
  <2>1. page.val[f] = <<>>
    BY <1>7 DEF EmptyInv
  <2> QED BY <2>1, <1>3, <1>4 DEF Fades, Onto
<1>8. CASE \A i \in DOMAIN rec : ~Enters(rec[i], f)
  <2>1. Never(rec, f)
    BY <1>8 DEF Never
  <2>2. Onto(Seen(rec, n), f) = <<>>
    BY <2>1, <1>6 DEF RecordAt, Onto
  <2> QED BY <2>1, <2>2, <1>5, <1>7 DEF Bare
<1>9. ASSUME NEW i \in DOMAIN rec, Enters(rec[i], f), \A j \in i + 1..Len(rec) : ~Enters(rec[j], f),
             Sent(rec)[f] = TextOf(rec[i].value),
             rec[i].value = Nil =>
                \A j \in 1..i - 1 : rec[j].tool = "fill" /\ rec[j].on = f /\ rec[j].value # Nil =>
                    \E k \in j + 1..i - 1 : rec[k].tool \in Submits \cup Retires
      PROVE  FormOf(page')[f] = Sent(rec)[f]
  <2>1. Last(rec, i, f)
    BY <1>9 DEF Last
  <2>2. i \in 1..n /\ i # n
    BY <1>1, <1>2, <1>9
  <2>3. i \in 1..n - 1
    BY <2>2, <1>1
  <2>4. CASE rec[i].value = Nil
    <3>1. ClearedAt(rec, i, f)
      BY <2>1, <2>4, <1>9 DEF ClearedAt
    <3>2. Bare(rec, f, n - 1)
      BY <2>3, <3>1 DEF Bare
    <3> QED BY <3>2, <2>4, <1>7, <1>9 DEF TextOf
  <2>5. CASE rec[i].value # Nil
    <3>1. rec[i] \in Step
      BY <1>0, RecordedIs
    <3>0. rec[i].value \in Values /\ Sent(rec)[f] = <<rec[i].value>>
      BY <3>1, <2>5, <1>9 DEF Step, TextOf
    <3>2. PICK v \in Values : v = rec[i].value /\ Sent(rec)[f] = <<v>>
      BY <3>0
    <3>3. Seen(rec, n).val[f] = <<v>> /\ f \notin Seen(rec, n).soft
      <4>1. <<v>> # <<>> /\ Onto(Seen(rec, n), f) = <<v>>
        BY <3>2, <1>5
      <4> QED BY <4>1 DEF Onto
    <3>4. Shows(rec, i, f, n)
      BY <2>1, <2>2, <1>6 DEF RecordAt
    <3>5. ~Rests(rec[i])
      BY <2>5, <3>3, <3>4 DEF Shows
    <3>6. Seen(rec, i).val[f] = <<v>>
      BY <3>3, <3>4, <3>5 DEF Shows
    <3>7. Wanted(rec, i, f, v)
      BY <2>1, <3>2, <3>5, <3>6 DEF Wanted
    <3>8. phase = "act" /\ page.at = "form" /\ unseen' = unseen /\ phase' = "judge" /\ gone \subseteq gone'
      BY <1>1 DEF Perform, Reachable
    <3>9. Kept(f, v)
      BY <2>3, <3>2, <3>7, <3>8 DEF KeptInv, Scope, Late
    <3>10. ~Will(f, v)
      BY <3>8, <1>1 DEF Will, Checking, Late, In, LedgerInv
    <3>11. Held(f, v)
      BY <3>3, <3>8, <3>9, <3>10 DEF Kept, Excused
    <3>12. Held(f, v)'
      BY <3>2, <3>3, <3>11, <1>2, HeldPerform
    <3>13. page'.val[f] = <<v>> /\ f \notin page'.soft
      BY <3>8, <3>12 DEF Held
    <3>14. FormOf(page')[f] = <<v>>
      BY <3>13, <1>4 DEF Onto
    <3> QED BY <3>2, <3>14
  <2> QED BY <2>4, <2>5
<1> QED BY <1>8, <1>9 DEF Sure

LEMMA NetStep ==
    ASSUME FillsTypeInv, LedgerInv, RecordInv, EmptyInv, KeptInv, NetInv, SentWhole, [FillsNext]_fillsVars
    PROVE  NetInv' /\ SentWhole'
<1>0. rec' = rec /\ (\A f : Sure(f)' = Sure(f)) /\ NetType /\ posts \in Seq(Post)
  <2>1. rec' = rec
    BY PlaceStep
  <2> QED BY <2>1 DEF FillsTypeInv, PostType, Sure
<1>1. ASSUME net' = net, posts' = posts PROVE NetInv' /\ SentWhole'
  BY <1>0, <1>1 DEF NetInv, SentWhole
<1>2. CASE Perform
  <2>1. posts' = posts
    BY <1>2 DEF Perform
  <2>2. CASE net' = net
    BY <2>1, <2>2, <1>1
  <2>3. CASE net' # net
    <3>1. step.tool \in {"save", "press"} /\ net' = [at |-> "sent", form |-> FormOf(page'), excused |-> gone' \cup unseen]
      BY <2>3, <1>2 DEF Perform
    <3>2. \A f \in Fields \ net'.excused : Sure(f) => net'.form[f] = Sent(rec)[f]
      BY <3>1, <1>2, NetPerform
    <3> QED BY <2>1, <3>2, <1>0 DEF NetInv, SentWhole
  <2> QED BY <2>2, <2>3
<1>3. CASE Replay /\ ~Perform
  BY <1>1, <1>3 DEF Replay, Restore, Look, SetAgain, Confirm, EndCheck, Thrown, NoTarget, Judge, Note, Lost
<1>4. CASE Reload
  <2>1. net' = NoForm /\ posts' \in {posts, CutOff}
    BY <1>4 DEF Reload, CutOff
  <2>2. NetInv'
    BY <2>1 DEF NetInv, NoForm
  <2>3. DOMAIN posts' = DOMAIN posts /\ \A i \in DOMAIN posts : posts'[i].form = posts[i].form /\ posts'[i].excused = posts[i].excused
    <3>1. DOMAIN CutOff = DOMAIN posts /\ \A i \in DOMAIN posts : CutOff[i].form = posts[i].form /\ CutOff[i].excused = posts[i].excused
      BY <1>0, CutIs
    <3> QED BY <2>1, <3>1
  <2> QED BY <2>2, <2>3, <1>0 DEF SentWhole
<1>5. CASE Arrive
  <2> DEFINE p == [form |-> net.form, excused |-> net.excused, cut |-> FALSE]
  <2>1. net.at = "sent" /\ net' = [net EXCEPT !.at = "taken"] /\ posts' = Append(posts, p)
    BY <1>5 DEF Arrive
  <2>2. net \in [at : {"sent", "taken"}, form : Form, excused : SUBSET Fields]
    BY <2>1, <1>0 DEF NetType, NoForm
  <2>3. net'.form = net.form /\ net'.excused = net.excused
    BY <2>1, <2>2
  <2>4. p \in Post /\ p.form = net.form /\ p.excused = net.excused
    BY <2>2 DEF Post
  <2> HIDE DEF p
  <2>5. /\ DOMAIN posts' = 1..Len(posts) + 1 /\ posts'[Len(posts) + 1] = p /\ \A i \in DOMAIN posts : posts'[i] = posts[i]
        /\ Len(posts) \in Nat /\ DOMAIN posts = 1..Len(posts)
    BY <2>1, <2>4, <1>0, TakeIs
  <2>6. \A f \in Fields \ net.excused : Sure(f) => net.form[f] = Sent(rec)[f]
    BY <2>1 DEF NetInv
  <2>7. NetInv'
    BY <2>3, <2>6, <1>0 DEF NetInv
  <2>8. SentWhole'
    <3> SUFFICES ASSUME NEW i \in DOMAIN posts', NEW f \in Fields \ posts'[i].excused, Sure(f)
                 PROVE  posts'[i].form[f] = Sent(rec)[f]
      BY <1>0 DEF SentWhole
    <3>1. CASE i = Len(posts) + 1
      BY <3>1, <2>4, <2>5, <2>6
    <3>2. CASE i # Len(posts) + 1
      <4>1. i \in DOMAIN posts
        BY <3>2, <2>5
      <4> QED BY <4>1, <2>5 DEF SentWhole
    <3> QED BY <3>1, <3>2
  <2> QED BY <2>7, <2>8
<1>6. CASE Reset \/ \E f \in Fields : Build(f)
  BY <1>1, <1>6 DEF Reset, Build
<1>7. CASE Land
  <2>1. net' = NoForm /\ posts' = posts
    BY <1>7 DEF Land
  <2> QED BY <2>1, <1>0 DEF NetInv, SentWhole, NoForm
<1>8. CASE UNCHANGED fillsVars
  BY <1>1, <1>8 DEF fillsVars
<1> QED BY <1>2, <1>3, <1>4, <1>5, <1>6, <1>7, <1>8 DEF FillsNext, Environment

\* What keeps the form whole.
WholeInv ==
    FillsTypeInv /\ OnceInv /\ LedgerInv /\ RecordInv /\ PageInv /\ EmptyInv /\ UnseenInv /\ KeptInv /\ NetInv /\ SentWhole

LEMMA WholeInit == FillsInit => WholeInv
<1> SUFFICES ASSUME FillsInit PROVE WholeInv
  OBVIOUS
<1>1. phase = "step" /\ net = NoForm /\ posts = <<>>
  BY DEF FillsInit
<1>2. UnseenInv /\ NetInv /\ SentWhole
  BY <1>1 DEF UnseenInv, Checking, NetInv, NoForm, SentWhole
<1> QED BY <1>2, FillsTypeInit, OnceInit, LedgerInit, RecordInit, PageInit, EmptyInit, KeptInit DEF WholeInv

LEMMA WholeStep == WholeInv /\ [FillsNext]_fillsVars => WholeInv'
BY FillsTypeStep, OnceStep, LedgerStep, RecordStep, PageStep, EmptyStep, UnseenStep, KeptStep, NetStep DEF WholeInv

\* Whatever is reloaded, dropped at a blur or emptied by the app on the way,
\* a form the server took holds what the recording sent, in every field that
\* restoreStandingFills is not known to have missed.
THEOREM FormsAreSentWhole == FillsSpec => []SentWhole
<1>1. FillsInit => WholeInv
  BY WholeInit
<1>2. WholeInv /\ [FillsNext]_fillsVars => WholeInv'
  BY WholeStep
<1>3. WholeInv => SentWhole
  BY DEF WholeInv
<1> QED BY <1>1, <1>2, <1>3, PTL DEF FillsSpec

----------------------------------------------------------------------------
(* Robust: what keys are typed onto, and which steps are run again         *)

Dirty == gone # {} \/ unseen # {} \/ astray # {} \/ slow
HasText == \E f \in Fields : Sent(rec)[f] # <<>>
\* What keys put into their field, the recording's and the replay's.
TypesInv ==
    /\ phase = "judge" /\ step.tool = "type" =>
        /\ step.on \in gone \cup astray \/ page.val[step.on] = Seen(rec, n).val[step.on]
        /\ step.on \in astray \/ Seen(rec, n).val[step.on] = <<step.value>>
    /\ \A i \in 1..n - 1 : rec[i].tool = "type" => rec[i].on \in astray \/ Seen(rec, i).val[rec[i].on] = <<rec[i].value>>
\* A step is run again in a later document, a submit with its form on the way
\* or with the form it filled gone.
AgainInv ==
    /\ submitted.fills # <<>> => submitted.doc >= 1
    /\ n \in repeated => page.doc >= 2 /\ (phase = "judge" /\ step.tool = "fill" => before >= 2)
    /\ Late /\ lands /\ posts = <<>> /\ HasText =>
        \/ Dirty
        \/ phase = "judge" /\ net.at = "sent" /\ \E f \in Fields : page.val[f] # <<>>
        \/ /\ net = NoForm /\ submitted.fills # <<>> /\ page.doc # submitted.doc /\ \A f \in Fields : page.val[f] = <<>>
           /\ page.doc >= 2 /\ (n \in repeated => page.doc >= 3)

LEMMA TypedOnto ==
    ASSUME NEW p \in Page, NEW f \in Fields, NEW v \in Values, p.val[f] = <<>>
    PROVE  Typed(p, f, v).val[f] = <<v>>
<1>1. Put(p, f, Onto(p, f) \o <<v>>, FALSE, Typed(p, f, v))
  BY TypedIs
<1>2. Onto(p, f) = <<>>
  BY DEF Onto
<1>3. Onto(p, f) \o <<v>> = <<v>>
  BY <1>2
<1> QED BY <1>1, <1>3 DEF Put

\* Keys that go onto nothing, or onto what the guard takes away first.
LEMMA TypedAlone ==
    ASSUME FillsTypeInv, Perform, step.tool = "type", step.on \notin astray'
    PROVE  page'.val[step.on] = <<step.value>> /\ Seen(rec, n).val[step.on] = <<step.value>>
<1> DEFINE f == step.on
           v == step.value
<1>0. page \in Page /\ PlaceType
  BY DEF FillsTypeInv
<1>1. f \in Fields /\ v \in Values /\ page' = Typed(Cleared(step), f, v)
  BY <1>0, StepParts DEF Perform, Submits, Retires
<1>2. Seen(rec, n - 1).val[f] = <<>> /\ Known(step)
  BY DEF Perform, Submits, Retires, Recorded
<1>3. Seen(rec, n).val[f] = <<v>>
  <2>1. Seen(rec, n) = Gesture(Seen(rec, n - 1), step) /\ Seen(rec, n - 1) \in Page
    BY <1>0, RecordedIs DEF Recorded
  <2>2. Gesture(Seen(rec, n - 1), step) = Typed(Seen(rec, n - 1), f, v)
    BY DEF Gesture
  <2> QED BY <2>1, <2>2, <1>1, <1>2, TypedOnto
<1>4. Cleared(step) \in Page /\ Cleared(step).val[f] = <<>>
  <2>1. CASE page.val[f] = <<>>
    BY <2>1, <1>0 DEF Cleared
  <2>2. CASE page.val[f] # <<>>
    <3>1. Cleared(step) = Holding(Focus(page, f), f, <<>>, FALSE)
      BY <2>2, <1>2 DEF Known, Clears, Cleared
    <3>2. <<>> \in Seq(Values) /\ FALSE \in BOOLEAN
      OBVIOUS
    <3>3. Put(page, f, <<>>, FALSE, Holding(Focus(page, f), f, <<>>, FALSE))
      BY <1>0, <1>1, <3>2, PutIs
    <3> QED BY <3>1, <3>3 DEF Put
  <2> QED BY <2>1, <2>2
<1>5. page'.val[f] = <<v>>
  BY <1>1, <1>4, TypedOnto
<1> QED BY <1>3, <1>5

LEMMA TypesInit == FillsInit => TypesInv
<1> SUFFICES ASSUME FillsInit PROVE TypesInv
  OBVIOUS
<1>1. n = 1 /\ phase = "step"
  BY DEF FillsInit
<1>2. 1..n - 1 = {}
  BY <1>1
<1> QED BY <1>1, <1>2 DEF TypesInv

LEMMA TypesStep ==
    ASSUME FillsTypeInv, OnceInv, TypesInv, [FillsNext]_fillsVars
    PROVE  TypesInv'
<1>0. page \in Page /\ PlaceType /\ n \in Nat \ {0} /\ (Final <=> step.tool \in {"save", "press"}) /\ rec' = rec
  BY StepIs, PlaceStep DEF FillsTypeInv
<1>1. ASSUME n' = n, astray' = astray, phase' # "judge" PROVE TypesInv'
  BY <1>0, <1>1 DEF TypesInv
<1>2. CASE Restore \/ Look \/ SetAgain \/ Confirm \/ EndCheck \/ Thrown \/ NoTarget \/ Lost
  BY <1>1, <1>2 DEF Restore, Look, SetAgain, Confirm, EndCheck, Thrown, NoTarget, Lost, NextEntry, history
<1>3. CASE Perform
  <2>1. n' = n /\ step' = step /\ phase' = "judge" /\ astray \subseteq astray'
    BY <1>3 DEF Perform, step
  <2>2. step.tool = "type" /\ step.on \notin astray' =>
            page'.val[step.on] = <<step.value>> /\ Seen(rec, n).val[step.on] = <<step.value>>
    BY <1>3, TypedAlone
  <2>3. \A i \in 1..n - 1 : rec[i].tool = "type" => rec[i].on \in astray' \/ Seen(rec, i).val[rec[i].on] = <<rec[i].value>>
    BY <2>1 DEF TypesInv
  <2> QED BY <2>1, <2>2, <2>3, <1>0 DEF TypesInv
<1>4. ASSUME n' = n + 1, astray' = astray, phase' = "step", step.tool = "type" => phase = "judge" PROVE TypesInv'
  <2>1. ASSUME NEW i \in 1..n, rec[i].tool = "type" PROVE rec[i].on \in astray \/ Seen(rec, i).val[rec[i].on] = <<rec[i].value>>
    <3>1. CASE i = n
      BY <3>1, <2>1, <1>4 DEF TypesInv, step
    <3>2. CASE i # n
      <4>1. i \in 1..n - 1
        BY <3>2, <1>0
      <4> QED BY <4>1, <2>1 DEF TypesInv
    <3> QED BY <3>1, <3>2
  <2>2. n' - 1 = n
    BY <1>0, <1>4
  <2> QED BY <2>1, <2>2, <1>0, <1>4 DEF TypesInv
<1>5. CASE Judge \/ Note
  <2>1. astray' = astray /\ phase' # "judge" /\ (n' = n \/ (n' = n + 1 /\ phase' = "step"))
    BY <1>5 DEF Judge, Note, Onward, Stop, history
  <2>2. step.tool = "type" => phase = "judge"
    BY <1>0, <1>5 DEF Judge, Note, PlaceType
  <2> QED BY <2>1, <2>2, <1>1, <1>4
<1>6. CASE Environment
  <2>1. UNCHANGED <<n, phase, astray>> /\ step' = step /\ gone \subseteq gone'
    BY <1>6, BesideIs DEF Environment, Reload, Build, Arrive, Reset, Land, history
  <2>2. ASSUME phase = "judge", step.tool = "type"
        PROVE  step.on \in gone' \cup astray \/ page'.val[step.on] = Seen(rec, n).val[step.on]
    <3>1. step.on \in Fields /\ net = NoForm
      BY <1>0, <2>2, StepParts DEF OnceInv
    <3>2. CASE page'.val = page.val
      BY <3>2, <2>1, <2>2 DEF TypesInv
    <3>3. CASE Reload
      <4>1. Seen(rec, n).val[step.on] # <<>>
        <5>1. Seen(rec, n) = Gesture(Seen(rec, n - 1), step) /\ Seen(rec, n - 1) \in Page
          BY <1>0, RecordedIs DEF Recorded
        <5>2. step \in Step /\ Given(step)
          BY <1>0, StepIs
        <5> QED BY <5>1, <5>2, <2>2, GestureFades
      <4>2. step.on \in gone \cup astray \/ page.val[step.on] # <<>>
        BY <4>1, <2>2 DEF TypesInv
      <4>3. page.val[step.on] # <<>> => step.on \in Unkept
        BY <3>1, <2>2 DEF Unkept, Typing, Filling
      <4> QED BY <4>2, <4>3, <3>3, <2>1 DEF Reload
    <3>4. ~Reset /\ ~Land
      BY <3>1 DEF Reset, Land, NoForm
    <3> QED BY <3>2, <3>3, <3>4, <1>6, BesideIs
  <2> QED BY <2>1, <2>2, <1>0 DEF TypesInv
<1>7. CASE UNCHANGED fillsVars
  BY <1>7 DEF fillsVars, history, TypesInv, step
<1> QED BY <1>2, <1>3, <1>5, <1>6, <1>7 DEF FillsNext, Replay

\* What a field shows in the recording, some step entered last.
EnteredBy(r, f, k) == \E i \in 1..k : Enters(r[i], f) /\ \A j \in i + 1..k : ~Enters(r[j], f)
EntryInv == \A f \in Fields : Seen(rec, n - 1).val[f] # <<>> => EnteredBy(rec, f, n - 1)

LEMMA EntryOn ==
    ASSUME PlaceType, EntryInv, NEW f \in Fields, Seen(rec, n).val[f] # <<>>
    PROVE  EnteredBy(rec, f, n)
<1>0. n \in Nat \ {0} /\ step \in Step /\ Given(step) /\ rec[n] = step
  BY StepIs DEF step
<1>1. CASE Enters(step, f)
  <2>1. n \in 1..n /\ n + 1..n = {}
    BY <1>0
  <2> QED BY <2>1, <1>0, <1>1 DEF EnteredBy
<1>2. CASE ~Enters(step, f)
  <2>1. Seen(rec, n) = Gesture(Seen(rec, n - 1), step) /\ Seen(rec, n - 1) \in Page
    BY RecordedIs DEF Recorded
  <2>2. Fades(Seen(rec, n - 1), Seen(rec, n), f)
    BY <2>1, <1>0, <1>2, GestureFades
  <2>3. EnteredBy(rec, f, n - 1)
    BY <2>2 DEF Fades, EntryInv
  <2>4. PICK i \in 1..n - 1 : Enters(rec[i], f) /\ \A j \in i + 1..n - 1 : ~Enters(rec[j], f)
    BY <2>3 DEF EnteredBy
  <2>5. i \in 1..n /\ \A j \in i + 1..n : j = n \/ j \in i + 1..n - 1
    BY <1>0
  <2> QED BY <2>4, <2>5, <1>0, <1>2 DEF EnteredBy
<1> QED BY <1>1, <1>2

LEMMA EntryInit == FillsInit => EntryInv
<1> SUFFICES ASSUME FillsInit PROVE EntryInv
  OBVIOUS
<1>1. n = 1
  BY DEF FillsInit
<1>2. n - 1 = 0
  BY <1>1
<1>3. \A f \in Fields : Seen(rec, 0).val[f] = <<>>
  BY DEF Seen, Document
<1> QED BY <1>2, <1>3 DEF EntryInv

LEMMA EntryStep == FillsTypeInv /\ EntryInv /\ [FillsNext]_fillsVars => EntryInv'
<1> SUFFICES ASSUME FillsTypeInv, EntryInv, [FillsNext]_fillsVars PROVE EntryInv'
  OBVIOUS
<1>1. rec' = rec /\ n' \in {n, n + 1} /\ n \in Nat /\ PlaceType
  BY PlaceStep, StepIs DEF FillsTypeInv
<1>2. \A f \in Fields : Seen(rec, n).val[f] # <<>> => EnteredBy(rec, f, n)
  BY <1>1, EntryOn
<1>3. n' = n => n' - 1 = n - 1
  OBVIOUS
<1>4. n' = n + 1 => n' - 1 = n
  BY <1>1
<1>5. EntryInv' <=> \A f \in Fields : Seen(rec, n' - 1).val[f] # <<>> => EnteredBy(rec, f, n' - 1)
  BY <1>1 DEF EntryInv
<1> QED BY <1>1, <1>2, <1>3, <1>4, <1>5 DEF EntryInv

\* A replay that lost nothing sends what the recording sent.
LEMMA SentPerform ==
    ASSUME FillsTypeInv, LedgerInv, RecordInv, EntryInv, TypesInv, KeptInv, Perform, step.tool \in {"save", "press"},
           gone' = {}, unseen = {}, astray = {}, NEW f \in Fields, Sent(rec)[f] # <<>>
    PROVE  FormOf(page')[f] = Sent(rec)[f] /\ page'.val[f] # <<>> /\ page.val[f] # <<>>
<1>0. page \in Page /\ PlaceType
  BY DEF FillsTypeInv
<1>1. n = Len(rec) /\ n \in Nat \ {0} /\ DOMAIN rec = 1..n /\ rec[n] = step /\ step.tool \in Submits /\ step.tool \notin {"fill", "type"}
  <2>1. Len(rec) \in Nat \ {0} /\ (Final <=> step.tool \in {"save", "press"}) /\ rec \in Seq(Step)
    BY <1>0, StepIs
  <2>2. n = Len(rec)
    BY <2>1 DEF Final
  <2>3. DOMAIN rec = 1..Len(rec)
    BY <2>1
  <2> QED BY <2>1, <2>2, <2>3 DEF Submits, step
<1>2. ~Enters(step, f)
  BY <1>1 DEF Enters
<1>3. Sent(rec)[f] = Onto(Seen(rec, n), f)
  <2>1. Seen(rec, n) \in Page
    BY <1>0, <1>1, RecordedIs DEF Recorded
  <2>2. Sent(rec) = FormOf(Seen(rec, n))
    BY <1>1 DEF Sent
  <2> QED BY <2>1, <2>2, FormIs
<1>4. Seen(rec, n).val[f] # <<>> /\ f \notin Seen(rec, n).soft /\ Sent(rec)[f] = Seen(rec, n).val[f]
  BY <1>3 DEF Onto
<1>5. PICK i \in 1..n : Enters(rec[i], f) /\ \A j \in i + 1..n : ~Enters(rec[j], f)
  BY <1>0, <1>4, EntryOn DEF EnteredBy
<1>6. i \in 1..n - 1
  <2>1. i # n
    BY <1>1, <1>2, <1>5
  <2> QED BY <2>1, <1>1, <1>5
<1>7. Last(rec, i, f)
  BY <1>1, <1>5 DEF Last
<1>8. Shows(rec, i, f, n)
  BY <1>0, <1>5, <1>7, RecordOn DEF RecordInv, RecordAt
<1>9. rec[i].value # Nil /\ ~Rests(rec[i]) /\ Seen(rec, n).val[f] = Seen(rec, i).val[f]
  BY <1>4, <1>8 DEF Shows
<1>10. rec[i] \in Step /\ rec[i].tool \in {"fill", "type"} /\ rec[i].on = f
  BY <1>0, <1>1, <1>5, RecordedIs DEF Enters
<1>11. PICK v \in Values : v = rec[i].value
  BY <1>9, <1>10 DEF Step
<1>12. Seen(rec, i).val[f] = <<v>>
  <2>1. CASE rec[i].tool = "fill"
    BY <2>1, <1>8, <1>9, <1>11 DEF Shows
  <2>2. CASE rec[i].tool = "type"
    BY <2>2, <1>6, <1>10, <1>11 DEF TypesInv
  <2> QED BY <2>1, <2>2, <1>10
<1>13. Wanted(rec, i, f, v)
  BY <1>7, <1>9, <1>11, <1>12 DEF Wanted
<1>14. phase = "act" /\ page.at = "form" /\ unseen' = unseen /\ phase' = "judge" /\ gone \subseteq gone'
  BY <1>1 DEF Perform, Reachable
<1>15. Kept(f, v)
  BY <1>6, <1>11, <1>13, <1>14 DEF KeptInv, Scope, Late
<1>16. ~Will(f, v)
  BY <1>14, <1>1 DEF Will, Checking, Late, In, LedgerInv
<1>17. Held(f, v)
  BY <1>4, <1>14, <1>15, <1>16 DEF Kept, Excused
<1>18. Held(f, v)'
  BY <1>4, <1>11, <1>17, <1>2, HeldPerform
<1>19. page'.val[f] = <<v>> /\ f \notin page'.soft /\ page.val[f] = <<v>>
  BY <1>14, <1>17, <1>18 DEF Held
<1>20. FormOf(page')[f] = <<v>>
  <2>1. page' \in Page
    BY PerformIs DEF Stays
  <2>2. FormOf(page')[f] = Onto(page', f)
    BY <2>1, FormIs
  <2> QED BY <2>2, <1>19 DEF Onto
<1>21. Sent(rec)[f] = <<v>>
  BY <1>4, <1>9, <1>12
<1> QED BY <1>19, <1>20, <1>21

LEMMA AgainInit == FillsInit => AgainInv
<1> SUFFICES ASSUME FillsInit PROVE AgainInv
  OBVIOUS
<1>1. submitted = Nothing /\ repeated = {} /\ phase = "step"
  BY DEF FillsInit
<1> QED BY <1>1 DEF AgainInv, Nothing, Late

\* A submit that lost nothing has its form on the way.
LEMMA AgainPerform ==
    ASSUME FillsTypeInv, LedgerInv, RecordInv, EntryInv, TypesInv, KeptInv, AgainInv, Perform
    PROVE  AgainInv'
<1>0. page \in Page /\ PlaceType /\ (Final <=> step.tool \in {"save", "press"})
  BY StepIs DEF FillsTypeInv
<1>1. /\ rec' = rec /\ lands' = lands /\ n' = n /\ step' = step /\ Final' = Final /\ submitted' = submitted /\ unseen' = unseen
      /\ posts' = posts /\ repeated' = repeated /\ slow' = slow /\ phase' = "judge" /\ HasText' = HasText
  BY DEF Perform, step, Final, ledger, HasText
<1>2. page'.doc = page.doc
  BY PerformIs DEF Stays
<1>3. n \in repeated => page'.doc >= 2 /\ (step.tool = "fill" => before' >= 2)
  BY <1>2 DEF AgainInv, Perform, Submits, Retires
<1>4. ASSUME Final, HasText, ~Dirty' PROVE net'.at = "sent" /\ \E f \in Fields : page'.val[f] # <<>>
  <2>1. step.tool \in {"save", "press"} /\ gone' = {} /\ unseen = {} /\ astray' = {}
    BY <1>0, <1>1, <1>4 DEF Dirty
  <2>2. astray = {}
    BY <2>1 DEF Perform, Submits
  <2>3. \A f \in Fields : Sent(rec)[f] # <<>> => FormOf(page')[f] = Sent(rec)[f] /\ page'.val[f] # <<>>
    BY <2>1, <2>2, SentPerform
  <2>4. Takes(Sent(rec)) /\ Required \subseteq Fields
    BY <1>0, RecordingsAssumption, FormAssumption DEF PlaceType
  <2>5. Takes(FormOf(page'))
    BY <2>3, <2>4 DEF Takes
  <2>6. net' = [at |-> "sent", form |-> FormOf(page'), excused |-> gone' \cup unseen]
    BY <2>1, <2>5 DEF Perform
  <2>7. net'.at = "sent"
    BY <2>6
  <2> QED BY <2>3, <2>7, <1>4 DEF HasText
<1> QED BY <1>1, <1>3, <1>4 DEF AgainInv, Late

LEMMA AgainReplay ==
    ASSUME FillsTypeInv, OnceInv, LedgerInv, AgainInv, Replay, ~Perform
    PROVE  AgainInv'
<1>0. /\ page \in Page /\ PlaceType /\ page.doc \in Nat /\ page.doc >= 1 /\ before \in Nat /\ before >= 1 /\ before <= page.doc /\ repeated \subseteq 1..n
      /\ n \in 1..Len(rec) /\ Len(rec) \in Nat /\ (Final <=> step.tool \in {"save", "press"})
      /\ submitted.doc \in Nat /\ submitted.doc <= page.doc
  <2>1. page \in Page /\ PlaceType /\ LedgerType
    BY DEF FillsTypeInv
  <2>2. submitted.doc \in 0..MaxReloads + 1 /\ submitted.doc <= page.doc
    BY <2>1 DEF LedgerType
  <2>3. page.doc \in 1..MaxReloads + 1 /\ before \in 1..MaxReloads + 1 /\ MaxReloads \in Nat
    BY <2>1, FormAssumption DEF Page, PlaceType
  <2>4. page.doc \in Nat /\ page.doc >= 1 /\ before \in Nat /\ before >= 1 /\ submitted.doc \in Nat
    BY <2>2, <2>3
  <2> QED BY <2>1, <2>2, <2>4, StepIs DEF PlaceType
<1>1. rec' = rec /\ lands' = lands /\ net' = net /\ posts' = posts /\ before' = before
  BY DEF Replay, Restore, Look, SetAgain, Confirm, EndCheck, Thrown, NoTarget, Judge, Note, Lost
<1>2. page'.doc = page.doc
  <2>1. CASE Restore \/ EndCheck
    BY <2>1, <1>0, BlurFirstFades DEF Restore, EndCheck, Stays
  <2>2. CASE SetAgain \/ Confirm
    <3>1. entry.on \in Fields /\ entry.value \in Values
      BY <2>2, EntryIs DEF FillsTypeInv, CheckType, Checking, SetAgain, Confirm
    <3>2. /\ blurFirst(reactSafeFill(page, entry.on, entry.value)).doc = page.doc
          /\ blurFirst(typeInto(page, entry.on, entry.value)).doc = page.doc
      BY <3>1, <1>0, RefillIs
    <3> QED BY <2>2, <3>2 DEF SetAgain, Confirm
  <2> QED BY <2>1, <2>2 DEF Replay, Look, Thrown, NoTarget, Judge, Note, Lost
<1>3. CASE Restore \/ Look \/ SetAgain \/ Confirm \/ EndCheck \/ Thrown \/ NoTarget
  <2>1. n' = n /\ repeated' = repeated /\ phase' \notin {"judge", "lost"}
    BY <1>3 DEF Restore, Look, SetAgain, Confirm, EndCheck, Thrown, NoTarget, NextEntry
  <2>2. submitted' \in {submitted, Nothing, [fills |-> check.fills, doc |-> page.doc]}
    BY <1>3 DEF Restore, Look, SetAgain, Confirm, EndCheck, Thrown, NoTarget, ledger
  <2>3. submitted'.fills # <<>> => submitted'.doc >= 1
    BY <2>2, <1>0 DEF AgainInv, Nothing
  <2> QED BY <2>1, <2>3, <1>2 DEF AgainInv, Late
<1>4. ASSUME n' = n + 1, phase' = "step", repeated' = repeated, submitted' = submitted PROVE AgainInv'
  <2>1. n' \notin repeated'
    BY <1>0, <1>4
  <2> QED BY <2>1, <1>4 DEF AgainInv, Late
<1>5. CASE Judge
  <2>1. phase = "judge" /\ submitted' = submitted /\ UNCHANGED <<page, gone, unseen, astray>>
    BY <1>5 DEF Judge, ledger
  <2>2. CASE step.tool = "fill"
    <3>1. n' = n /\ phase' \notin {"judge", "lost"} /\ (repeated' = repeated \/ (repeated' = repeated \cup {n} /\ page.doc # before))
      BY <2>2, <1>5 DEF Judge, Stop, fillLost
    <3>2. n \in repeated' => page.doc >= 2
      BY <3>1, <1>0 DEF AgainInv
    <3> QED BY <2>1, <3>1, <3>2 DEF AgainInv, Late
  <2>3. CASE Onward /\ repeated' = repeated
    <3>1. CASE n = Len(rec)
      BY <2>1, <2>3, <3>1 DEF Onward, AgainInv, Late
    <3>2. CASE n # Len(rec)
      BY <2>1, <2>3, <3>2, <1>4 DEF Onward
    <3> QED BY <3>1, <3>2
  <2>4. CASE phase' = "stopped" /\ n' = n /\ repeated' = repeated
    BY <2>1, <2>4 DEF AgainInv, Late
  <2>5. CASE step.tool \in {"save", "press"} /\ n' = n /\ repeated' = repeated /\ phase' = "lost"
    <3>1. slow' = (slow \/ net.at # "none") /\ lands /\ n \notin repeated /\ Late /\ Final'
      BY <2>1, <2>5, <1>0, <1>1, <1>5 DEF Judge, Onward, Late, Final
    <3>2. HasText' = HasText
      BY <1>1 DEF HasText
    <3>3. (Dirty \/ net.at = "sent") => Dirty'
      BY <2>1, <3>1 DEF Dirty
    <3> QED BY <2>1, <2>5, <3>1, <3>2, <3>3, <1>1 DEF AgainInv
  <2> QED BY <2>2, <2>3, <2>4, <2>5, <1>5 DEF Judge, Stop
<1>6. CASE Note
  <2>1. submitted' = submitted /\ repeated' = repeated /\ page' = page /\ Onward /\ ~Final
    BY <1>0, <1>6 DEF Note, PlaceType
  <2> QED BY <2>1, <1>4 DEF Onward, Final
<1>7. CASE Lost
  <2>1. n' = n /\ page' = page /\ phase' \in {"step", "stopped"}
    BY <1>7 DEF Lost
  <2>2. CASE standingFillsLost /\ submitted' = Nothing
    <3>1. submitted.doc >= 1 /\ page.doc # submitted.doc
      BY <2>2 DEF AgainInv, standingFillsLost
    <3>2. page.doc >= 2
      BY <3>1, <1>0
    <3> QED BY <2>1, <2>2, <3>2, <1>2 DEF AgainInv, Late, Nothing
  <2>3. CASE submitted' = submitted /\ repeated' = repeated
    BY <2>1, <2>3 DEF AgainInv, Late
  <2> QED BY <2>2, <2>3, <1>7 DEF Lost
<1> QED BY <1>3, <1>5, <1>6, <1>7 DEF Replay

LEMMA AgainBeside ==
    ASSUME FillsTypeInv, OnceInv, LedgerInv, AgainInv, Environment
    PROVE  AgainInv'
<1>0. /\ page \in Page /\ LedgerType /\ PlaceType /\ page.doc \in Nat /\ page.doc >= 1 /\ page'.doc >= page.doc /\ page'.doc \in Nat
      /\ (Final <=> step.tool \in {"save", "press"}) /\ submitted.doc \in Nat /\ submitted.doc <= page.doc
  <2>1. page \in Page /\ PlaceType /\ LedgerType
    BY DEF FillsTypeInv
  <2>2. page' \in Page
    <3>1. FillsTypeInv'
      BY FillsTypeStep DEF FillsNext
    <3> QED BY <3>1 DEF FillsTypeInv
  <2>3. page.doc \in 1..MaxReloads + 1 /\ page'.doc \in 1..MaxReloads + 1 /\ submitted.doc \in 0..MaxReloads + 1 /\ submitted.doc <= page.doc /\ MaxReloads \in Nat
    BY <2>1, <2>2, FormAssumption DEF Page, LedgerType
  <2>4. page.doc \in Nat /\ page.doc >= 1 /\ page'.doc \in Nat /\ submitted.doc \in Nat
    BY <2>3
  <2> QED BY <2>1, <2>3, <2>4, BesideIs, StepIs
<1>1. /\ UNCHANGED <<rec, lands, phase, n, submitted, before, repeated, astray, slow>>
      /\ step' = step /\ Late' = Late /\ HasText' = HasText
  BY BesideIs DEF Late, HasText
<1>2. gone \subseteq gone' /\ unseen \subseteq unseen'
  BY DEF Environment, Reload, Build, Arrive, Reset, Land, history
<1>3. Dirty => Dirty'
  BY <1>1, <1>2 DEF Dirty
<1>4. n \in repeated => page'.doc >= 2 /\ (phase = "judge" /\ step.tool = "fill" => before >= 2)
  BY <1>0 DEF AgainInv
<1> SUFFICES ASSUME Late, lands, posts' = <<>>, HasText, ~Dirty, ~Dirty'
             PROVE  \/ phase = "judge" /\ net'.at = "sent" /\ \E f \in Fields : page'.val[f] # <<>>
                    \/ /\ net' = NoForm /\ submitted.fills # <<>> /\ page'.doc # submitted.doc /\ \A f \in Fields : page'.val[f] = <<>>
                       /\ page'.doc >= 2 /\ (n \in repeated => page'.doc >= 3)
  BY <1>1, <1>3, <1>4 DEF AgainInv
<1>5. net.at # "taken"
  <2>1. net.at = "taken" => posts # <<>>
    BY DEF OnceInv
  <2>2. net.at = "taken" => ~Arrive
    BY DEF Arrive
  <2>3. CASE Reload
    <3>1. ASSUME net.at = "taken" PROVE FALSE
      <4>1. posts' = CutOff /\ posts \in Seq(Post)
        BY <2>3, <3>1 DEF Reload, CutOff, FillsTypeInv, PostType
      <4>2. Len(posts') = Len(posts) /\ Len(posts) \in Nat
        BY <4>1, CutIs
      <4>3. Len(posts) = 0
        BY <4>2
      <4> QED BY <2>1, <3>1, <4>1, <4>3, EmptySeq
    <3> QED BY <3>1
  <2>4. CASE ~Reload
    BY <2>1, <2>2, <2>4 DEF Environment, Build, Arrive, Reset, Land
  <2> QED BY <2>3, <2>4
<1>6. ~Reset /\ ~Land
  BY <1>5 DEF Reset, Land
<1>7. ~Arrive
  <2>1. Arrive => posts' # <<>>
    <3>1. posts \in Seq(Post)
      BY DEF FillsTypeInv, PostType
    <3> QED BY <3>1 DEF Arrive
  <2> QED BY <2>1
<1>8. posts = <<>>
  <2>1. posts' = posts
    BY <1>5, <1>6, <1>7 DEF Environment, Reload, Build
  <2> QED BY <2>1
<1>9. \/ phase = "judge" /\ net.at = "sent" /\ \E f \in Fields : page.val[f] # <<>>
      \/ /\ net = NoForm /\ submitted.fills # <<>> /\ page.doc # submitted.doc /\ \A f \in Fields : page.val[f] = <<>>
         /\ page.doc >= 2 /\ (n \in repeated => page.doc >= 3)
  BY <1>8 DEF AgainInv
<1>10. CASE \E f \in Fields : Build(f)
  <2>1. page'.val = page.val /\ page'.doc = page.doc /\ net' = net
    <3>1. PICK f \in Fields : Build(f)
      BY <1>10
    <3>2. page' = [page EXCEPT !.built = @ \cup {f}] /\ net' = net
      BY <3>1 DEF Build
    <3> QED BY <3>2, <1>0, BuildIs
  <2> QED BY <2>1, <1>9
<1>11. CASE Reload
  <2>1. page' = Document(page.doc + 1, {}, posts # <<>>) /\ net' = NoForm /\ gone' = gone \cup Unkept
    BY <1>11 DEF Reload
  <2>2. page'.doc = page.doc + 1 /\ \A f \in Fields : page'.val[f] = <<>>
    BY <2>1, DocumentIs
  <2>3. page'.doc # submitted.doc /\ page'.doc >= 2 /\ (n \in repeated => page'.doc >= 3)
    BY <2>2, <1>0 DEF AgainInv
  <2>4. submitted.fills # <<>>
    <3>1. CASE phase = "judge" /\ net.at = "sent" /\ \E f \in Fields : page.val[f] # <<>>
      <4>1. PICK f \in Fields : page.val[f] # <<>>
        BY <3>1
      <4>2. f \notin Unkept
        BY <2>1 DEF Dirty
      <4>3. step.tool \in {"save", "press"}
        BY <1>0 DEF Late
      <4>4. \E k \in DOMAIN Entries : TRUE
        BY <4>1, <4>2, <4>3 DEF Unkept, Filling, Typing
      <4>5. Entries # <<>>
        BY <4>4
      <4>6. fills = <<>> /\ ~Checking
        BY <3>1, <4>3 DEF LedgerInv, Submits, Checking
      <4>7. Entries = <<>> \o <<>> \o submitted.fills
        BY <4>3, <4>6, <3>1 DEF Entries
      <4> QED BY <4>5, <4>7
    <3> QED BY <3>1, <1>9
  <2> QED BY <2>1, <2>2, <2>3, <2>4
<1> QED BY <1>6, <1>7, <1>10, <1>11 DEF Environment

LEMMA AgainStep ==
    ASSUME FillsTypeInv, OnceInv, LedgerInv, RecordInv, EntryInv, TypesInv, KeptInv, AgainInv, [FillsNext]_fillsVars
    PROVE  AgainInv'
<1>1. CASE UNCHANGED fillsVars
  BY <1>1 DEF fillsVars, ledger, history, AgainInv, Late, Final, Dirty, HasText, step
<1> QED BY <1>1, AgainPerform, AgainReplay, AgainBeside DEF FillsNext

\* A replay stops only where something was lost, or waited for in vain.
LEMMA RobustStep ==
    ASSUME FillsTypeInv, OnceInv, PageInv, TypesInv, AgainInv, Robust, [FillsNext]_fillsVars
    PROVE  Robust'
<1>0. page \in Page /\ PlaceType /\ page.doc \in Nat /\ before \in Nat /\ before <= page.doc /\ (Final <=> step.tool \in {"save", "press"}) /\ rec' = rec
  <2>1. page \in Page /\ PlaceType
    BY DEF FillsTypeInv
  <2>2. page.doc \in 1..MaxReloads + 1 /\ before \in 1..MaxReloads + 1 /\ MaxReloads \in Nat
    BY <2>1, FormAssumption DEF Page, PlaceType
  <2> QED BY <2>1, <2>2, StepIs, PlaceStep DEF PlaceType
<1> SUFFICES ASSUME phase' = "stopped", page'.doc <= 2, lands', posts' = <<>>, HasText PROVE Dirty'
  BY <1>0 DEF Robust, Dirty, HasText
<1>1. CASE NoTarget
  BY <1>1 DEF NoTarget, Dirty
<1>2. CASE Judge
  <2>1. phase = "judge" /\ page' = page /\ gone' = gone /\ unseen' = unseen /\ astray' = astray /\ lands /\ posts = <<>>
    BY <1>2 DEF Judge
  <2>2. step.tool = "fill" => FALSE
    <3> SUFFICES ASSUME step.tool = "fill" PROVE FALSE
      OBVIOUS
    <3>1. page.val[step.on] # TextOf(step.value) /\ ~fillLost
      BY <1>2 DEF Judge, Stop
    <3>2. page.doc # before
      BY <2>1, <3>1 DEF PageInv
    <3>3. n \in repeated
      BY <3>1, <3>2 DEF fillLost
    <3>4. before >= 2 /\ page.doc <= 2
      BY <2>1, <3>3 DEF AgainInv
    <3> QED BY <3>2, <3>4, <1>0
  <2>3. CASE step.tool = "type"
    <3>1. page.val[step.on] # Recorded(n).val[step.on]
      BY <2>3, <1>2 DEF Judge, Onward
    <3> QED BY <2>1, <2>3, <3>1 DEF TypesInv, Recorded, Dirty
  <2>4. CASE step.tool \in {"save", "press"}
    <3>1. n \in repeated /\ slow' = (slow \/ net.at # "none") /\ Late
      BY <2>1, <2>4, <1>0, <1>2 DEF Judge, Onward, Late
    <3>2. Dirty \/ net.at = "sent"
      BY <2>1, <3>1, <1>0 DEF AgainInv
    <3> QED BY <2>1, <3>1, <3>2 DEF Dirty
  <2>5. step.tool \notin {"pick", "check"}
    BY <1>2 DEF Judge, Onward
  <2> QED BY <2>2, <2>3, <2>4, <2>5, <1>0, StepParts
<1>3. CASE Lost
  <2>1. phase = "lost" /\ page' = page /\ gone' = gone /\ unseen' = unseen /\ astray' = astray /\ lands /\ posts = <<>>
    BY <1>3 DEF Lost
  <2>2. Late /\ n \notin repeated
    BY <2>1, <1>0 DEF Late, PlaceType
  <2>3. CASE standingFillsLost
    BY <2>3, <1>3 DEF Lost, Dirty
  <2>4. CASE ~standingFillsLost
    <3>1. slow' = slow
      BY <2>4, <1>3 DEF Lost
    <3>2. page.at = "form"
      BY <2>1, <1>0 DEF OnceInv, Page
    <3>3. SentFields \subseteq Fields
      <4>1. \A k \in DOMAIN submitted.fills : submitted.fills[k] \in Fill
        BY DEF FillsTypeInv, LedgerType
      <4> QED BY <4>1 DEF SentFields, Fill
    <3>4. Dirty
      BY <2>1, <2>2, <2>4, <3>2, <3>3 DEF AgainInv, standingFillsLost
    <3> QED BY <2>1, <3>1, <3>4 DEF Dirty
  <2> QED BY <2>3, <2>4
<1>4. CASE Environment
  BY <1>4, BesideIs DEF Running
<1>5. CASE UNCHANGED fillsVars
  BY <1>5 DEF fillsVars, history, Robust, Dirty, HasText
<1>6. CASE Replay /\ ~(NoTarget \/ Judge \/ Lost)
  BY <1>6 DEF Replay, Thrown, Restore, Look, SetAgain, Confirm, EndCheck, Perform, Note, Onward, NextEntry, FillsTypeInv, CheckType
<1> QED BY <1>1, <1>2, <1>3, <1>4, <1>5, <1>6 DEF FillsNext

\* What keeps a replay going, or says why it stopped.
RobustInv == WholeInv /\ EntryInv /\ TypesInv /\ AgainInv /\ Robust

LEMMA RobustInit == FillsInit => RobustInv
<1> SUFFICES ASSUME FillsInit PROVE RobustInv
  OBVIOUS
<1>1. phase = "step"
  BY DEF FillsInit
<1>2. Robust
  BY <1>1 DEF Robust
<1> QED BY <1>2, WholeInit, EntryInit, TypesInit, AgainInit DEF RobustInv

LEMMA RobustInvStep == RobustInv /\ [FillsNext]_fillsVars => RobustInv'
BY WholeStep, EntryStep, TypesStep, AgainStep, RobustStep DEF RobustInv, WholeInv

\* One reload does not stop a replay (standingFillsLost, fillLost): where it
\* stops with a form that leads to its record unsent, the document went under a
\* call that was acting, or something was lost on the way or waited for in vain.
THEOREM OneReloadIsSurvived == FillsSpec => []Robust
<1>1. FillsInit => RobustInv
  BY RobustInit
<1>2. RobustInv /\ [FillsNext]_fillsVars => RobustInv'
  BY RobustInvStep
<1>3. RobustInv => Robust
  BY DEF RobustInv
<1> QED BY <1>1, <1>2, <1>3, PTL DEF FillsSpec
=============================================================================
