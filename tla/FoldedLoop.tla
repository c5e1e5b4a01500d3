----------------------------- MODULE FoldedLoop -----------------------------
(***************************************************************************)
(* runFoldedLoop (src/execution/loop.ts), the one policy that repeats a    *)
(* recorded body record after record, in daemon replay and in compiled     *)
(* tests, and what its hooks do in replay (src/skills/replay.ts runLoop).  *)
(*                                                                         *)
(* The records the guard matches are numbered in the order the page shows  *)
(* them.  A body step either names the record at the cursor or is pinned   *)
(* to the first row, and its last step may consume the record: its row     *)
(* then leaves some time later, and the page may show another instead.  A  *)
(* step may be skipped (already in effect, a read or an absent dialog that *)
(* did not resolve): its pass counts as carried out all the same.          *)
(***************************************************************************)
EXTENDS Integers, FiniteSets

CONSTANTS
    Record,   \* the records there may be at the start
    Refill,   \* those the page may bring in while rows leave
    MaxPass,  \* the caps (max) looked at
    BodySteps \* the steps of the body

ASSUME RecordAssumption ==
    Record \subseteq Nat /\ IsFiniteSet(Record) /\ Refill \subseteq Nat /\ Record \cap Refill = {}
ASSUME BoundAssumption == MaxPass \subseteq Nat \ {0} /\ BodySteps \in Nat \ {0}

Row == Record \cup Refill

VARIABLES
    opts,       \* the cap, the scope, what the body aims at, what it consumes
    pc,
    iter, cursor,
    prevSig,    \* what the previous pass resolved
    prevRemaining, \* what it counted, -1 before the first
    remaining,  \* what this pass counted
    entries,    \* what this pass resolved so far: steps with their candidates
    bstep,      \* the body's steps behind this pass, skipped ones included
    outcome,
    \* the page
    shown,      \* the records whose rows match the guard
    leaving,    \* those consumed, their row still there
    rendered,   \* the list is rendered
    aborted,
    \* history
    acted,      \* <<step, record>>: what was acted on
    again,      \* what was acted on a second time
    skipped,    \* records whose pass skipped the body's last step
    upset       \* a row left later than was waited for, or another came, or a
                \* body pinned to the first row skipped a step it did not find

loopVars == <<iter, cursor, prevSig, prevRemaining, remaining, entries, bstep>>
pageVars == <<shown, leaving, rendered>>
histVars == <<acted, again, skipped, upset>>
vars == <<opts, pc, loopVars, outcome, pageVars, aborted, histVars>>

None == [state |-> "none", left |-> -1]
Options == [max : MaxPass, scope : {"observed", "drain"}, aim : {"cursor", "first"}, consumes : SUBSET Row]

TypeOK ==
    /\ opts \in Options
    /\ pc \in {"top", "observe", "body", "after", "recount", "shrink", "recheck", "budget", "coverage", "done"}
    /\ iter \in 0..opts.max /\ cursor \in 0..iter
    /\ prevSig \subseteq (1..BodySteps) \X Nat /\ entries \subseteq (1..BodySteps) \X Nat
    /\ bstep \in 0..BodySteps
    /\ prevRemaining \in Nat \cup {-1} /\ remaining \in Nat
    /\ outcome \in [state : {"none", "complete", "partial", "unread", "stopped", "repeated", "unfinished", "aborted"},
                    left : Nat \cup {-1}]
    /\ shown \subseteq Row /\ leaving \subseteq shown
    /\ rendered \in BOOLEAN /\ aborted \in BOOLEAN /\ upset \in BOOLEAN
    /\ again \subseteq acted /\ acted \subseteq (1..BodySteps) \X Row /\ skipped \subseteq Row

Init ==
    /\ opts \in Options
    /\ pc = "top"
    /\ iter = 0 /\ cursor = 0
    /\ prevSig = {} /\ entries = {} /\ bstep = 0
    /\ prevRemaining = -1 /\ remaining = 0
    /\ outcome = None
    /\ shown = Record
    /\ leaving = {} /\ rendered = FALSE /\ aborted = FALSE
    /\ acted = {} /\ again = {} /\ skipped = {} /\ upset = FALSE

\* What count() answers, and the record at a place in the list.
Count == IF rendered THEN Cardinality(shown) ELSE 0
At(i) == {r \in shown : Cardinality({x \in shown : x < r}) = i}

End(state, left) ==
    /\ pc' = "done"
    /\ outcome' = [state |-> state, left |-> left]
Goto(l) == pc' = l /\ UNCHANGED outcome

----------------------------------------------------------------------------
UnderCap == iter < opts.max

\* The loop's condition, its abort check and the settle before the count.
Top ==
    /\ pc = "top"
    /\ \/ ~UnderCap /\ Goto("budget") /\ UNCHANGED rendered
       \/ UnderCap /\ aborted /\ End("aborted", -1) /\ UNCHANGED rendered
       \/ UnderCap /\ ~aborted /\ Goto("observe") /\ rendered' = TRUE
    /\ UNCHANGED <<opts, loopVars, shown, leaving, aborted, histVars>>

\* A guard that cannot be read, twice, ends the loop.
Unread ==
    /\ pc \in {"observe", "recount", "recheck"}
    /\ End("unread", -1)
    /\ UNCHANGED <<opts, loopVars, pageVars, aborted, histVars>>

Observe ==
    /\ pc = "observe"
    /\ IF Count = 0 \/ cursor >= Count
         THEN Goto("coverage") /\ UNCHANGED <<remaining, entries, bstep>>
         ELSE Goto("body") /\ remaining' = Count /\ entries' = {} /\ bstep' = 0
    /\ UNCHANGED <<opts, iter, cursor, prevSig, prevRemaining, pageVars, aborted, histVars>>

\* The candidate a step's target resolves to: a generic one is narrowed to
\* the cursor, a positional one is the same on every pass.
Place == IF opts.aim = "first" THEN 0 ELSE cursor
Entry == IF opts.aim = "first" THEN 0 ELSE cursor + 1
Resolved == entries \cup {<<bstep + 1, Entry>>}

\* Bug variant: an unchanged count is taken for progress.
SameIfMore(found) == remaining > prevRemaining /\ found # {} /\ found = prevSig

\* The pass resolves what the previous one did, and the count did not drop.
Same(found) == remaining >= prevRemaining /\ found # {} /\ found = prevSig

\* Asked before a step acts, and once more after the body.
Repeated ==
    /\ \/ pc = "body" /\ At(Place) # {} /\ Same(Resolved)
       \/ pc = "after" /\ Same(entries)
    /\ End("repeated", -1)
    /\ UNCHANGED <<opts, loopVars, pageVars, aborted, histVars>>

LastStep == bstep + 1 = BodySteps
StepOn == bstep' = bstep + 1 /\ Goto(IF LastStep THEN "after" ELSE "body")

\* One step of the body acts on its record; the last one may consume it.
Act ==
    /\ pc = "body" /\ ~Same(Resolved)
    /\ \E r \in At(Place) :
         /\ acted' = acted \cup {<<bstep + 1, r>>}
         /\ again' = again \cup (acted \cap {<<bstep + 1, r>>})
         /\ leaving' = IF LastStep THEN leaving \cup ({r} \cap opts.consumes) ELSE leaving
    /\ StepOn
    /\ entries' = Resolved
    /\ rendered' \in BOOLEAN
    /\ UNCHANGED <<opts, iter, cursor, prevSig, prevRemaining, remaining, shown, aborted, skipped, upset>>

\* History: the record whose pass does without the body's last step.
PassOver(place) == skipped' = IF LastStep THEN skipped \cup At(place) ELSE skipped

\* One step is skipped, its target found (its effect already shows; on the last
\* step the check after the body sees a repeat) or not.  The pass goes on.
Skip ==
    /\ pc = "body"
    /\ \/ /\ At(Place) # {} /\ ~(LastStep /\ Same(Resolved))
          /\ entries' = Resolved
          /\ PassOver(Place) /\ UNCHANGED upset
       \/ /\ entries' = entries
          /\ PassOver(cursor)
          /\ upset' = (upset \/ opts.aim = "first")
    /\ StepOn
    /\ UNCHANGED <<opts, iter, cursor, prevSig, prevRemaining, remaining, pageVars, aborted, acted, again>>

\* A body step that stops: nothing resolves, a gate refuses, the budget ends.
BodyStops ==
    /\ pc = "body"
    /\ End("stopped", -1)
    /\ UNCHANGED <<opts, loopVars, pageVars, aborted, histVars>>

\* The settle before the recount.
After ==
    /\ pc = "after" /\ ~Same(entries)
    /\ Goto("recount")
    /\ prevSig' = entries
    /\ rendered' = TRUE
    /\ UNCHANGED <<opts, iter, cursor, prevRemaining, remaining, entries, bstep, shown, leaving, aborted, histVars>>

NextPass(advance) ==
    /\ cursor' = IF advance THEN cursor + 1 ELSE cursor
    /\ prevRemaining' = remaining
    /\ iter' = iter + 1
    /\ Goto("top")

\* Bug variant: the recount decides at once.
RecountDecides ==
    /\ pc = "recount"
    /\ NextPass(Count >= remaining)
    /\ UNCHANGED <<opts, prevSig, remaining, entries, bstep, pageVars, aborted, histVars>>

Recount ==
    /\ pc = "recount"
    /\ IF Count >= remaining
         THEN Goto("shrink") /\ UNCHANGED <<iter, cursor, prevRemaining>>
         ELSE NextPass(FALSE)
    /\ UNCHANGED <<opts, prevSig, remaining, entries, bstep, pageVars, aborted, histVars>>

\* Bug variant: no time limit.
ShrinkForever ==
    /\ pc = "shrink" /\ Count < remaining
    /\ Goto("recheck")
    /\ UNCHANGED <<opts, loopVars, pageVars, aborted, histVars>>

\* The last match is waited for to detach, LOOP_SHRINK_WAIT_MS at most.
Shrink ==
    /\ pc = "shrink"
    /\ Goto("recheck")
    /\ upset' = (upset \/ (Count >= remaining /\ leaving # {}))
    /\ UNCHANGED <<opts, loopVars, pageVars, aborted, acted, again, skipped>>

Recheck ==
    /\ pc = "recheck"
    /\ NextPass(Count >= remaining)
    /\ UNCHANGED <<opts, prevSig, remaining, entries, bstep, pageVars, aborted, histVars>>

\* Bug variant: the records passed over count as left.
AllMatches == Count

Left == Count - cursor

\* The cap was used up: count what is left.
Budget ==
    /\ pc = "budget"
    /\ \/ End(IF opts.scope = "drain" THEN "unread" ELSE "partial", -1)
       \/ Left > 0 /\ End(IF opts.scope = "drain" THEN "unfinished" ELSE "partial", Left)
       \/ Left <= 0 /\ End("complete", -1)
    /\ UNCHANGED <<opts, loopVars, pageVars, aborted, histVars>>

\* No record was left: a drain asks whether the page shows them all.
Coverage ==
    /\ pc = "coverage"
    /\ \/ End("complete", -1)
       \/ opts.scope = "drain" /\ End("partial", -1)
    /\ UNCHANGED <<opts, loopVars, pageVars, aborted, histVars>>

----------------------------------------------------------------------------
\* The row of a consumed record leaves, and another may be shown instead.
RowLeaves ==
    /\ \E r \in leaving : \E new \in {{}} \cup {{x} : x \in Refill \ shown} :
         /\ \A x \in new : \A y \in shown : <<BodySteps, x>> \notin acted /\ x \notin skipped /\ x > y
         /\ shown' = (shown \ {r}) \cup new
         /\ leaving' = leaving \ {r}
         /\ upset' = (upset \/ new # {})
    /\ UNCHANGED <<opts, pc, loopVars, outcome, rendered, aborted, acted, again, skipped>>

Render ==
    /\ ~rendered /\ rendered' = TRUE
    /\ UNCHANGED <<opts, pc, loopVars, outcome, shown, leaving, aborted, histVars>>

\* stop, or the instruction's deadline.
Abort ==
    /\ ~aborted /\ pc # "done"
    /\ aborted' = TRUE
    /\ UNCHANGED <<opts, pc, loopVars, outcome, pageVars, histVars>>

Loop ==
    \/ Top \/ Unread \/ Observe \/ Repeated \/ Act \/ Skip \/ BodyStops \/ After
    \/ Recount \/ Shrink \/ Recheck \/ Budget \/ Coverage

Next == Loop \/ RowLeaves \/ Render \/ Abort

Spec == Init /\ [][Next]_vars

\* Every hook returns: counts and waits have their own timeouts.
LiveSpec == Spec /\ WF_vars(Loop)

----------------------------------------------------------------------------
Done(r) == <<BodySteps, r>> \in acted

\* A pass that skipped its last step passes for one that did its record.
PassedFor(r) == Done(r) \/ r \in skipped

\* A loop that says complete gave every record there was a pass, which did it or
\* skipped its last step, whatever the body consumed or left and however late the
\* list was rendered or a row left; unless the loop was upset (a row left after
\* the wait, another took its place, or a pinned body skipped a step unfound).
CompleteMeansDone ==
    outcome.state = "complete" /\ ~upset => \A r \in Record : PassedFor(r)

\* A loop that reports what is left counts the records no pass was spent on.
LeftMeansLeft ==
    outcome.left # -1 /\ ~upset => outcome.left = Cardinality({r \in shown : ~PassedFor(r)})

\* Under the same exception, the body's last step never acts on a record
\* twice: the cursor passes no record it acts on again, and a body pinned to
\* one row is refused before it acts on that row again.
NeverTwice == ~upset => \A r \in Row : <<BodySteps, r>> \notin again

\* What is reported is right and no record is done twice, in a state of the
\* right types.
LoopOK == TypeOK /\ LeftMeansLeft /\ CompleteMeansDone /\ NeverTwice

\* The loop ends, whatever the page does.
LoopEnds == <>(pc = "done")
=============================================================================
