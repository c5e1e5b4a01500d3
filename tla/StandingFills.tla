---------------------------- MODULE StandingFills ----------------------------
(***************************************************************************)
(* The ledger of standing fills (src/execution/refill.ts): what a replay   *)
(* filled must still be in its fields when the action that submits them    *)
(* goes, though the page may replace its document at any moment.           *)
(*                                                                         *)
(* A recording of gestures on a form, ending with the submit the app took, *)
(* is replayed step by step (runStepBody, src/skills/replay.ts) on a page  *)
(* that may reload beside it and builds its form anew.  The form, its      *)
(* fields and the server are the environment: a field of Keyed drops, when *)
(* focus leaves it, what was not typed key by key, and the app empties     *)
(* Empties[f] when f is filled.  No field drives a popup.                  *)
(***************************************************************************)
EXTENDS Integers, Sequences, FiniteSets

CONSTANTS
    Fields, Values, Nil,
    Keyed, Empties,
    Required,    \* the fields without which the form is refused
    Recordings,  \* sequences of steps [tool, on, value, seen]
    MaxReloads   \* documents replaced during a replay: a bound

ASSUME FormAssumption ==
    /\ Keyed \cup Required \subseteq Fields
    /\ Empties \in [Fields -> SUBSET Fields] /\ \A f \in Fields : f \notin Empties[f]
    /\ Nil \notin Fields \cup Values /\ MaxReloads \in Nat

VARIABLES
    page, net,        \* the page; the form on its way to the server
    rec, lands,       \* the recording; its form leads to the record, or stays
    phase, n,         \* the step at work
    fills, submitted, \* the ledger
    check,            \* restoreStandingFills at work
    before,           \* the document the last step was sent to
    repeated,         \* steps run again (resubmitted, refilled)
    \* history
    gone,             \* fields whose text went with a document and was in no ledger
    unseen,           \* fields the last check did not look at, in the present document
    astray,           \* fields typed onto a text, in the recording or against the ledger
    slow,             \* an answer or a field was waited for in vain
    posts             \* the forms the server took

ledger == <<fills, submitted, check>>
history == <<gone, unseen, astray, slow>>
fillsVars == <<page, net, rec, lands, phase, n, ledger, before, repeated, history, posts>>

Submits == {"save", "press", "pick"}  \* pick: a click that submits nothing
Retires == {"check"}
Page == [doc : 1..MaxReloads + 1, built : SUBSET Fields, val : [Fields -> Seq(Values)], soft : SUBSET Fields,
         focus : Fields \cup {Nil}, at : {"form", "record"}, row : BOOLEAN]
Fill == [on : Fields, value : Values, doc : 1..MaxReloads + 1]
Nothing == [fills |-> <<>>, doc |-> 0]
NoForm == [at |-> "none"]
step == rec[n]

FillsTypeOK ==
    /\ page \in Page
    /\ phase \in {"step", "look", "set", "confirm", "act", "judge", "note", "lost", "done", "stopped", "torn"}
    /\ n \in DOMAIN rec /\ fills \in Seq(Fill) /\ submitted.fills \in Seq(Fill) /\ check.fills \in Seq(Fill)
    /\ repeated \subseteq DOMAIN rec /\ gone \cup unseen \cup astray \subseteq Fields

----------------------------------------------------------------------------
(* The form                                                                *)

Document(d, built, row) ==
    [doc |-> d, built |-> built, val |-> [f \in Fields |-> <<>>], soft |-> {}, focus |-> Nil, at |-> "form", row |-> row]

\* A widget with a copy of its own, built from keys, rebuilds its field from
\* that copy when focus leaves it.
Blur(p) == [p EXCEPT !.focus = Nil, !.val = [f \in Fields |-> IF f = p.focus /\ f \in p.soft THEN <<>> ELSE @[f]],
                     !.soft = @ \ {p.focus}]
Focus(p, f) == IF p.focus = f THEN p ELSE [Blur(p) EXCEPT !.focus = f]
Holding(p, f, text, soft) ==
    LET emptied == IF text = <<>> THEN {} ELSE Empties[f]
    IN  [p EXCEPT !.val = [g \in Fields |-> IF g = f THEN text ELSE IF g \in emptied THEN <<>> ELSE @[g]],
                  !.soft = (IF soft THEN @ \cup {f} ELSE @ \ {f}) \ emptied]

TextOf(value) == IF value = Nil THEN <<>> ELSE <<value>>
\* Focus, then the native setter.
reactSafeFill(p, f, value) == Holding(Focus(p, f), f, TextOf(value), f \in Keyed /\ value # Nil)
\* Clear the field, then key by key.
typeInto(p, f, value) == Holding(Focus(p, f), f, <<value>>, FALSE)
\* Keys go on from what is there; the widget knows of its own copy only.
Typed(p, f, value) ==
    LET q == Focus(p, f) IN Holding(q, f, (IF f \in q.soft THEN <<>> ELSE q.val[f]) \o <<value>>, FALSE)
\* A click takes focus away, a key goes to its field.
Pressed(p, s) == IF s.tool = "press" THEN Focus(p, s.on) ELSE Blur(p)
FormOf(p) == [f \in Fields |-> IF f \in p.soft THEN <<>> ELSE p.val[f]]
Takes(form) == \A f \in Required : form[f] # <<>>

----------------------------------------------------------------------------
(* What the recording did and saw                                          *)

Gesture(p, s) ==
    CASE s.tool = "fill" -> reactSafeFill(p, s.on, s.value)
      [] s.tool = "type" -> Typed(p, s.on, s.value)
      [] OTHER -> Pressed(p, s)

\* The page as the recorder saw it after each step, in one document.
Seen(r, i) == IF i = 0 THEN Document(1, Fields, FALSE) ELSE r[i].seen
Recorded(i) == Seen(rec, i)
Sent(r) == FormOf(Seen(r, Len(r)))

Given(s) ==
    /\ s.tool \in {"fill", "type", "press"} => s.on \in Fields
    /\ s.tool = "type" => s.value \in Values
Step ==
    [tool : {"fill", "type"} \cup Submits \cup Retires, on : Fields \cup {Nil}, value : Values \cup {Nil}, seen : Page]

ASSUME RecordingsAssumption ==
    \A r \in Recordings :
        /\ r \in Seq(Step) /\ Len(r) > 0 /\ r[Len(r)].tool \in {"save", "press"} /\ Takes(Sent(r))
        /\ \A i \in 1..Len(r) - 1 : r[i].tool \notin {"save", "press"}
        /\ \A i \in DOMAIN r : Given(r[i]) /\ r[i].seen = Gesture(Seen(r, i - 1), r[i])

Enters(s, f) == s.tool \in {"fill", "type"} /\ s.on = f
\* The recording sent, in field f, what it last put there; and if that was
\* nothing, no fill of f was standing any more when it did.
Sure(f) ==
    \/ \A i \in DOMAIN rec : ~Enters(rec[i], f)
    \/ \E i \in DOMAIN rec :
        /\ Enters(rec[i], f) /\ \A j \in i + 1..Len(rec) : ~Enters(rec[j], f)
        /\ Sent(rec)[f] = TextOf(rec[i].value)
        /\ rec[i].value = Nil =>
            \A j \in 1..i - 1 : rec[j].tool = "fill" /\ rec[j].on = f /\ rec[j].value # Nil =>
                \E k \in j + 1..i - 1 : rec[k].tool \in Submits \cup Retires

----------------------------------------------------------------------------
(* Ahead of a step: restoreStandingFills                                   *)

\* Bug variant: the page is looked at as it is.
AsItIs(p) == p
blurFirst(p) == IF step.tool = "press" THEN p ELSE Blur(p)

\* A retiring action empties the ledger without looking at the fields.
Forgotten ==
    {f \in {fills[i].on : i \in DOMAIN fills} : step.tool \in Retires /\ page.doc > 1 /\ page.val[f] = <<>>}

Restore ==
    /\ phase = "step"
    /\ \/ /\ step.tool \in Submits /\ fills # <<>>
          /\ check' = [fills |-> fills, doc |-> page.doc, pass |-> 1, i |-> 1]
          /\ page' = blurFirst(page) /\ phase' = "look"
       \/ /\ step.tool \notin Submits \/ fills = <<>>
          /\ phase' = "act" /\ UNCHANGED <<page, check>>
    /\ IF step.tool \in Submits \cup Retires
       THEN /\ fills' = <<>> /\ submitted' = Nothing /\ unseen' = {}
            /\ gone' = gone \cup (unseen \ {fills[i].on : i \in DOMAIN fills}) \cup Forgotten
       ELSE UNCHANGED <<fills, submitted, unseen, gone>>
    /\ UNCHANGED <<net, rec, lands, n, before, repeated, astray, slow, posts>>

entry == check.fills[check.i]
NextEntry == check' = [check EXCEPT !.i = @ + 1] /\ phase' = "look"

\* A field that is not there is left alone; one whose document was replaced
\* is waited for first.
Look ==
    /\ phase = "look" /\ check.i <= Len(check.fills)
    /\ \/ /\ entry.on \in page.built /\ page.val[entry.on] # <<>>
          /\ NextEntry /\ UNCHANGED <<unseen, slow>>
       \/ /\ entry.on \in page.built /\ page.val[entry.on] = <<>>
          /\ phase' = "set" /\ UNCHANGED <<check, unseen, slow>>
       \/ /\ entry.on \notin page.built
          /\ NextEntry /\ unseen' = unseen \cup {entry.on} /\ slow' = (slow \/ entry.doc # check.doc)
    /\ UNCHANGED <<page, net, rec, lands, n, fills, submitted, before, repeated, gone, astray, posts>>

\* Fields a refill leaves empty, and whose text the check does not come to
\* after it: the app empties them, or, ahead of a key, they lose focus.
Swept(p) ==
    {g \in Fields :
        /\ page.val[g] # <<>> /\ p.val[g] = <<>>
        /\ g \in Empties[entry.on] \/ step.tool = "press"
        /\ \A j \in check.i + 1..Len(check.fills) : check.fills[j].on = g => page.val[g] # <<check.fills[j].value>>}

SetAgain ==
    /\ phase = "set"
    /\ \/ /\ entry.on \in page.built
          /\ page' = blurFirst(reactSafeFill(page, entry.on, entry.value))
          /\ phase' = "confirm" /\ gone' = gone \cup Swept(page') /\ UNCHANGED <<check, unseen, slow>>
       \/ /\ entry.on \notin page.built
          /\ NextEntry /\ unseen' = unseen \cup {entry.on} /\ slow' = TRUE /\ UNCHANGED <<page, gone>>
    /\ UNCHANGED <<net, rec, lands, n, fills, submitted, before, repeated, astray, posts>>

\* Set, and gone again at the blur: typed, as a person would.
Confirm ==
    /\ phase = "confirm"
    /\ \/ /\ entry.on \in page.built /\ page.val[entry.on] # <<>>
          /\ UNCHANGED <<page, gone, unseen, slow>>
       \/ /\ entry.on \in page.built /\ page.val[entry.on] = <<>>
          /\ page' = blurFirst(typeInto(page, entry.on, entry.value))
          /\ gone' = gone \cup Swept(page') /\ UNCHANGED <<unseen, slow>>
       \/ /\ entry.on \notin page.built
          /\ unseen' = unseen \cup {entry.on} /\ slow' = TRUE /\ UNCHANGED <<page, gone>>
    /\ NextEntry
    /\ UNCHANGED <<net, rec, lands, n, fills, submitted, before, repeated, astray, posts>>

\* A document that came in during the check is checked as well, once.
\* Bug variant: the page is checked once.
OnePass == FALSE
Again == check.pass = 1 /\ page.doc # check.doc
EndCheck ==
    /\ phase = "look" /\ check.i > Len(check.fills)
    /\ IF Again
       THEN /\ check' = [check EXCEPT !.doc = page.doc, !.pass = 2, !.i = 1]
            /\ page' = blurFirst(page) /\ unseen' = {} /\ UNCHANGED <<phase, submitted>>
       ELSE /\ submitted' = [fills |-> check.fills, doc |-> page.doc]
            /\ phase' = "act" /\ UNCHANGED <<check, page, unseen>>
    /\ UNCHANGED <<net, rec, lands, n, fills, before, repeated, gone, astray, slow, posts>>

----------------------------------------------------------------------------
(* The step itself (runStepBody)                                           *)

filledBy(f) == \E i \in DOMAIN fills : fills[i].on = f
TakenBy(f) == \E i \in DOMAIN submitted.fills : submitted.fills[i].on = f
Has(text, value) == \E i \in DOMAIN text : text[i] = value

\* Bug variant: a type keeps off its own value only.
OffItsOwn(s) == Has(page.val[s.on], s.value)
\* guardedTyping: a type never goes onto its own value, nor onto what this
\* segment filled.
Clears(s) == Has(page.val[s.on], s.value) \/ filledBy(s.on) \/ TakenBy(s.on)
Cleared(s) ==
    IF page.val[s.on] # <<>> /\ Clears(s) THEN Holding(Focus(page, s.on), s.on, <<>>, FALSE) ELSE page
\* What is there is the value itself, or of a fill in the ledger.
Known(s) == page.val[s.on] = <<>> \/ Has(page.val[s.on], s.value) \/ filledBy(s.on) \/ TakenBy(s.on)

\* The fields are built one by one; the record's page has none.
Reachable(s) == page.at = "form" /\ (s.tool \in {"fill", "type", "press"} => s.on \in page.built)

Perform ==
    /\ phase = "act" /\ Reachable(step)
    /\ LET s == step
       IN  \/ /\ s.tool = "fill"
              /\ page' = reactSafeFill(page, s.on, s.value)
              /\ gone' = gone \ {s.on} /\ UNCHANGED <<net, astray>>
           \/ /\ s.tool = "type"
              /\ page' = Typed(Cleared(s), s.on, s.value)
              /\ astray' = IF Recorded(n - 1).val[s.on] = <<>> /\ Known(s) THEN astray ELSE astray \cup {s.on}
              /\ gone' = IF page'.val[s.on] = <<s.value>> THEN gone \ {s.on} ELSE gone
              /\ UNCHANGED net
           \/ /\ s.tool \in Submits \cup Retires
              /\ page' = Pressed(page, s)
              /\ gone' = gone \cup {g \in Fields : s.tool = "press" /\ page.val[g] # FormOf(page')[g]}
              /\ net' = IF s.tool \in {"save", "press"} /\ Takes(FormOf(page'))
                        THEN [at |-> "sent", form |-> FormOf(page'), excused |-> gone' \cup unseen]
                        ELSE net
              /\ UNCHANGED astray
    /\ phase' = "judge" /\ before' = page.doc
    /\ UNCHANGED <<rec, lands, n, ledger, repeated, unseen, slow, posts>>

\* The field, or the one a key is to go to, is not built in time, or the
\* form is not there any more.
NoTarget ==
    /\ phase = "act" /\ ~Reachable(step)
    /\ phase' = "stopped" /\ slow' = TRUE
    /\ UNCHANGED <<page, net, rec, lands, n, ledger, before, repeated, gone, unseen, astray, posts>>

\* A document replaced under the call that acts: it throws, and the replay
\* stops before anything is asked of the ledger.
Thrown ==
    /\ phase = "judge" /\ page.doc # before
    /\ phase' = "torn"
    /\ UNCHANGED <<page, net, rec, lands, n, ledger, before, repeated, history, posts>>

Shown == IF lands THEN page.at = "record" ELSE page.row
Onward == IF n = Len(rec) THEN phase' = "done" /\ UNCHANGED n ELSE phase' = "step" /\ n' = n + 1
Stop == phase' = "stopped" /\ UNCHANGED n

\* fillLost: the document the fill ran in was replaced.
fillLost == n \notin repeated /\ page.doc # before

Judge ==
    /\ phase = "judge"
    /\ LET s == step
       IN  \/ /\ s.tool = "fill" /\ page.val[s.on] = TextOf(s.value)
              /\ phase' = "note" /\ UNCHANGED <<n, repeated, slow>>
           \/ /\ s.tool = "fill" /\ page.val[s.on] # TextOf(s.value)
              /\ IF fillLost THEN repeated' = repeated \cup {n} /\ phase' = "step" /\ UNCHANGED n
                 ELSE Stop /\ UNCHANGED repeated
              /\ UNCHANGED slow
           \/ /\ s.tool = "type"
              /\ IF page.val[s.on] = Recorded(n).val[s.on] THEN Onward ELSE Stop
              /\ UNCHANGED <<repeated, slow>>
           \/ /\ s.tool \in {"pick", "check"} /\ Onward /\ UNCHANGED <<repeated, slow>>
           \/ /\ s.tool \in {"save", "press"} /\ Shown /\ Onward /\ UNCHANGED <<repeated, slow>>
           \/ /\ s.tool \in {"save", "press"} /\ ~Shown /\ UNCHANGED <<n, repeated>>
              /\ slow' = (slow \/ net.at # "none")
              \* only the url gate's stop is asked about
              /\ phase' = IF lands /\ n \notin repeated THEN "lost" ELSE "stopped"
    /\ UNCHANGED <<page, net, rec, lands, ledger, before, gone, unseen, astray, posts>>

\* An earlier fill of the same field stands no more.
Others(f) ==
    IF ~filledBy(f) THEN fills
    ELSE LET at == CHOOSE i \in DOMAIN fills : fills[i].on = f /\ \A j \in 1..i - 1 : fills[j].on # f
         IN  SubSeq(fills, 1, at - 1) \o SubSeq(fills, at + 1, Len(fills))

Note ==
    /\ phase = "note"
    /\ fills' = IF step.value = Nil THEN fills
               ELSE Append(Others(step.on), [on |-> step.on, value |-> step.value, doc |-> page.doc])
    /\ Onward
    /\ UNCHANGED <<page, net, rec, lands, submitted, check, before, repeated, history, posts>>

SentFields == {submitted.fills[i].on : i \in DOMAIN submitted.fills}
\* Bug variant: an empty form will do.
FormEmpty == submitted.fills # <<>> /\ page.at = "form" /\ \A f \in SentFields : page.val[f] = <<>>
\* The submit is taken for lost: the document it went out from is gone, and
\* every field filled is there again, and empty.
standingFillsLost ==
    /\ submitted.fills # <<>> /\ page.at = "form" /\ page.doc # submitted.doc
    /\ \A f \in SentFields : page.val[f] = <<>>

Lost ==
    /\ phase = "lost"
    /\ \/ /\ standingFillsLost /\ SentFields \subseteq page.built
          /\ fills' = submitted.fills /\ submitted' = Nothing
          /\ repeated' = repeated \cup {n} /\ phase' = "step" /\ UNCHANGED slow
       \/ /\ ~standingFillsLost
          /\ phase' = "stopped" /\ UNCHANGED <<fills, submitted, repeated, slow>>
       \/ /\ standingFillsLost /\ ~(SentFields \subseteq page.built)
          /\ phase' = "stopped" /\ slow' = TRUE /\ UNCHANGED <<fills, submitted, repeated>>
    /\ UNCHANGED <<page, net, rec, lands, n, check, before, gone, unseen, astray, posts>>

----------------------------------------------------------------------------
(* The page and the server                                                 *)

Checking == phase \in {"look", "set", "confirm"}
Entries ==
    fills \o (IF Checking THEN check.fills ELSE <<>>)
    \o (IF phase # "step" /\ step.tool \in {"save", "press"} THEN submitted.fills ELSE <<>>)
Filling(f) == phase \in {"judge", "note"} /\ step.tool = "fill" /\ step.on = f
Typing(f) == phase = "judge" /\ step.tool = "type" /\ step.on = f
\* Fields with a text that no ledger, nor the fill at work, will bring back.
Unkept ==
    {f \in Fields :
        /\ page.val[f] # <<>> /\ ~Filling(f)
        /\ Typing(f) \/ \A i \in DOMAIN Entries : Entries[i].on = f => page.val[f] # <<Entries[i].value>>}

Running == phase \notin {"done", "stopped", "torn"}

Reload ==
    /\ Running /\ page.at = "form" /\ page.doc <= MaxReloads
    /\ page' = Document(page.doc + 1, {}, posts # <<>>)
    /\ net' = NoForm
    /\ posts' = IF net.at = "taken" THEN [posts EXCEPT ![Len(posts)].cut = TRUE] ELSE posts
    /\ gone' = gone \cup Unkept
    /\ unseen' = IF phase = "act" \/ (Checking /\ check.pass = 2) THEN unseen \cup {f \in Fields : page.val[f] # <<>>} ELSE unseen
    /\ UNCHANGED <<rec, lands, phase, n, ledger, before, repeated, astray, slow>>

Build(f) ==
    /\ Running /\ page.at = "form" /\ f \notin page.built
    /\ page' = [page EXCEPT !.built = @ \cup {f}]
    /\ UNCHANGED <<net, rec, lands, phase, n, ledger, before, repeated, history, posts>>

Arrive ==
    /\ Running /\ net.at = "sent"
    /\ net' = [net EXCEPT !.at = "taken"]
    /\ posts' = Append(posts, [form |-> net.form, excused |-> net.excused, cut |-> FALSE])
    /\ UNCHANGED <<page, rec, lands, phase, n, ledger, before, repeated, history>>

\* The app empties its form before the answer shows.  What a check has seen
\* or put back by then is not looked at again.
Reset ==
    /\ Running /\ net.at = "taken" /\ page.val # [f \in Fields |-> <<>>]
    /\ page' = [page EXCEPT !.val = [f \in Fields |-> <<>>], !.soft = {}]
    /\ gone' = gone \cup IF Checking \/ phase = "act" THEN {f \in Fields : page.val[f] # <<>>} ELSE Unkept
    /\ UNCHANGED <<net, rec, lands, phase, n, ledger, before, repeated, unseen, astray, slow, posts>>

Land ==
    /\ Running /\ net.at = "taken"
    /\ net' = NoForm
    /\ page' = [Document(page.doc, page.built, ~lands \/ page.row) EXCEPT !.at = IF lands THEN "record" ELSE "form"]
    /\ UNCHANGED <<rec, lands, phase, n, ledger, before, repeated, history, posts>>

FillsInit ==
    /\ page = Document(1, Fields, FALSE) /\ net = NoForm
    /\ rec \in Recordings /\ lands \in BOOLEAN
    /\ phase = "step" /\ n = 1
    /\ fills = <<>> /\ submitted = Nothing /\ check = Nothing
    /\ before = 1 /\ repeated = {}
    /\ gone = {} /\ unseen = {} /\ astray = {} /\ slow = FALSE /\ posts = <<>>

Replay == Restore \/ Look \/ SetAgain \/ Confirm \/ EndCheck \/ Perform \/ Thrown \/ NoTarget \/ Judge \/ Note \/ Lost
Environment == Reload \/ Arrive \/ Reset \/ Land \/ \E f \in Fields : Build(f)
FillsNext == Replay \/ Environment
FillsSpec == FillsInit /\ [][FillsNext]_fillsVars

----------------------------------------------------------------------------
(* Properties                                                              *)

\* A form the server took holds, in each field, what the recording sent there
\* -- whatever was reloaded, dropped at a blur, emptied by the app or typed
\* key by key on the way.  Excepted are fields whose text no ledger held
\* when their document went, fields the last check could not see, and values
\* the recording itself did not send as it entered them.
SentWhole ==
    \A i \in DOMAIN posts : \A f \in Fields \ posts[i].excused :
        Sure(f) => posts[i].form[f] = Sent(rec)[f]

\* The server takes a second form from one submit only if a reload cut off
\* the answer to the first, or the first had nothing in it (and nothing was
\* required).
SentOnce == \A i \in 2..Len(posts) : posts[i - 1].cut \/ \A f \in Fields : posts[i - 1].form[f] = <<>>

\* One reload does not stop a replay of a form that is sent with some text in
\* it and leads to its record, as long as nothing was saved: where it stops,
\* the document went under a call that was acting, something was waited for in
\* vain, a text was lost that no ledger held, or came in after the check
\* looked, or keys went onto another text.
Robust ==
    phase \in {"stopped", "torn"} /\ page.doc <= 2 /\ lands /\ posts = <<>> /\ (\E f \in Fields : Sent(rec)[f] # <<>>) =>
        phase = "torn" \/ slow \/ gone # {} \/ unseen # {} \/ astray # {}

FillsOK ==
    /\ FillsTypeOK /\ SentOnce
    /\ phase = "done" => posts # <<>>
============================================================================
