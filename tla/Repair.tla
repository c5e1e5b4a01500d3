------------------------------- MODULE Repair -------------------------------
(***************************************************************************)
(* The repair of a compiled flow whose page has drifted: `sitelooper       *)
(* repair` (repairFlowCommand, src/cli.ts) over the staged store, with     *)
(* what a replay leaves behind about each locator it tried                 *)
(* (src/execution/resolve.ts, src/skills/replay.ts), the drain of a run's  *)
(* drift tickets (src/skills/repair.ts) and the evidence codemod           *)
(* (src/spec/repair.ts).  One step is followed, through its chain of       *)
(* locators; what the steps after it do is anything.                       *)
(*                                                                         *)
(* The first run's ticket may promote a fallback or patch the step; after  *)
(* every run the evidence is folded in and the chain reordered by it;      *)
(* Converge further runs must come out clean before the file is written.   *)
(***************************************************************************)
EXTENDS Integers, Sequences, FiniteSets

CONSTANTS
    Chains,     \* the chains a flow file may carry, best locator first
    Rank,       \* candidateRank: 0 inside a record, 1 by a name, 2 by a path, 3 by a point
    Positional, \* the locators whose expression reads as a position
    Templated,  \* the locators that carry a slot of the run
    Pages,      \* what each locator may match in a run
    Converge,   \* --converge
    None

Cand == DOMAIN Rank
Named == {c \in Cand : Rank[c] < 2}
Unseen == [c \in Cand |-> "none"]
Page == [Cand -> {"one", "several", "none"}]

Entry == [c : Cand, hit : Nat, miss : Nat]

ASSUME KindsAssumption ==
    /\ Rank \in [Cand -> Nat] /\ Positional \cap Named = {} /\ Templated \subseteq Cand /\ None \notin Cand
    /\ Chains \subseteq Seq(Entry) \ {<<>>} /\ Pages \subseteq Page /\ Converge \in Nat

VARIABLES
    chain, first,    \* the step's locators with what was seen of each; the leading one at the start
    want,            \* its expectation still stands
    demoted,         \* so does its procedure
    looped,          \* it is a step of a folded loop
    pc, n,           \* the run: 0 is the one that is drained
    page, unfilled,  \* what each locator matches in this run; those without a value for their slot
    res,             \* how the run came out
    ticket, variant, \* its drift ticket; the patched variant's locator
    rerecord,        \* the drain asks for a new recording
    log,             \* run by run: how the step was done, as the report has it
    flagged, end,
    \* history
    hits, misses,    \* in how many runs a locator answered, or was tried in vain
    shifted          \* evidence was counted for another locator than the one it is about

procedure == <<chain, want, demoted>>
given == <<first, looped>>
world == <<page, unfilled>>
history == <<hits, misses, shifted>>
vars == <<procedure, given, pc, n, world, res, ticket, variant, rerecord, log, flagged, end, history>>

NoRun == [answer |-> None, at |-> 0, missed |-> {}, healed |-> FALSE, ok |-> FALSE, recovered |-> FALSE]
Ends == {"none", "written", "expectation", "drift", "rerecord"}

\* Missed twice, and never once resolved.
Retired(e) == e.hit = 0 /\ e.miss >= 2

TypeOK ==
    /\ chain \in Seq(Entry) /\ chain # <<>> /\ first \in Cand
    /\ {want, demoted, looped, rerecord, flagged, shifted} \subseteq BOOLEAN
    /\ pc \in {"run", "resolve", "bank", "recover", "drain", "fold", "evidence", "gate", "done"}
    /\ n \in 0..Converge /\ page \in Page /\ unfilled \subseteq Templated
    /\ res.answer \in Cand \cup {None} /\ res.missed \subseteq DOMAIN chain
    /\ variant \in Cand \cup {None} /\ log \in Seq({"replayed", "helped", "recovered"}) /\ end \in Ends
    /\ hits \in [Cand -> Nat] /\ misses \in [Cand -> Nat]

Where(s, c) == {i \in DOMAIN s : s[i].c = c}
Earlier(c, field) ==
    LET seen == {chain[i][field] : i \in Where(chain, c)}
    IN  IF seen = {} THEN 0 ELSE CHOOSE m \in seen : \A x \in seen : x <= m

\* What was seen in earlier sessions is in the file.
Init ==
    /\ chain \in Chains /\ first = chain[1].c
    /\ want = TRUE /\ demoted = FALSE /\ looped \in BOOLEAN
    /\ pc = "run" /\ n = 0 /\ page = Unseen /\ unfilled = {}
    /\ res = NoRun /\ ticket = None /\ variant = None /\ rerecord = FALSE
    /\ log = <<>> /\ flagged = FALSE /\ end = "none"
    /\ hits = [c \in Cand |-> Earlier(c, "hit")] /\ misses = [c \in Cand |-> Earlier(c, "miss")]
    /\ shifted = FALSE

-----------------------------------------------------------------------------
(* A run of the staged flow                                                *)

\* The members of a set, by how many come before each.
Listed(S, before) ==
    [k \in 1..Cardinality(S) |-> CHOOSE i \in S : Cardinality({j \in S : <<j, i>> \in before}) = k - 1]

\* A rung whose slot this run has no value for is not tried.
Kept == {i \in DOMAIN chain : chain[i].c \notin unfilled}
Fill == LET kept == Listed(Kept, {p \in Kept \X Kept : p[1] < p[2]}) IN [k \in DOMAIN kept |-> chain[kept[k]]]

Less(a, b) == \E k \in DOMAIN a : a[k] < b[k] /\ \A j \in 1..(k - 1) : a[j] = b[j]

\* The order they are tried in: by kind, the retired ones last of theirs.
Turn(s, i) == <<Rank[s[i].c], IF Retired(s[i]) THEN 1 ELSE 0, i>>
Before(s, i) == {j \in DOMAIN s : Less(Turn(s, j), Turn(s, i))}

\* In a loop the cursor picks among several.
Resolves(c) == page[c] = "one" \/ (looped /\ page[c] = "several")
Answering(s) == {i \in DOMAIN s : Resolves(s[i].c) /\ \A j \in Before(s, i) : ~Resolves(s[j].c)}

\* The run reaches the step, with the page and the values it has.
Reach ==
    /\ pc = "run" /\ pc' = "resolve"
    /\ page' \in Pages /\ unfilled' \in SUBSET Templated
    /\ UNCHANGED <<procedure, given, n, res, ticket, variant, rerecord, log, flagged, end, history>>

\* Another procedure is chosen for the step, and does its work.  The report
\* does not say so.
CoveredByOther ==
    /\ pc = "run" /\ pc' = "drain"
    /\ res' = [res EXCEPT !.ok = TRUE] /\ log' = Append(log, "replayed")
    /\ UNCHANGED <<procedure, given, n, world, ticket, variant, rerecord, flagged, end, history>>

\* The replay stops before it comes to the step.
StopsBefore ==
    /\ pc = "run" /\ pc' = "recover"
    /\ UNCHANGED <<procedure, given, n, world, res, ticket, variant, rerecord, log, flagged, end, history>>

Tried(missed) ==
    misses' = [c \in Cand |-> misses[c] + (IF \E i \in missed : Fill[i].c = c THEN 1 ELSE 0)]

\* A locator answers, and what comes after the step passes or does not.
Hit ==
    /\ pc = "resolve" /\ pc' = "bank"
    /\ \E i \in Answering(Fill), ok \in BOOLEAN :
          /\ res' = [NoRun EXCEPT !.answer = Fill[i].c, !.at = i, !.missed = Before(Fill, i), !.ok = ok]
          /\ hits' = [hits EXCEPT ![Fill[i].c] = @ + 1] /\ Tried(Before(Fill, i))
    /\ UNCHANGED <<procedure, given, n, world, ticket, variant, rerecord, log, flagged, end, shifted>>

\* None does.  A healer may find another on the page; a heal inside a loop is
\* never tried.  It counts the page's elements only, where the chain also
\* refuses one that is too far off, or not the record's.
Dead ==
    /\ pc = "resolve" /\ pc' = "bank" /\ Answering(Fill) = {}
    /\ \/ /\ ~looped /\ Fill # <<>>
          /\ \E c \in Cand, ok \in BOOLEAN :
                /\ page[c] # "several"
                /\ res' = [NoRun EXCEPT !.answer = c, !.missed = DOMAIN Fill, !.healed = TRUE, !.ok = ok]
       \/ res' = [NoRun EXCEPT !.missed = DOMAIN Fill]
    /\ Tried(DOMAIN Fill)
    /\ UNCHANGED <<procedure, given, n, world, ticket, variant, rerecord, log, flagged, end, hits, shifted>>

\* What the replay says of the locators, by their place in what it tried: the
\* hit and every miss where a name answered; below a path only the names that
\* matched several.
Named1(i) == Fill[i].c \in Named
HitAt == IF res.at # 0 /\ res.missed # {} /\ Named1(res.at) THEN {res.at} ELSE {}
MissedAt ==
    CASE res.at = 0 -> {}
      [] Named1(res.at) -> res.missed
      [] OTHER -> {i \in res.missed : Named1(i) /\ page[Fill[i].c] = "several"}

\* recordCandidateEvidence puts it down by the place in the stored chain, each
\* pass of a loop again, and only after a replay that passed.
Bump(e, hit, miss) == [c |-> e.c, hit |-> e.hit + hit, miss |-> e.miss + miss]
Banked(times) ==
    [i \in DOMAIN chain |->
        Bump(chain[i], IF i \in HitAt THEN times ELSE 0, IF i \in MissedAt THEN times ELSE 0)]

\* The first rung is named as the one that missed, whichever did.
DriftTicket ==
    IF res.missed # {} /\ (res.at > 1 \/ res.at = 0)
    THEN [missed |-> Fill[1].c, used |-> res.answer, at |-> res.at, healed |-> res.healed,
          banked |-> res.ok /\ HitAt = {} /\ 1 \in MissedAt]
    ELSE None

Bank ==
    /\ pc = "bank" /\ pc' = (IF res.ok THEN "drain" ELSE "recover")
    /\ \E times \in 1..(IF looped THEN 2 ELSE 1) : chain' = IF res.ok THEN Banked(times) ELSE chain
    /\ shifted' = (shifted \/ (res.ok /\ \E i \in HitAt \cup MissedAt : chain[i].c # Fill[i].c))
    /\ ticket' = DriftTicket
    /\ log' = IF res.ok THEN Append(log, "replayed") ELSE log
    /\ page' = Unseen /\ unfilled' = {} /\ res' = [res EXCEPT !.at = 0, !.missed = {}]
    /\ UNCHANGED <<want, demoted, given, n, variant, rerecord, flagged, end, hits, misses>>

\* A recovery has a ticket of its own, if no locator has one.
Stopped == [missed |-> None, used |-> None, at |-> 0, healed |-> FALSE, banked |-> FALSE]

\* The model does what the replay did not.  A stop it proves harmless may cost
\* the step an expectation; a stop that was not, the procedure its status.  A
\* step it finishes is a success at tier A all the same, where what the replay
\* left behind is kept: its tier, and its tickets.  A locator of another step
\* may have the ticket.
Recover ==
    /\ pc = "recover" /\ pc' = "drain"
    /\ \E good, kept \in BOOLEAN :
          /\ want' \in (IF good THEN {want, FALSE} ELSE {want})
          /\ demoted' \in {demoted, TRUE}
          /\ ticket' \in (IF ticket = None THEN {None, Stopped} ELSE IF kept THEN {ticket} ELSE {None})
          /\ log' = Append(log, IF good /\ kept THEN "helped" ELSE "recovered")
    /\ res' = [res EXCEPT !.recovered = TRUE]
    /\ UNCHANGED <<chain, given, n, world, variant, rerecord, flagged, end, history>>

-----------------------------------------------------------------------------
(* The drain of the first run's ticket                                     *)

Drains == pc = "drain" /\ n = 0 /\ ticket # None
ToFold == pc' = "fold" /\ UNCHANGED <<want, demoted, given, n, world, res, ticket, log, flagged, end, history>>

\* The fallback the ticket used, unless its place is taken by another.  One
\* with a slot cannot be compared.
Promotable(i) == i \in DOMAIN chain /\ i > 1 /\ (chain[i].c \in Templated \/ chain[i].c = ticket.used)
ToFront(i) == <<chain[i]>> \o SubSeq(chain, 1, i - 1) \o SubSeq(chain, i + 1, Len(chain))

Patched == ticket # None /\ ticket.missed # None /\ (ticket.healed \/ ticket.used = None \/ ticket.used \in Positional)
Promotes == ticket # None /\ ~ticket.healed /\ ticket.used # None /\ ticket.used \notin Positional

PromoteFallback ==
    /\ Drains /\ Promotes
    /\ chain' = IF Promotable(ticket.at) THEN ToFront(ticket.at) ELSE chain
    /\ ToFold /\ UNCHANGED <<variant, rerecord>>

\* The healed locator is taken, or a model proposes one; it must find one
\* element of the recorded kind on the page as it is now.
PatchSegment ==
    /\ Drains /\ Patched
    /\ IF ticket.healed /\ ~res.recovered THEN variant' \in {None, res.answer} ELSE variant' \in Cand \cup {None}
    /\ ToFold /\ UNCHANGED <<chain, rerecord>>

\* The page changed too much to patch locators.
AskRerecord == Drains /\ rerecord' = TRUE /\ ToFold /\ UNCHANGED <<chain, variant>>

\* There is nothing to patch, nothing to drain, or it is a later run.
Skip ==
    /\ pc = "drain" /\ (n = 0 => ~(Promotes \/ Patched))
    /\ ToFold /\ UNCHANGED <<chain, variant, rerecord>>

-----------------------------------------------------------------------------
(* The evidence codemod                                                    *)

\* foldPatchedVariants: the patch becomes the leading locator of the step.
FoldVariant ==
    /\ pc = "fold" /\ pc' = "evidence"
    /\ chain' = IF variant \in {None, chain[1].c} THEN chain
                ELSE <<[c |-> variant, hit |-> 0, miss |-> 0]>> \o chain
    /\ variant' = None
    /\ UNCHANGED <<want, demoted, given, n, world, res, ticket, rerecord, log, flagged, end, history>>

\* foldTicketEvidence: the miss of a chain the replay itself says nothing about.
ProvesAny == ticket # None /\ ticket.missed # None /\ ticket.used \in Positional \cup {None} \* bug: what the replay put down is put down again
Proves == ticket # None /\ ticket.missed # None /\ ~ticket.banked /\ ticket.used \in Positional \cup {None}
Folded ==
    [i \in DOMAIN chain |->
        IF Proves /\ Where(chain, ticket.missed) = {i} THEN Bump(chain[i], 0, 1) ELSE chain[i]]

\* orderByEvidence: what answered first, what is retired last; a path never
\* before a name that answered.
EvidenceRank(e) == IF e.hit > 0 THEN 0 ELSE IF Retired(e) THEN 2 ELSE 1
Clamped(e, anchored) == IF e.c \notin Named /\ anchored /\ EvidenceRank(e) = 0 THEN 1 ELSE EvidenceRank(e)
ClassRank(e) == IF e.c \in Named THEN Rank[e.c] ELSE 2
Anchored(s) == \E i \in DOMAIN s : s[i].c \in Named /\ s[i].hit > 0
Place(s, i) == <<Clamped(s[i], Anchored(s)), ClassRank(s[i]), i>>
Ordered(s) ==
    LET order == {p \in (DOMAIN s) \X (DOMAIN s) : Less(Place(s, p[1]), Place(s, p[2]))}
        places == Listed(DOMAIN s, order)
    IN  [k \in DOMAIN places |-> s[places[k]]]

FoldEvidence ==
    /\ pc = "evidence" /\ pc' = "gate"
    /\ chain' = Ordered(Folded)
    /\ UNCHANGED <<want, demoted, given, n, world, res, ticket, variant, rerecord, log, flagged, end, history>>

-----------------------------------------------------------------------------
(* The gates                                                               *)

\* A run the step did not come through on a replay alone.
Refused == \E k \in DOMAIN log : log[k] \in {"helped", "recovered"}

\* rerecordDiagnostics: the procedure is demoted, or was refused in some run and
\* the one that would be chosen now only reads.  That another did the work in
\* every run is not seen: the report names none, only a fraction of its steps.
FlagsCovered(readOnly) == readOnly /\ (demoted \/ Refused) \* bug: what covers a demoted pin is let pass
Flags(readOnly) == demoted \/ (readOnly /\ Refused)

\* A ticket about a locator that is retired is no news.
News ==
    /\ ticket # None
    /\ \/ ticket.missed = None
       \/ Cardinality(Where(chain, ticket.missed)) # 1
       \/ \E i \in Where(chain, ticket.missed) : ~Retired(chain[i])

\* notConverged: a success at tier A, and no news.
Clean == log[Len(log)] # "recovered" /\ ~News

\* Only a new leading locator is a change, and a retirement.
Changed == chain[1].c # first \/ \E i \in DOMAIN chain : Retired(chain[i])

Verdict(how) == end' = how /\ pc' = "done" /\ UNCHANGED <<n, res, ticket>>
NextRun == pc' = "run" /\ n' = n + 1 /\ res' = NoRun /\ ticket' = None /\ UNCHANGED end
Passed(flag) ==
    IF n < Converge THEN NextRun
    ELSE Verdict(IF ~want THEN "expectation" ELSE IF flag THEN "rerecord" ELSE "written")

\* After the first run nothing must be clean, but no expectation may be lost.
\* After the others the step must be, unless a new recording is needed anyway,
\* and so must the rest of the flow.
Gate ==
    /\ pc = "gate"
    /\ \E readOnly, rest \in BOOLEAN :
          /\ flagged' = (flagged \/ Flags(readOnly))
          /\ IF n = 0
             THEN IF ~want THEN Verdict("expectation")
                  ELSE IF rerecord /\ ~Changed THEN Verdict("rerecord") ELSE Passed(flagged')
             ELSE IF rest /\ (Clean \/ flagged') THEN Passed(flagged') ELSE Verdict("drift")
    /\ UNCHANGED <<procedure, given, world, variant, rerecord, log, history>>

Run == Reach \/ CoveredByOther \/ StopsBefore \/ Hit \/ Dead \/ Bank \/ Recover
Drain == PromoteFallback \/ PatchSegment \/ AskRerecord \/ Skip
Next == Run \/ Drain \/ FoldVariant \/ FoldEvidence \/ Gate
Spec == Init /\ [][Next]_vars

-----------------------------------------------------------------------------
(* Properties                                                              *)

\* What a name's entry says was seen: it is charged with no run in which it
\* was not tried in vain, and credited with none it did not answer, so that
\* one it retires missed in two runs; a step of a loop, or one whose evidence
\* went to another locator, apart (recordCandidateEvidence, foldTicketEvidence).
EvidenceIsTrue ==
    ~shifted /\ ~looped =>
        \A i \in DOMAIN chain : chain[i].c \in Named =>
            chain[i].hit <= hits[chain[i].c] /\ chain[i].miss <= misses[chain[i].c]

\* A path or a point never leads a chain with a name that has answered
\* (orderByEvidence).
NamesLead ==
    pc = "gate" /\ chain[1].c \notin Named => \A i \in DOMAIN chain : chain[i].c \in Named => chain[i].hit = 0

\* A file is written only over a step that kept its expectation and whose
\* procedure is not demoted.  Each run that had to be clean brought the step to
\* a success at tier A, by its own procedure, by another, or with a model that
\* finished a replay; and what the last of them was forgiven is one locator,
\* retired by then: if it is a name, it was tried in vain in two runs
\* (rerecordDiagnostics, notConverged, ticketIsNews).
WrittenMeans ==
    end = "written" =>
        /\ want /\ ~demoted
        /\ \A k \in DOMAIN log : k > 1 => log[k] # "recovered"
        /\ Converge > 0 /\ ticket # None =>
               \E i \in DOMAIN chain :
                  /\ chain[i].c = ticket.missed /\ Retired(chain[i])
                  /\ ~shifted /\ ~looped /\ ticket.missed \in Named => misses[ticket.missed] >= 2

\* The invariants of the module, for one run.
RepairOK == TypeOK /\ EvidenceIsTrue /\ NamesLead /\ WrittenMeans
=============================================================================
