----------------------------- MODULE FlowRunner -----------------------------
(***************************************************************************)
(* runFlow (src/daemon/server.ts): the steps of a recorded flow are played *)
(* back one after the other.  A step is replayed from the store without a  *)
(* model if it can be, otherwise a model carries it out; either way the    *)
(* store learns from it, and the step's pin may move to another procedure. *)
(* The pins that moved are written to the flow's file at the end.          *)
(*                                                                         *)
(* A procedure is a chain of segments; a pin names its head.  A replay is  *)
(* what Replay says of it: how it ended, and whether anything was sent.    *)
(***************************************************************************)
EXTENDS Integers, Sequences, FiniteSets

CONSTANTS
    Flow,         \* the steps: [kind, pin, asks, adopted]
    Procs, Fresh, \* procedures of the store, names for those a recovery compiles
    Length,       \* how many segments each has
    Acts,         \* the segments that change something
    Detours,      \* those passed over when the page is past them
    Stores,       \* the stores a run may begin with
    MaxAttempts,  \* MAX_CANDIDATE_ATTEMPTS
    None

Names == Procs \cup Fresh
Seg == UNION {{<<p, k>> : k \in 1..Length[p]} : p \in Names}
Status == {"absent", "provisional", "validated", "demoted"}
Nodes == DOMAIN Flow

ASSUME NamesAssumption == Procs \cap Fresh = {} /\ None \notin Seg /\ Length \in [Names -> Nat \ {0}]
ASSUME FlowAssumption ==
    /\ Flow \in Seq([kind : {"do", "assert"}, pin : Seg \cup {None}, asks : BOOLEAN, adopted : BOOLEAN])
    /\ Acts \subseteq Seg /\ Detours \subseteq Seg /\ Stores \subseteq [Seg -> Status]
    /\ Flow # <<>> /\ MaxAttempts \in Nat
ASSUME FreshAssumption == \A st \in Stores : \A f \in Fresh : \A k \in 1..Length[f] : st[<<f, k>>] = "absent"

VARIABLES
    store,     \* the status of every segment
    parent,    \* the segment a compiled procedure is a variant of
    pin, adopted,  \* the flow: the step's pin, the steps that were adopted
    pc, n,
    cands, attempts,   \* candidates left, and how many ran
    matched, sk,       \* the run of the chain's head; what is told of the replay
    pinPast,           \* the page is past where the pin starts
    status, stray,     \* the instruction's verdict; the model did much by hand
    outcome, compiled, \* what was learned of the replay, and of the recording
    results, pending, graduated, deferred, halted,
    \* history
    runs,              \* the replays of this step and what was banked of each
    late               \* the steps that took a pin put off to the end

flowVars == <<pin, adopted>>
tryVars == <<cands, attempts, matched, pinPast>>
learnVars == <<status, stray, outcome, compiled>>
endVars == <<results, pending, graduated, deferred, halted>>
history == <<runs, late>>
vars == <<store, parent, flowVars, pc, n, tryVars, sk, learnVars, endVars, history>>

How == {"refused", "ok", "blind", "untouched", "stopped", "lost"}
NoReplay == [seg |-> None, how |-> "lost", done |-> FALSE]

TypeOK ==
    /\ store \in [Seg -> Status] /\ parent \in [Fresh -> Seg \cup {None}]
    /\ pin \in [Nodes -> Seg \cup {None}] /\ adopted \subseteq Nodes
    /\ pc \in {"step", "try", "chain", "recover", "learn", "repin", "deferred", "done"}
    /\ n \in Nodes
    /\ cands \subseteq Seg /\ attempts \in 0..MaxAttempts /\ matched \in Nat
    /\ sk \in [seg : Seg \cup {None}, how : How, done : BOOLEAN] /\ pinPast \in BOOLEAN
    /\ status \in {"success", "partial", "failure"} /\ stray \in BOOLEAN
    /\ outcome \in [seg : Seg \cup {None}, ok : BOOLEAN] /\ compiled \in Names \cup {None}
    /\ results \in [Nodes -> {"none", "success", "partial", "failure", "blocked", "assert-failed"}]
    /\ pending \in [Nodes -> Seg \cup {None}] /\ graduated \subseteq Nodes /\ halted \in BOOLEAN
    /\ deferred \in Seq([step : Nodes, seg : Seg])
    /\ runs \in Seq([seg : Seg, how : How, banked : Seq({"success", "around", "strike"})])
    /\ late \subseteq Nodes

Init ==
    /\ store \in Stores /\ parent = [f \in Fresh |-> None]
    /\ pin = [i \in Nodes |-> Flow[i].pin] /\ adopted = {i \in Nodes : Flow[i].adopted}
    /\ pc = "step" /\ n = 1
    /\ cands = {} /\ attempts = 0 /\ matched = 0 /\ sk = NoReplay /\ pinPast = FALSE
    /\ status = "success" /\ stray = FALSE
    /\ outcome = [seg |-> None, ok |-> FALSE] /\ compiled = None
    /\ results = [i \in Nodes |-> "none"]
    /\ pending = [i \in Nodes |-> None] /\ graduated = {} /\ deferred = <<>> /\ halted = FALSE
    /\ runs = <<>> /\ late = {}

----------------------------------------------------------------------------
Head1(s) == <<s[1], 1>>
Live(s) == store[s] \notin {"absent", "demoted"}
Last == runs[Len(runs)]

\* An assertion's procedure is nobody's candidate but the assertion's.
Asserts == {Flow[i].pin : i \in {j \in Nodes : Flow[j].kind = "assert"}}
Heads == {s \in Seg \ Asserts : s[2] = 1 /\ Live(s)}

\* recordOutcome, as far as the status goes (SkillLifecycle): a success may
\* promote, a stop may be the second one at its step.
Credited(st, s) == IF st[s] = "provisional" THEN {[st EXCEPT ![s] = x] : x \in {"provisional", "validated"}} ELSE {st}
Struck(st, s) == IF st[s] = "absent" THEN {st} ELSE {[st EXCEPT ![s] = x] : x \in {st[s], "demoted"}}
Bank(rs, j, what) == [rs EXCEPT ![j].banked = Append(@, what)]
Ran(s, how) == Append(runs, [seg |-> s, how |-> how, banked |-> <<>>])

\* The end of a step: its result, and whether the flow goes on.
Ends(result, halts) ==
    /\ results' = [results EXCEPT ![n] = result]
    /\ halted' = halts
    /\ IF halts \/ n = Len(Flow) THEN pc' = "deferred" /\ n' = n ELSE pc' = "step" /\ n' = n + 1
    /\ cands' = {} /\ attempts' = 0 /\ matched' = 0 /\ pinPast' = FALSE /\ sk' = NoReplay
    /\ status' = "success" /\ stray' = FALSE /\ outcome' = [seg |-> None, ok |-> FALSE] /\ compiled' = None
    /\ runs' = <<>>

Stopped ==
    /\ pc = "step"
    /\ Ends("blocked", TRUE)
    /\ UNCHANGED <<store, parent, flowVars, pending, graduated, deferred, late>>

\* runAssertStep: the segments are checked in order and no model is asked; the
\* first that does not hold, or cannot be checked, is the answer.
Assert ==
    /\ pc = "step" /\ Flow[n].kind = "assert"
    /\ LET p == pin[n][1]
           whole == pin[n] # None /\ \A k \in 1..Length[p] : store[<<p, k>>] # "absent"
       IN \E m \in 0..(IF whole THEN Length[p] ELSE 0) :
            /\ store' \in {st \in [Seg -> Status] : \A s \in Seg :
                             st[s] = store[s] \/ (s \in {<<p, k>> : k \in 1..m} /\ store[s] = "provisional" /\ st[s] = "validated")}
            /\ IF whole /\ m = Length[p] THEN Ends("success", FALSE)
               ELSE \E why \in {"assert-failed", "blocked"} : Ends(why, TRUE)
    /\ UNCHANGED <<parent, flowVars, pending, graduated, deferred, late>>

\* The page shows the goal already, for a value of this run: nothing is done.
Satisfied ==
    /\ pc = "step" /\ Flow[n].kind = "do"
    /\ pin[n] # None /\ store[pin[n]] # "absent"
    /\ Ends("success", FALSE)
    /\ UNCHANGED <<store, parent, flowVars, pending, graduated, deferred, late>>

\* Without a pin, or with a reference nothing resolves, a model does the step;
\* with one, the heads the instruction binds are the candidates.
Select ==
    /\ pc = "step" /\ Flow[n].kind = "do"
    /\ \/ pc' = "recover" /\ cands' = {}
       \/ /\ pin[n] # None /\ pc' = "try"
          /\ cands' \in SUBSET Heads
    /\ UNCHANGED <<store, parent, flowVars, n, attempts, matched, pinPast, sk, learnVars, endVars, history>>

----------------------------------------------------------------------------
\* Bug variant: a replay that stopped early is taken not to have touched the page.
StoppedIsFree(how) == how \in {"untouched", "stopped"}

\* What leaves the next candidate free to be tried: nothing ran, nothing was
\* sent and nothing came into existence.
Free(how) == how = "untouched"

Tries == attempts < MaxAttempts

\* Bug variant: only a chain that stopped past its head is told of.
ToldPastHead(s, how) == IF s[2] = 1 THEN NoReplay ELSE [seg |-> s, how |-> how, done |-> FALSE]

\* What the model that goes on, and the learning, are told of a replay.
Told(s, how) == [seg |-> s, how |-> how, done |-> FALSE]

\* The loop over the candidates is over.
Leave(to) == pc' = to /\ cands' = {} /\ attempts' = 0

\* A refusal (the wrong page, a parameter missing) is no attempt: nothing ran.
Refused(c) ==
    /\ cands' = cands \ {c}
    /\ UNCHANGED <<store, pc, attempts, matched, sk, runs>>

Untouched(c, how) ==
    /\ cands' = cands \ {c} /\ attempts' = attempts + 1
    /\ store' \in Struck(store, c) /\ runs' = Bank(Ran(c, how), Len(runs) + 1, "strike")
    /\ UNCHANGED <<pc, matched, sk>>

\* One ran, or stopped with something sent: none other is tried after it.
Settles(c, how) ==
    /\ runs' = Ran(c, how)
    /\ IF how = "ok" THEN Leave("chain") /\ matched' = Len(runs) + 1 ELSE Leave("recover") /\ UNCHANGED matched
    /\ sk' = IF how \in {"ok", "lost"} THEN sk ELSE Told(c, how)
    /\ UNCHANGED store

Try ==
    /\ pc = "try" /\ Tries
    /\ \E c \in cands, how \in How :
         /\ \/ how = "refused" /\ Refused(c)
            \/ Free(how) /\ Untouched(c, how)
            \/ how # "refused" /\ ~Free(how) /\ Settles(c, how)
         /\ pinPast' \in IF c = pin[n] /\ how \in {"refused", "stopped", "blind"} THEN {pinPast, TRUE} ELSE {pinPast}
    /\ UNCHANGED <<parent, flowVars, n, learnVars, endVars, late>>

NoneLeft ==
    /\ pc = "try" /\ (cands = {} \/ ~Tries)
    /\ Leave("recover")
    /\ UNCHANGED <<store, parent, flowVars, n, matched, pinPast, sk, learnVars, endVars, history>>

\* Bug variant: the head of a chain is credited on the spot, and again when
\* the chain is learned.
CreditHead(done) == TRUE

\* The head is credited here only if it is not what is told of the replay.
HeadApart(done) == ~done /\ Last.seg[2] > 1

After(s) == {<<s[1], j>> : j \in {j \in s[2] + 1..Length[s[1]] :
                \A m \in s[2] + 1..j - 1 : <<s[1], m>> \in Detours /\ store[<<s[1], m>>] # "absent"}}

\* The chain's last segment ran: the replay is the step's work.
ChainDone ==
    /\ pc = "chain"
    /\ Last.seg[2] = Length[Last.seg[1]]
    /\ LET rs == IF Last.seg[2] > 1 THEN Bank(runs, Len(runs), "success") ELSE runs
       IN runs' = IF HeadApart(TRUE) THEN Bank(rs, matched, "success") ELSE rs
    /\ store' \in IF Last.seg[2] > 1 THEN Credited(store, Last.seg) ELSE {store}
    /\ sk' = [seg |-> Head1(Last.seg), how |-> "ok", done |-> TRUE]
    /\ status' \in {"success", "partial"} /\ stray' = FALSE
    /\ pc' = "learn"
    /\ UNCHANGED <<parent, flowVars, n, tryVars, outcome, compiled, endVars, late>>

\* A segment that is not in the store ends the walk where it is.
ChainBroken ==
    /\ pc = "chain"
    /\ \E s \in After(Last.seg) : store[s] = "absent"
    /\ sk' = Told(Last.seg, "ok")
    /\ runs' = IF HeadApart(FALSE) THEN Bank(runs, matched, "success") ELSE runs
    /\ store' \in IF HeadApart(FALSE) THEN Credited(store, Head1(Last.seg)) ELSE {store}
    /\ pc' = "recover"
    /\ UNCHANGED <<parent, flowVars, n, tryVars, learnVars, endVars, late>>

Segment ==
    /\ pc = "chain"
    /\ \E s \in After(Last.seg), how \in How :
         /\ store[s] # "absent"
         /\ LET passed == IF Last.seg[2] > 1 THEN Bank(runs, Len(runs), "success") ELSE runs
                ran == Append(passed, [seg |-> s, how |-> how, banked |-> <<>>])
                credit == IF Last.seg[2] > 1 THEN Credited(store, Last.seg) ELSE {store}
            IN \E st \in credit :
                 \/ how = "ok" /\ pc' = "chain" /\ runs' = ran /\ store' = st /\ UNCHANGED sk
                 \/ how = "lost" /\ pc' = "recover" /\ runs' = ran /\ store' = st /\ UNCHANGED sk
                 \/ how \notin {"ok", "lost"} /\ pc' = "recover"
                    /\ sk' = Told(s, how)
                    /\ runs' = Bank(ran, matched, "success")
                    /\ store' \in Credited(st, Head1(s))
         /\ pinPast' \in IF Head1(s) = pin[n] /\ how \in {"refused", "stopped", "blind"} THEN {pinPast, TRUE} ELSE {pinPast}
    /\ UNCHANGED <<parent, flowVars, n, cands, attempts, matched, learnVars, endVars, late>>

----------------------------------------------------------------------------
\* A model does the step, told what ran if a replay left something; on its own
\* account it may replay a procedure too.
Recover ==
    /\ pc = "recover"
    /\ \/ /\ pc' = "learn"
          /\ status' \in {"success", "partial", "failure"} /\ stray' \in BOOLEAN
          /\ \/ UNCHANGED <<sk, runs>>
             \/ /\ sk.seg = None
                /\ \E s \in Heads, how \in How \ {"lost"} :
                        sk' = Told(s, how) /\ runs' = Ran(s, how)
          /\ UNCHANGED <<n, tryVars, outcome, compiled, results, halted>>
       \/ Ends("blocked", TRUE)
    /\ UNCHANGED <<store, parent, flowVars, pending, graduated, deferred, late>>

\* All the steps of what is told of ran: a read-only procedure that saw
\* nothing included.
Whole == sk.how \in {"ok", "blind"}

\* learnFromInstruction: the outcome of what is told of, then what the
\* recording of a success adds to the store.
Outcomes ==
    IF sk.seg = None \/ store[sk.seg] = "absent" THEN {[st |-> store, what |-> "none"]}
    ELSE IF sk.how = "refused" THEN {[st |-> store, what |-> "none"]} \cup [st : Struck(store, sk.seg), what : {"strike"}]
    ELSE IF ~Whole THEN [st : Struck(store, sk.seg), what : {"strike"}]
    ELSE IF status # "success" THEN {[st |-> store, what |-> "around"]}
    ELSE LET better == Credited(store, sk.seg)
             of == IF sk.seg[1] \in Fresh THEN parent[sk.seg[1]] ELSE None
         IN [st : better, what : {"success"}]
            \cup (IF of = None THEN {} ELSE [st : {[st EXCEPT ![of] = "demoted"] : st \in {x \in better : x[sk.seg] = "validated"}}, what : {"success"}])

\* The recording is merged into a procedure that is there, stored as a new
\* one, or adds nothing.
Kept(st, p) == {[s \in Seg |-> IF s[1] = p /\ st[s] = "provisional" THEN x ELSE st[s]] : x \in {"provisional", "validated"}}
Stored(st, f) == [s \in Seg |-> IF s[1] = f THEN "provisional" ELSE st[s]]
Sound(st, p) == \A k \in 1..Length[p] : st[<<p, k>>] \notin {"absent", "demoted"}
Merges(st) == UNION {[st : Kept(st, h[1]), name : {h[1]}] : h \in {h \in Heads : Sound(st, h[1])}}
Additions(st) == {[st |-> Stored(st, f), name |-> f] : f \in {f \in Fresh : st[<<f, 1>>] = "absent"}}
Keeps(st) == {[st |-> st, name |-> None]} \cup Merges(st) \cup Additions(st)

Learn ==
    /\ pc = "learn" /\ pc' = "repin"
    /\ \E o \in Outcomes :
         /\ outcome' = [seg |-> IF o.what = "none" THEN None ELSE sk.seg, ok |-> o.what # "none" /\ Whole]
         /\ runs' = IF o.what = "none" THEN runs ELSE Bank(runs, IF sk.done THEN matched ELSE Len(runs), o.what)
         /\ \E c \in (IF status # "success" \/ (sk.seg # None /\ Whole /\ ~stray) THEN {[st |-> o.st, name |-> None]} ELSE Keeps(o.st)) :
              /\ store' = c.st /\ compiled' = c.name
              /\ parent' = IF c.name \in Fresh /\ store[<<c.name, 1>>] = "absent" /\ sk.how \in {"stopped", "untouched"}
                             THEN [parent EXCEPT ![c.name] = sk.seg] ELSE parent
    /\ UNCHANGED <<flowVars, n, tryVars, sk, status, stray, endVars, late>>

----------------------------------------------------------------------------
\* A pin names a chain's head, and replay runs every segment after it.
Mutates(s) == s # None /\ store[s] # "absent" /\ \E k \in s[2]..Length[s[1]] : <<s[1], k>> \in Acts /\ store[<<s[1], k>>] # "absent"

\* Bug variant: the pins this run moved are not looked at.
OwnedAtStart(i) == pin[i]

\* The pin of a step, this run's own adoptions included.
Owned(i) == IF pending[i] # None THEN pending[i] ELSE pin[i]

\* canAdoptPin: a mutating procedure is one step's only, a step that asks for
\* a change takes none that only reads.
Current == IF pinPast THEN None ELSE pin[n]
Adoptable(c) ==
    /\ c \notin Asserts
    /\ Mutates(c) => \A i \in Nodes \ {n} : Owned(i) # c
    /\ ~Mutates(c) => ~Mutates(Current) /\ ~(Flow[n].asks /\ ~pinPast)

Incumbent ==
    IF pinPast \/ pin[n] = None THEN "missing"
    ELSE IF store[pin[n]] # "absent" /\ \E k \in 1..Length[pin[n][1]] : store[<<pin[n][1], k>>] = "demoted" THEN "demoted"
    ELSE IF store[pin[n]] = "absent" THEN "missing" ELSE store[pin[n]]

\* What the step was done with: the procedure replayed, or the recording.
Candidate ==
    IF outcome.ok /\ ~stray THEN outcome.seg
    ELSE IF compiled # None THEN <<compiled, 1>> ELSE None

\* decideRepin, the facts about where a procedure starts, ends and came from aside.
Decides(c) ==
    /\ c # None /\ c # pin[n] /\ ~(outcome.ok /\ (outcome.seg = pin[n] \/ (stray /\ c = outcome.seg)))
    /\ status = "success" /\ Adoptable(c) /\ store[c] # "demoted"
    /\ store[c] = "validated" \/ n \in adopted \/ Incumbent \in {"missing", "demoted"}

Goes == IF n \in adopted THEN {n} ELSE {}

\* Bug variant: a step that did not succeed never stops the flow.
GoesOn == FALSE

Halts == status = "failure" /\ n \notin adopted

\* The pin moves, is judged again at the end, or stays; a candidate whose
\* navigation names this run's record is demoted.  Then the step is over.
Repin ==
    /\ pc = "repin"
    /\ \E minted, elsewhere, ends, bound \in BOOLEAN :
         /\ minted => Candidate # None
         /\ ends => n < Len(Flow)
         /\ store' = IF minted /\ store[Candidate] # "absent" THEN [store EXCEPT ![Candidate] = "demoted"] ELSE store
         /\ LET moves == Decides(Candidate) /\ ~minted /\ ~elsewhere
            IN /\ deferred' = IF moves /\ ends THEN Append(deferred, [step |-> n, seg |-> Candidate]) ELSE deferred
               /\ pending' = IF moves /\ ~ends /\ bound THEN [pending EXCEPT ![n] = Candidate] ELSE pending
               /\ graduated' = IF moves /\ ~ends /\ bound THEN graduated \cup Goes ELSE graduated
    /\ Ends(status, Halts)
    /\ UNCHANGED <<parent, flowVars, late>>

\* Pins put off because the next step's started elsewhere: judged again
\* against where it starts now.
Deferred ==
    /\ pc = "deferred" /\ deferred # <<>>
    /\ LET d == Head(deferred)
       IN \/ UNCHANGED <<pending, graduated, late>>
          \/ /\ pending[d.step] = None
             /\ late' = late \cup {d.step}
             /\ pending' = [pending EXCEPT ![d.step] = d.seg]
             /\ graduated' = graduated \cup ({d.step} \cap adopted)
    /\ deferred' = Tail(deferred)
    /\ UNCHANGED <<store, parent, flowVars, pc, n, tryVars, sk, learnVars, results, halted, runs>>

Save ==
    /\ pc = "deferred" /\ deferred = <<>>
    /\ pin' = [i \in Nodes |-> IF pending[i] # None THEN pending[i] ELSE pin[i]] /\ adopted' = adopted \ graduated
    /\ pc' = "done"
    /\ UNCHANGED <<store, parent, n, tryVars, sk, learnVars, endVars, history>>

Next ==
    \/ Stopped \/ Assert \/ Satisfied \/ Select \/ Try \/ NoneLeft
    \/ ChainDone \/ ChainBroken \/ Segment \/ Recover \/ Learn \/ Repin
    \/ Deferred \/ Save

Spec == Init /\ [][Next]_vars

----------------------------------------------------------------------------
\* Every replay is banked once at most, as a success only if all its steps
\* ran: the chain walk, the candidates and the learning share the work between
\* them (replayDirectOnce, learnFromInstruction).
BankedOnce ==
    \A j \in DOMAIN runs :
        /\ Len(runs[j].banked) <= 1
        /\ runs[j].banked = <<"success">> => runs[j].how \in {"ok", "blind"}
        /\ runs[j].banked = <<"strike">> => runs[j].how \notin {"ok", "blind"}

\* The page was touched: a candidate tried after it would start the procedure
\* over on what is left of the first.  Only a replay whose result was lost is
\* not told to the model that goes on.
Touched == \E j \in DOMAIN runs : runs[j].how \in {"ok", "stopped"}
NotRestarted == [][pc = "try" /\ pc' # "recover" /\ runs' # runs => ~Touched]_vars
HandedOver == pc = "recover" /\ Touched => sk.seg # None \/ Last.how = "lost"

\* canAdoptPin's first rule, over the run: two steps never come to own one
\* mutating procedure, unless the recording had them share it or a pin put off
\* to the end was taken then (it is not looked at again).
OneOwner ==
    pc = "done" => \A i, j \in Nodes : i # j /\ pin[i] = pin[j] /\ Mutates(pin[i])
                        => {i, j} \cap late # {} \/ Flow[i].pin = Flow[j].pin

\* The model is told, and steps keep to their own procedures, in a state of the
\* right types.
RunnerOK == TypeOK /\ HandedOver /\ OneOwner

\* What runFlow answers: "success" says that every step was carried out, the
\* adopted ones (which may end any way) aside.
Report ==
    IF halted /\ Cardinality({i \in Nodes : results[i] = "success"}) < Len(Flow) THEN "halted"
    ELSE IF \E i \in Nodes : results[i] = "partial" THEN "partial" ELSE "success"
SuccessMeans ==
    pc = "done" /\ Report = "success" =>
        \A i \in Nodes : results[i] = "success" \/ (Flow[i].adopted /\ results[i] # "none")
=============================================================================
