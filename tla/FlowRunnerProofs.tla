-------------------------- MODULE FlowRunnerProofs --------------------------
(***************************************************************************)
(* Theorems about FlowRunner, for any flow, chains and store.              *)
(***************************************************************************)
EXTENDS FlowRunner, FiniteSetTheorems, TLAPS

Banking == {"success", "around", "strike"}
Run == [seg : Seg, how : How, banked : Seq(Banking)]

LEMMA SegParts ==
  ASSUME NEW s \in Seg
  PROVE  s[1] \in Names /\ s[2] \in 1..Length[s[1]] /\ s[2] \in Nat /\ s # None
<1>1. PICK p \in Names : \E k \in 1..Length[p] : s = <<p, k>>
  BY DEF Seg
<1>2. PICK k \in 1..Length[p] : s = <<p, k>>
  BY <1>1
<1>3. Length[p] \in Nat /\ s[1] = p /\ s[2] = k
  BY <1>2, NamesAssumption
<1> QED BY <1>2, <1>3, NamesAssumption

LEMMA SegIs ==
  ASSUME NEW p \in Names, NEW k \in 1..Length[p]
  PROVE  <<p, k>> \in Seg
  BY DEF Seg

LEMMA AfterIs ==
  ASSUME NEW s \in Seg, NEW t \in After(s)
  PROVE  t \in Seg /\ t[2] > 1
<1>1. PICK j \in s[2] + 1..Length[s[1]] : t = <<s[1], j>> /\ t[2] = j
  BY DEF After
<1>2. s[1] \in Names /\ s[2] \in 1..Length[s[1]] /\ Length[s[1]] \in Nat
  BY SegParts, NamesAssumption
<1>3. j \in 1..Length[s[1]] /\ j > 1
  BY <1>2
<1> QED BY <1>1, <1>2, <1>3, SegIs

\* A replay more, and one banked.
LEMMA RanIs ==
  ASSUME NEW rs \in Seq(Run), NEW s \in Seg, NEW how \in How
  PROVE  LET r == [seg |-> s, how |-> how, banked |-> <<>>]
             new == Append(rs, r)
         IN  /\ new \in Seq(Run) /\ Len(new) = Len(rs) + 1 /\ DOMAIN new = 1..Len(rs) + 1
             /\ new[Len(rs) + 1] = r /\ \A j \in DOMAIN rs : new[j] = rs[j]
  BY DEF Run

LEMMA BankIs ==
  ASSUME NEW rs \in Seq(Run), NEW j \in DOMAIN rs, NEW what \in Banking
  PROVE  LET new == Bank(rs, j, what)
         IN  /\ new \in Seq(Run) /\ Len(new) = Len(rs) /\ DOMAIN new = DOMAIN rs
             /\ \A i \in DOMAIN rs : new[i].how = rs[i].how /\ new[i].seg = rs[i].seg
             /\ \A i \in DOMAIN rs \ {j} : new[i] = rs[i]
             /\ new[j].banked = Append(rs[j].banked, what)
<1> DEFINE new == Bank(rs, j, what)
<1>0. rs[j] \in Run
  OBVIOUS
<1>1. rs[j].banked \in Seq(Banking) /\ Append(rs[j].banked, what) \in Seq(Banking)
  BY <1>0 DEF Run
<1>2. new = [rs EXCEPT ![j] = [rs[j] EXCEPT !.banked = Append(rs[j].banked, what)]]
  BY DEF Bank
<1>3. [rs[j] EXCEPT !.banked = Append(rs[j].banked, what)] \in Run
  BY <1>0, <1>1 DEF Run
<1>4. new \in Seq(Run) /\ Len(new) = Len(rs) /\ DOMAIN new = DOMAIN rs
  BY <1>2, <1>3
<1> QED BY <1>0, <1>1, <1>2, <1>4 DEF Run

-----------------------------------------------------------------------------
(* What is banked                                                          *)

Once(r) ==
    /\ Len(r.banked) <= 1
    /\ r.banked = <<"success">> => r.how \in {"ok", "blind"}
    /\ r.banked = <<"strike">> => r.how \notin {"ok", "blind"}
Open(rs, j) == j \in DOMAIN rs /\ rs[j].banked = <<>>

\* A step begins with no replay; until one stopped, nothing was touched and
\* nothing is told.
Fresh1 ==
    /\ pc = "step" => runs = <<>>
    /\ pc \in {"step", "try", "chain"} => sk = NoReplay
    /\ pc = "try" => \A j \in DOMAIN runs : runs[j].how = "untouched"
    /\ \A c \in cands : c \in Seg /\ c[2] = 1

\* In a chain the head and the last segment are still to be banked, and are
\* one and the same at the head only.
Chaining ==
    pc = "chain" =>
        /\ Open(runs, matched) /\ runs[matched].how = "ok"
        /\ Open(runs, Len(runs)) /\ Last.how = "ok"
        /\ Last.seg[2] = 1 <=> matched = Len(runs)

\* What is told of is still to be banked.
Telling ==
    /\ pc = "recover" => ~sk.done
    /\ pc \in {"recover", "learn"} /\ sk.seg # None =>
         LET j == IF sk.done THEN matched ELSE Len(runs) IN Open(runs, j) /\ runs[j].how = sk.how

BankInv ==
    /\ runs \in Seq(Run) /\ sk \in [seg : Seg \cup {None}, how : How, done : BOOLEAN]
    /\ \A j \in DOMAIN runs : Once(runs[j])
    /\ Fresh1 /\ Chaining /\ Telling /\ HandedOver

LEMMA Initially == Init => BankInv
  BY DEF Init, BankInv, Fresh1, Chaining, Telling, HandedOver, Touched, NoReplay, How

\* A replay banked for the first time, or not yet.
LEMMA FirstTime ==
  ASSUME NEW r, NEW what \in Banking,
         r.banked = <<>> \/ r.banked = Append(<<>>, what),
         what = "success" => r.how \in {"ok", "blind"},
         what = "strike" => r.how \notin {"ok", "blind"}
  PROVE  Once(r)
<1>1. Append(<<>>, what) = <<what>> /\ Len(<<what>>) = 1 /\ <<what>>[1] = what
  OBVIOUS
<1>2. <<what>> = <<"success">> => what = "success"
  OBVIOUS
<1>3. <<what>> = <<"strike">> => what = "strike"
  OBVIOUS
<1>4. CASE r.banked = <<>>
  BY <1>4 DEF Once
<1>5. CASE r.banked = <<what>>
  <2>1. Len(r.banked) = 1
    BY <1>5
  <2>2. r.banked = <<"success">> => r.how \in {"ok", "blind"}
    BY <1>2, <1>5
  <2>3. r.banked = <<"strike">> => r.how \notin {"ok", "blind"}
    BY <1>3, <1>5
  <2> QED BY <2>1, <2>2, <2>3 DEF Once
<1> QED BY <1>1, <1>4, <1>5

\* The end of a step forgets its replays.
LEMMA EndsInv == ASSUME NEW result, NEW halts, Ends(result, halts) PROVE BankInv'
  BY DEF Ends, BankInv, Fresh1, Chaining, Telling, HandedOver, Touched, NoReplay, How

LEMMA TryInv == ASSUME BankInv, Try PROVE BankInv'
<1> USE DEF BankInv, Try
<1>1. PICK c \in cands, how \in How :
        \/ how = "refused" /\ Refused(c)
        \/ Free(how) /\ Untouched(c, how)
        \/ how # "refused" /\ ~Free(how) /\ Settles(c, how)
  BY DEF Try
<1>2. c \in Seg /\ c[2] = 1 /\ c # None
  BY SegParts DEF Fresh1
<1> DEFINE r == [seg |-> c, how |-> how, banked |-> <<>>]
<1>3. /\ Ran(c, how) \in Seq(Run) /\ Len(Ran(c, how)) = Len(runs) + 1 /\ DOMAIN Ran(c, how) = 1..Len(runs) + 1
      /\ Ran(c, how)[Len(runs) + 1] = r /\ \A j \in DOMAIN runs : Ran(c, how)[j] = runs[j]
  BY <1>2, RanIs DEF Ran
<1>4. CASE Refused(c)
  BY <1>4 DEF Refused, Fresh1, Chaining, Telling, HandedOver, Touched
<1>5. CASE Free(how) /\ Untouched(c, how)
  <2> DEFINE ran == Ran(c, how)
             b == Bank(ran, Len(runs) + 1, "strike")
  <2>1. runs' = b /\ how = "untouched" /\ pc' = "try" /\ sk' = sk /\ cands' \subseteq cands
    BY <1>5 DEF Untouched, Free
  <2>a. ran \in Seq(Run) /\ Len(runs) + 1 \in DOMAIN ran /\ "strike" \in Banking
    BY <1>3 DEF Banking
  <2>b. /\ b \in Seq(Run) /\ DOMAIN b = DOMAIN ran
        /\ \A i \in DOMAIN ran \ {Len(runs) + 1} : b[i] = ran[i]
        /\ b[Len(runs) + 1].how = ran[Len(runs) + 1].how
        /\ b[Len(runs) + 1].banked = Append(ran[Len(runs) + 1].banked, "strike")
    <3> HIDE DEF ran
    <3> QED BY <2>a, BankIs
  <2>2. /\ b \in Seq(Run) /\ DOMAIN b = 1..Len(runs) + 1
        /\ \A j \in DOMAIN runs : b[j] = runs[j]
        /\ b[Len(runs) + 1].how = "untouched" /\ b[Len(runs) + 1].banked = Append(<<>>, "strike")
    BY <1>3, <2>1, <2>b
  <2>3. Once(b[Len(runs) + 1])
    BY <2>2, FirstTime, "strike" \in Banking DEF Banking
  <2>4. \A j \in DOMAIN b : Once(b[j]) /\ b[j].how = "untouched"
    BY <2>2, <2>3, <1>5 DEF Untouched, Fresh1
  <2> QED BY <2>1, <2>2, <2>4 DEF Fresh1, Chaining, Telling, HandedOver
<1>6. CASE how # "refused" /\ ~Free(how) /\ Settles(c, how)
  <2>1. runs' = Ran(c, how) /\ cands' = {} /\ pc' = (IF how = "ok" THEN "chain" ELSE "recover")
    BY <1>6 DEF Settles, Leave
  <2>0. Once(r)
    BY FirstTime, "around" \in Banking DEF Banking
  <2>2. \A j \in DOMAIN runs' : Once(runs'[j])
    BY <1>3, <2>0, <2>1
  <2>3. sk' = IF how \in {"ok", "lost"} THEN NoReplay ELSE [seg |-> c, how |-> how, done |-> FALSE]
    BY <1>6 DEF Settles, Told, Fresh1
  <2>4. how = "ok" => matched' = Len(runs) + 1
    BY <1>6 DEF Settles
  <2>5. runs'[Len(runs')] = r /\ Open(runs', Len(runs'))
    BY <1>3, <2>1 DEF Open
  <2> QED BY <1>2, <1>3, <2>1, <2>2, <2>3, <2>4, <2>5 DEF Fresh1, Chaining, Telling, HandedOver, Touched, NoReplay, How, Last
<1> QED BY <1>1, <1>4, <1>5, <1>6

\* What a segment that follows the last one banks: the last, if it is not the
\* head.
Passed == IF Last.seg[2] > 1 THEN Bank(runs, Len(runs), "success") ELSE runs

LEMMA PassedIs ==
  ASSUME BankInv, pc = "chain"
  PROVE  /\ Last \in Run /\ Last.seg \in Seg
         /\ Passed \in Seq(Run) /\ Len(Passed) = Len(runs) /\ DOMAIN Passed = DOMAIN runs
         /\ \A j \in DOMAIN runs : Once(Passed[j])
         /\ Open(Passed, matched) /\ Passed[matched].how = "ok"
<1> USE DEF BankInv
<1>1. Open(runs, matched) /\ runs[matched].how = "ok" /\ Open(runs, Len(runs)) /\ Last.how = "ok"
      /\ (Last.seg[2] = 1 <=> matched = Len(runs))
  BY DEF Chaining
<1>2. Last \in Run /\ Last.seg \in Seg /\ Last.seg[2] \in Nat
  <2>1. Last \in Run
    BY <1>1 DEF Open, Last
  <2> QED BY <2>1, SegParts DEF Run
<1>3. CASE Last.seg[2] > 1
  <2> DEFINE b == Bank(runs, Len(runs), "success")
  <2>0. Len(runs) \in DOMAIN runs /\ runs[Len(runs)].banked = <<>> /\ "success" \in Banking
    BY <1>1 DEF Banking, Open
  <2>1. /\ b \in Seq(Run) /\ Len(b) = Len(runs) /\ DOMAIN b = DOMAIN runs
        /\ \A i \in DOMAIN runs : b[i].how = runs[i].how
        /\ \A i \in DOMAIN runs \ {Len(runs)} : b[i] = runs[i]
        /\ b[Len(runs)].banked = Append(runs[Len(runs)].banked, "success")
    BY <2>0, BankIs
  <2>2. b[Len(runs)].how = "ok"
    BY <1>1, <2>1 DEF Open, Last
  <2>3. Once(b[Len(runs)])
    BY <2>0, <2>1, <2>2, FirstTime
  <2>4. matched # Len(runs)
    BY <1>1, <1>3
  <2>5. Passed = b
    BY <1>3 DEF Passed
  <2> QED BY <1>1, <1>2, <2>1, <2>3, <2>4, <2>5 DEF Open
<1>4. CASE ~(Last.seg[2] > 1)
  BY <1>1, <1>2, <1>4 DEF Passed
<1> QED BY <1>3, <1>4

LEMMA ChainDoneInv == ASSUME BankInv, ChainDone PROVE BankInv'
<1>1. pc = "chain" /\ pc' = "learn" /\ UNCHANGED <<matched, cands>>
  BY DEF ChainDone, tryVars
<1>2. runs' = Passed
  BY DEF ChainDone, HeadApart, Passed
<1>3. sk' = [seg |-> Head1(Last.seg), how |-> "ok", done |-> TRUE] /\ Head1(Last.seg) \in Seg
  <2>1. Last.seg \in Seg
    BY <1>1, PassedIs
  <2>2. Last.seg[1] \in Names /\ 1 \in 1..Length[Last.seg[1]]
    BY <2>1, SegParts, NamesAssumption
  <2> QED BY <2>2, SegIs DEF ChainDone, Head1
<1>4. Telling' /\ Fresh1' /\ Chaining' /\ HandedOver'
  BY <1>1, <1>2, <1>3, PassedIs DEF BankInv, Telling, Fresh1, Chaining, HandedOver, Open
<1>5. runs' \in Seq(Run) /\ sk' \in [seg : Seg \cup {None}, how : How, done : BOOLEAN] /\ \A j \in DOMAIN runs' : Once(runs'[j])
  BY <1>1, <1>2, <1>3, PassedIs DEF How
<1> QED BY <1>4, <1>5 DEF BankInv

\* The head, banked beside the last segment.
LEMMA HeadBanked ==
  ASSUME NEW rs \in Seq(Run), NEW m, Open(rs, m), rs[m].how \in {"ok", "blind"}, \A j \in DOMAIN rs : Once(rs[j])
  PROVE  LET new == Bank(rs, m, "success")
         IN  /\ new \in Seq(Run) /\ Len(new) = Len(rs) /\ DOMAIN new = DOMAIN rs
             /\ \A j \in DOMAIN rs : Once(new[j]) /\ (j # m => new[j] = rs[j])
<1> DEFINE new == Bank(rs, m, "success")
<1>0. m \in DOMAIN rs /\ rs[m].banked = <<>> /\ "success" \in Banking
  BY DEF Banking, Open
<1>1. /\ new \in Seq(Run) /\ Len(new) = Len(rs) /\ DOMAIN new = DOMAIN rs
      /\ \A i \in DOMAIN rs : new[i].how = rs[i].how
      /\ \A i \in DOMAIN rs \ {m} : new[i] = rs[i]
      /\ new[m].banked = Append(rs[m].banked, "success")
  BY <1>0, BankIs
<1>2. Once(new[m])
  BY <1>0, <1>1, FirstTime
<1> QED BY <1>1, <1>2

LEMMA ChainBrokenInv == ASSUME BankInv, ChainBroken PROVE BankInv'
<1>1. pc = "chain" /\ pc' = "recover" /\ UNCHANGED <<matched, cands>> /\ sk' = [seg |-> Last.seg, how |-> "ok", done |-> FALSE]
  BY DEF ChainBroken, tryVars, Told
<1>2. Last.seg \in Seg /\ Last.seg # None
  BY <1>1, PassedIs, SegParts
<1>3. Open(runs, matched) /\ runs[matched].how = "ok" /\ Open(runs, Len(runs)) /\ runs[Len(runs)].how = "ok"
      /\ (Last.seg[2] = 1 <=> matched = Len(runs)) /\ runs \in Seq(Run) /\ \A j \in DOMAIN runs : Once(runs[j])
  BY <1>1 DEF BankInv, Chaining, Last
<1>4. CASE Last.seg[2] > 1
  <2>1. runs' = Bank(runs, matched, "success")
    BY <1>4 DEF ChainBroken, HeadApart
  <2>2. matched # Len(runs)
    BY <1>3, <1>4
  <2>3. /\ runs' \in Seq(Run) /\ Len(runs') = Len(runs) /\ DOMAIN runs' = DOMAIN runs
        /\ \A j \in DOMAIN runs : Once(runs'[j]) /\ (j # matched => runs'[j] = runs[j])
    BY <1>3, <2>1, HeadBanked
  <2> QED BY <1>1, <1>2, <1>3, <2>2, <2>3 DEF BankInv, Fresh1, Chaining, Telling, HandedOver, Open, How
<1>5. CASE ~(Last.seg[2] > 1)
  <2>1. runs' = runs
    BY <1>5 DEF ChainBroken, HeadApart
  <2> QED BY <1>1, <1>2, <1>3, <2>1 DEF BankInv, Fresh1, Chaining, Telling, HandedOver, Open, How
<1> QED BY <1>4, <1>5

LEMMA SegmentInv == ASSUME BankInv, Segment PROVE BankInv'
<1>1. pc = "chain" /\ UNCHANGED <<matched, cands>>
  BY DEF Segment
<1>2. PICK s \in After(Last.seg), how \in How :
        LET ran == Append(Passed, [seg |-> s, how |-> how, banked |-> <<>>])
        IN  \/ how = "ok" /\ pc' = "chain" /\ runs' = ran /\ UNCHANGED sk
            \/ how = "lost" /\ pc' = "recover" /\ runs' = ran /\ UNCHANGED sk
            \/ /\ how \notin {"ok", "lost"} /\ pc' = "recover"
               /\ sk' = Told(s, how) /\ runs' = Bank(ran, matched, "success")
  BY DEF Segment, Passed
<1> DEFINE r == [seg |-> s, how |-> how, banked |-> <<>>]
           ran == Append(Passed, r)
<1>3. s \in Seg /\ s[2] > 1 /\ s # None
  BY <1>1, PassedIs, AfterIs, SegParts
<1>4. /\ ran \in Seq(Run) /\ Len(ran) = Len(runs) + 1 /\ DOMAIN ran = 1..Len(runs) + 1 /\ Len(runs) \in Nat
      /\ ran[Len(runs) + 1] = r /\ \A j \in DOMAIN runs : ran[j] = Passed[j]
  BY <1>1, <1>3, PassedIs, RanIs DEF BankInv
<1>5. Once(r)
  BY FirstTime, "around" \in Banking DEF Banking
<1>6. \A j \in DOMAIN ran : Once(ran[j])
  BY <1>1, <1>4, <1>5, PassedIs DEF BankInv
<1>7. Open(ran, matched) /\ ran[matched].how = "ok" /\ matched # Len(runs) + 1
  BY <1>1, <1>4, PassedIs DEF Open, BankInv
<1>8. sk = NoReplay
  BY <1>1 DEF BankInv, Fresh1
<1> HIDE DEF ran
<1>9. CASE how \in {"ok", "lost"}
  <2>1. runs' = ran /\ sk' = NoReplay /\ pc' = (IF how = "ok" THEN "chain" ELSE "recover")
    BY <1>2, <1>8, <1>9 DEF ran
  <2>2. Last' = r /\ Open(runs', Len(runs'))
    BY <1>4, <2>1 DEF Last, Open
  <2>3. Chaining'
    BY <1>1, <1>3, <1>4, <1>7, <2>1, <2>2 DEF Chaining
  <2> QED BY <1>1, <1>4, <1>6, <1>9, <2>1, <2>2, <2>3 DEF BankInv, Fresh1, Telling, HandedOver, NoReplay, How
<1>10. CASE how \notin {"ok", "lost"}
  <2>1. pc' = "recover" /\ sk' = [seg |-> s, how |-> how, done |-> FALSE] /\ runs' = Bank(ran, matched, "success")
    BY <1>2, <1>10 DEF ran, Told
  <2>2. /\ runs' \in Seq(Run) /\ Len(runs') = Len(ran) /\ DOMAIN runs' = DOMAIN ran
        /\ \A j \in DOMAIN ran : Once(runs'[j]) /\ (j # matched => runs'[j] = ran[j])
    BY <1>4, <1>6, <1>7, <2>1, HeadBanked
  <2>3. Open(runs', Len(runs')) /\ runs'[Len(runs')].how = how
    BY <1>4, <1>7, <2>2 DEF Open
  <2> QED BY <1>1, <1>3, <2>1, <2>2, <2>3 DEF BankInv, Fresh1, Chaining, Telling, HandedOver
<1> QED BY <1>9, <1>10

LEMMA RecoverInv == ASSUME BankInv, Recover PROVE BankInv'
<1>1. pc = "recover" /\ ~sk.done
  BY DEF Recover, BankInv, Telling
<1>2. CASE Ends("blocked", TRUE)
  BY <1>2, EndsInv
<1>3. CASE pc' = "learn" /\ UNCHANGED <<matched, cands, sk, runs>>
  BY <1>1, <1>3 DEF BankInv, Fresh1, Chaining, Telling, HandedOver
<1>4. ASSUME NEW s \in Heads, NEW how \in How \ {"lost"}, sk' = Told(s, how), runs' = Ran(s, how),
             pc' = "learn", UNCHANGED <<matched, cands>>
      PROVE  BankInv'
  <2>1. s \in Seg /\ s # None
    BY SegParts DEF Heads
  <2> DEFINE r == [seg |-> s, how |-> how, banked |-> <<>>]
  <2>2. /\ runs' \in Seq(Run) /\ Len(runs') = Len(runs) + 1 /\ DOMAIN runs' = 1..Len(runs) + 1 /\ Len(runs) \in Nat
        /\ runs'[Len(runs) + 1] = r /\ \A j \in DOMAIN runs : runs'[j] = runs[j]
    BY <1>4, <2>1, RanIs DEF BankInv, Ran
  <2>3. Once(r)
    BY FirstTime, "around" \in Banking DEF Banking
  <2>4. \A j \in DOMAIN runs' : Once(runs'[j])
    BY <2>2, <2>3 DEF BankInv
  <2>5. Open(runs', Len(runs')) /\ runs'[Len(runs')].how = how
    BY <2>2 DEF Open
  <2> QED BY <1>4, <2>1, <2>2, <2>4, <2>5 DEF BankInv, Fresh1, Chaining, Telling, HandedOver, Told
<1> QED BY <1>2, <1>3, <1>4 DEF Recover, tryVars

\* What the learning banks is what the replay came to.
LEMMA OutcomesAre ==
  ASSUME NEW o \in Outcomes
  PROVE  \/ o.what = "none"
         \/ /\ sk.seg # None /\ o.what \in Banking
            /\ o.what = "success" => sk.how \in {"ok", "blind"}
            /\ o.what = "strike" => sk.how \notin {"ok", "blind"}
  BY DEF Outcomes, Whole, Banking

LEMMA LearnInv == ASSUME BankInv, Learn PROVE BankInv'
<1> DEFINE j == IF sk.done THEN matched ELSE Len(runs)
<1>1. pc = "learn" /\ pc' = "repin" /\ UNCHANGED <<matched, cands, sk>>
  BY DEF Learn, tryVars
<1>2. PICK o \in Outcomes : runs' = IF o.what = "none" THEN runs ELSE Bank(runs, j, o.what)
  BY DEF Learn
<1>3. runs' \in Seq(Run) /\ \A i \in DOMAIN runs' : Once(runs'[i])
  <2>1. CASE o.what = "none"
    BY <1>2, <2>1 DEF BankInv
  <2>2. CASE o.what # "none"
    <3>1. /\ sk.seg # None /\ o.what \in Banking
          /\ o.what = "success" => sk.how \in {"ok", "blind"}
          /\ o.what = "strike" => sk.how \notin {"ok", "blind"}
      BY <2>2, OutcomesAre
    <3>2. j \in DOMAIN runs /\ runs[j].banked = <<>> /\ runs[j].how = sk.how /\ runs \in Seq(Run)
      BY <1>1, <3>1 DEF BankInv, Telling, Open
    <3> HIDE DEF j
    <3>3. /\ runs' \in Seq(Run) /\ DOMAIN runs' = DOMAIN runs
          /\ runs'[j].how = runs[j].how /\ runs'[j].banked = Append(runs[j].banked, o.what)
          /\ \A i \in DOMAIN runs \ {j} : runs'[i] = runs[i]
      BY <1>2, <2>2, <3>1, <3>2, BankIs
    <3>4. Once(runs'[j])
      BY <3>1, <3>2, <3>3, FirstTime
    <3> QED BY <3>3, <3>4 DEF BankInv
  <2> QED BY <2>1, <2>2
<1> QED BY <1>1, <1>3 DEF BankInv, Fresh1, Chaining, Telling, HandedOver

LEMMA BankInvariant == Spec => []BankInv
<1>1. BankInv /\ [Next]_vars => BankInv'
  <2> SUFFICES ASSUME BankInv, [Next]_vars PROVE BankInv'
    OBVIOUS
  <2>1. CASE UNCHANGED vars
    BY <2>1 DEF vars, tryVars, history, BankInv, Fresh1, Chaining, Telling, HandedOver, Touched, Open, Last
  <2>2. CASE Stopped \/ Assert \/ Satisfied \/ Repin
    BY <2>2, EndsInv DEF Stopped, Assert, Satisfied, Repin
  <2>3. CASE Select
    <3>1. \A c \in Heads : c \in Seg /\ c[2] = 1
      BY DEF Heads
    <3> QED BY <2>3, <3>1 DEF Select, history, BankInv, Fresh1, Chaining, Telling, HandedOver, Touched, NoReplay
  <2>4. CASE NoneLeft
    BY <2>4 DEF NoneLeft, Leave, history, BankInv, Fresh1, Chaining, Telling, HandedOver, Touched, NoReplay
  <2>5. CASE Deferred \/ Save
    BY <2>5 DEF Deferred, Save, tryVars, history, BankInv, Fresh1, Chaining, Telling, HandedOver
  <2> QED BY <2>1, <2>2, <2>3, <2>4, <2>5, TryInv, ChainDoneInv, ChainBrokenInv, SegmentInv, RecoverInv, LearnInv DEF Next
<1> QED BY Initially, <1>1, PTL DEF Spec

\* Every replay is banked once at most, and as what it came to, for any flow,
\* chains, store and candidates.
THEOREM ReplaysAreBankedOnce == Spec => []BankedOnce
<1>1. BankInv => BankedOnce
  BY DEF BankInv, Once, BankedOnce
<1> QED BY BankInvariant, <1>1, PTL

\* No candidate is tried on a page another one touched.
THEOREM TouchedIsLeft == Spec => NotRestarted
<1>1. BankInv => [pc = "try" /\ pc' # "recover" /\ runs' # runs => ~Touched]_vars
  BY DEF BankInv, Fresh1, Touched
<1> QED BY BankInvariant, <1>1, PTL DEF NotRestarted

\* The model that goes on is told of a replay that touched the page, unless its
\* result was lost.
THEOREM TouchedIsTold == Spec => []HandedOver
<1>1. BankInv => HandedOver
  BY DEF BankInv
<1> QED BY BankInvariant, <1>1, PTL

-----------------------------------------------------------------------------
(* What a run answers                                                      *)

Ended == pc \in {"deferred", "done"}
Result == {"success", "partial", "failure", "blocked", "assert-failed"}

\* What lets a flow go on.
Passing(i, result) == result \in {"success", "partial"} \/ (result = "failure" /\ Flow[i].adopted)

\* The steps before the one at hand have results, and a flow goes on only past
\* those that let it.
ResultInv ==
    /\ Nodes # {} => n \in Nodes
    /\ results \in [Nodes -> Result \cup {"none"}] /\ status \in {"success", "partial", "failure"}
    /\ pc # "done" => adopted = {i \in Nodes : Flow[i].adopted}
    /\ ~Ended => ~halted
    /\ ~halted => \A i \in Nodes :
         /\ i < n \/ Ended => results[i] # "none"
         /\ results[i] # "none" => Passing(i, results[i])

LEMMA NodesAre == Nodes = 1..Len(Flow) /\ Len(Flow) \in Nat
  BY FlowAssumption DEF Nodes

LEMMA StartsEmpty == Init => ResultInv
  BY NodesAre DEF Init, ResultInv, Result, Ended

LEMMA EndsResult ==
  ASSUME ResultInv, pc # "done", ~Ended, NEW result \in Result, NEW halts \in BOOLEAN, Ends(result, halts),
         halts \/ Passing(n, result) \/ Nodes = {}, adopted' = adopted
  PROVE  ResultInv'
<1>1. /\ results' = [results EXCEPT ![n] = result] /\ halted' = halts /\ status' = "success"
      /\ IF halts \/ n = Len(Flow) THEN pc' = "deferred" /\ n' = n ELSE pc' = "step" /\ n' = n + 1
  BY DEF Ends
<1>2. /\ results' \in [Nodes -> Result \cup {"none"}]
      /\ \A i \in Nodes : results'[i] = IF i = n THEN result ELSE results[i]
  BY <1>1 DEF ResultInv
<1>3. Nodes # {} => n \in Nodes /\ n' \in Nodes
  BY <1>1, NodesAre DEF ResultInv
<1>4. ASSUME ~halts, NEW i \in Nodes
      PROVE  (i < n' \/ Ended' => results'[i] # "none") /\ (results'[i] # "none" => Passing(i, results'[i]))
  <2>1. Passing(n, result) /\ n \in Nodes /\ ~halted
    BY <1>3, <1>4 DEF ResultInv
  <2>2. CASE i = n
    BY <1>2, <2>1, <2>2 DEF Result
  <2>3. CASE i # n
    <3>1. results'[i] = results[i] /\ (results[i] # "none" => Passing(i, results[i])) /\ (i < n => results[i] # "none")
      BY <1>2, <2>1, <2>3 DEF ResultInv
    <3>2. i < n' \/ Ended' => i < n
      BY <1>1, <1>4, <2>1, <2>3, NodesAre DEF Ended
    <3> QED BY <3>1, <3>2
  <2> QED BY <2>2, <2>3
<1>5. pc' # "done" /\ (~Ended' => ~halted')
  BY <1>1 DEF Ended
<1> QED BY <1>1, <1>2, <1>3, <1>4, <1>5 DEF ResultInv, Passing

LEMMA ResultInvariant == Spec => []ResultInv
<1>1. ResultInv /\ [Next]_vars => ResultInv'
  <2> SUFFICES ASSUME ResultInv, [Next]_vars PROVE ResultInv'
    OBVIOUS
  <2>1. CASE UNCHANGED vars
    BY <2>1 DEF vars, flowVars, learnVars, endVars, ResultInv, Ended, Passing
  <2>2. CASE Stopped
    BY <2>2, EndsResult DEF Stopped, flowVars, Ended, Result
  <2>3. CASE Assert
    <3>1. pc = "step" /\ adopted' = adopted
      BY <2>3 DEF Assert, flowVars
    <3>2. Ends("success", FALSE) \/ \E why \in {"assert-failed", "blocked"} : Ends(why, TRUE)
      BY <2>3 DEF Assert
    <3> QED BY <3>1, <3>2, EndsResult DEF Ended, Result, Passing
  <2>4. CASE Satisfied
    BY <2>4, EndsResult DEF Satisfied, flowVars, Ended, Result, Passing
  <2>5. CASE Repin
    <3>1. pc = "repin" /\ adopted' = adopted /\ Ends(status, Halts)
      BY <2>5 DEF Repin, flowVars
    <3>2. Halts \/ Passing(n, status) \/ Nodes = {}
      BY <3>1 DEF ResultInv, Halts, Passing
    <3>3. Halts \in BOOLEAN /\ status \in Result
      BY DEF Halts, ResultInv, Result
    <3> QED BY <3>1, <3>2, <3>3, EndsResult DEF Ended
  <2>6. CASE Recover
    <3>1. CASE Ends("blocked", TRUE)
      BY <2>6, <3>1, EndsResult DEF Recover, flowVars, Ended, Result
    <3>2. CASE pc' = "learn" /\ status' \in {"success", "partial", "failure"} /\ UNCHANGED <<n, results, halted>>
      BY <2>6, <3>2 DEF Recover, flowVars, ResultInv, Ended, Passing
    <3> QED BY <2>6, <3>1, <3>2 DEF Recover
  <2>7. CASE Select \/ Try \/ NoneLeft \/ ChainBroken \/ Segment
    <3>1. ~Ended /\ ~Ended' /\ UNCHANGED <<n, results, halted, status, adopted>>
      BY <2>7 DEF Select, Try, NoneLeft, ChainBroken, Segment, Refused, Untouched, Settles, Leave, Ended, flowVars, learnVars, endVars
    <3> QED BY <3>1 DEF ResultInv, Ended, Passing
  <2>8. CASE ChainDone \/ Learn
    <3>1. ~Ended /\ ~Ended' /\ UNCHANGED <<n, results, halted, adopted>> /\ status' \in {"success", "partial", "failure"}
      BY <2>8 DEF ChainDone, Learn, Ended, flowVars, endVars, ResultInv
    <3> QED BY <3>1 DEF ResultInv, Ended, Passing
  <2>9. CASE Deferred \/ Save
    <3>1. Ended /\ Ended' /\ UNCHANGED <<n, results, halted, status>> /\ (pc' # "done" => pc # "done" /\ adopted' = adopted)
      BY <2>9 DEF Deferred, Save, Ended, flowVars, learnVars, endVars
    <3> QED BY <3>1 DEF ResultInv, Passing
  <2> QED BY <2>1, <2>2, <2>3, <2>4, <2>5, <2>6, <2>7, <2>8, <2>9 DEF Next
<1> QED BY StartsEmpty, <1>1, PTL DEF Spec

\* A flow that answers success carried every step out, the adopted ones aside.
THEOREM SuccessIsWhole == Spec => []SuccessMeans
<1>1. ResultInv => SuccessMeans
  <2> SUFFICES ASSUME ResultInv, pc = "done", Report = "success", NEW i \in Nodes
               PROVE  results[i] = "success" \/ (Flow[i].adopted /\ results[i] # "none")
    BY DEF SuccessMeans
  <2> DEFINE Done == {k \in Nodes : results[k] = "success"}
  <2>1. CASE halted
    <3>1. IsFiniteSet(Nodes) /\ Cardinality(Nodes) = Len(Flow)
      <4>1. 1 \in Int /\ Len(Flow) \in Int
        BY NodesAre
      <4>2. IsFiniteSet(1..Len(Flow)) /\ Cardinality(1..Len(Flow)) = IF 1 > Len(Flow) THEN 0 ELSE Len(Flow) - 1 + 1
        BY <4>1, FS_Interval
      <4> QED BY <4>2, NodesAre
    <3>2. ~(Cardinality(Done) < Len(Flow))
      BY <2>1 DEF Report
    <3>3. Cardinality(Done) \in Nat /\ Cardinality(Done) <= Cardinality(Nodes) /\ (Cardinality(Done) = Cardinality(Nodes) => Done = Nodes)
      BY <3>1, FS_Subset, FS_CardinalityType
    <3>4. Done = Nodes
      <4> HIDE DEF Done
      <4> QED BY <3>1, <3>2, <3>3, NodesAre
    <3> QED BY <3>4
  <2>2. CASE ~halted
    <3>1. results[i] # "partial"
      BY <2>2 DEF Report
    <3> QED BY <2>2, <3>1 DEF ResultInv, Ended, Passing
  <2> QED BY <2>1, <2>2
<1> QED BY ResultInvariant, <1>1, PTL

-----------------------------------------------------------------------------
(* Who owns a procedure                                                    *)

\* Nothing of a procedure that is there in part comes or goes.
Same(a, b) == \A s \in Seg : b[s] = "absent" <=> a[s] = "absent"
Steady(a, b) == \A s, t \in Seg : s[1] = t[1] /\ a[s] # "absent" => (b[t] = "absent" <=> a[t] = "absent")

\* A new procedure is stored whole.
WholeIn(st) == \A f \in Fresh : \A k, m \in 1..Length[f] : st[<<f, k>>] = "absent" <=> st[<<f, m>>] = "absent"

\* What is tried, told of and learned is in the store.
Presents ==
    /\ \A c \in cands : store[c] # "absent"
    /\ pc = "chain" => store[Last.seg] # "absent" /\ store[Head1(Last.seg)] # "absent"
    /\ sk.seg # None => store[sk.seg] # "absent"
    /\ \A f \in Fresh : parent[f] # None => store[parent[f]] # "absent"
    /\ outcome.seg # None => store[outcome.seg] # "absent"
    /\ compiled # None => store[<<compiled, 1>>] # "absent"

\* The pins this run moved, not only those it began with, are kept apart.
Owners ==
    /\ \A i \in Nodes : pending[i] # None /\ i \notin late => store[pending[i]] # "absent"
    /\ pc # "done" => \A i \in Nodes : pin[i] = Flow[i].pin
    /\ pc = "done" => \A i \in Nodes : pin[i] = Owned(i)
    /\ \A i, j \in Nodes : i # j /\ Owned(i) = Owned(j) /\ Mutates(Owned(i))
                             => {i, j} \cap late # {} \/ Flow[i].pin = Flow[j].pin

OwnTypes ==
    /\ store \in [Seg -> Status] /\ parent \in [Fresh -> Seg \cup {None}]
    /\ pin \in [Nodes -> Seg \cup {None}] /\ pending \in [Nodes -> Seg \cup {None}]
    /\ deferred \in Seq([step : Nodes, seg : Seg]) /\ late \subseteq Nodes
    /\ outcome \in [seg : Seg \cup {None}, ok : BOOLEAN] /\ compiled \in Names \cup {None}

OwnerInv == OwnTypes /\ WholeIn(store) /\ Presents /\ Owners

LEMMA HeadIs ==
  ASSUME NEW s \in Seg
  PROVE  Head1(s) \in Seg /\ Head1(s) # None /\ (s[2] = 1 => Head1(s) = s)
<1>1. PICK p \in Names : \E k \in 1..Length[p] : s = <<p, k>>
  BY DEF Seg
<1>2. PICK k \in 1..Length[p] : s = <<p, k>>
  BY <1>1
<1>3. 1 \in 1..Length[p] /\ s[1] = p /\ s[2] = k
  BY <1>2, NamesAssumption
<1>4. Head1(s) \in Seg
  BY <1>3, SegIs DEF Head1
<1> QED BY <1>2, <1>3, <1>4, NamesAssumption DEF Head1

LEMMA CreditedIs ==
  ASSUME NEW st \in [Seg -> Status], NEW s \in Seg, NEW x \in Credited(st, s)
  PROVE  x \in [Seg -> Status] /\ Same(st, x)
  BY DEF Credited, Same, Status

LEMMA StruckIs ==
  ASSUME NEW st \in [Seg -> Status], NEW s \in Seg, NEW x \in Struck(st, s)
  PROVE  x \in [Seg -> Status] /\ Same(st, x)
  BY DEF Struck, Same, Status

LEMMA SameIsSteady ==
  ASSUME NEW a, NEW b, Same(a, b)
  PROVE  Steady(a, b) /\ (WholeIn(a) => WholeIn(b))
<1>1. Steady(a, b)
  BY DEF Same, Steady
<1>2. ASSUME WholeIn(a), NEW f \in Fresh, NEW k \in 1..Length[f], NEW m \in 1..Length[f]
      PROVE  b[<<f, k>>] = "absent" <=> b[<<f, m>>] = "absent"
  <2>1. <<f, k>> \in Seg /\ <<f, m>> \in Seg
    BY SegIs DEF Names
  <2> QED BY <1>2, <2>1 DEF Same, WholeIn
<1> QED BY <1>1, <1>2 DEF WholeIn

LEMMA SameThen ==
  ASSUME NEW a, NEW b, NEW c, Same(a, b), Same(b, c) \/ Steady(b, c)
  PROVE  Steady(a, c)
<1>1. Steady(b, c)
  BY SameIsSteady
<1> QED BY <1>1 DEF Same, Steady

LEMMA SameTwice ==
  ASSUME NEW a, NEW b, NEW c, Same(a, b), Same(b, c)
  PROVE  Same(a, c)
  BY DEF Same

\* What was there stays, and whether it changes something does too.
LEMMA MutatesStays ==
  ASSUME Steady(store, store'), NEW s \in Seg, store[s] # "absent"
  PROVE  store'[s] # "absent" /\ (Mutates(s)' <=> Mutates(s))
<1>1. store'[s] # "absent"
  BY DEF Steady
<1>2. s[1] \in Names /\ s[2] \in 1..Length[s[1]] /\ s # None /\ Length[s[1]] \in Nat
  BY SegParts, NamesAssumption
<1>3. ASSUME NEW k \in s[2]..Length[s[1]]
      PROVE  store'[<<s[1], k>>] = "absent" <=> store[<<s[1], k>>] = "absent"
  <2>1. <<s[1], k>> \in Seg
    BY <1>2, <1>3, SegIs
  <2>2. <<s[1], k>>[1] = s[1]
    OBVIOUS
  <2> QED BY <2>1, <2>2 DEF Steady
<1> QED BY <1>1, <1>2, <1>3 DEF Mutates

\* The outcome of a replay leaves in the store what is in it.
LEMMA OutcomeStore ==
  ASSUME BankInv, OwnerInv, NEW o \in Outcomes
  PROVE  o.st \in [Seg -> Status] /\ Same(store, o.st)
<1>0. store \in [Seg -> Status] /\ Same(store, store) /\ parent \in [Fresh -> Seg \cup {None}]
  BY DEF OwnerInv, OwnTypes, Same
<1>1. CASE sk.seg = None \/ store[sk.seg] = "absent" \/ o.st = store
  BY <1>0, <1>1 DEF Outcomes
<1>2. CASE sk.seg # None /\ store[sk.seg] # "absent" /\ o.st # store
  <2>1. sk.seg \in Seg
    BY <1>2 DEF BankInv
  <2>2. CASE o.st \in Struck(store, sk.seg)
    BY <1>0, <2>1, <2>2, StruckIs
  <2>3. CASE o.st \in Credited(store, sk.seg)
    BY <1>0, <2>1, <2>3, CreditedIs
  <2>4. CASE sk.seg[1] \in Fresh /\ parent[sk.seg[1]] # None
             /\ \E x \in Credited(store, sk.seg) : o.st = [x EXCEPT ![parent[sk.seg[1]]] = "demoted"]
    <3> DEFINE of == parent[sk.seg[1]]
    <3>1. PICK x \in Credited(store, sk.seg) : o.st = [x EXCEPT ![of] = "demoted"]
      BY <2>4
    <3>2. of \in Seg /\ store[of] # "absent"
      BY <1>0, <2>4 DEF OwnerInv, Presents
    <3>3. x \in [Seg -> Status] /\ Same(store, x)
      BY <1>0, <2>1, <3>1, CreditedIs
    <3> HIDE DEF of
    <3> QED BY <3>1, <3>2, <3>3 DEF Same, Status
  <2> QED BY <1>2, <2>2, <2>3, <2>4 DEF Outcomes
<1> QED BY <1>1, <1>2

\* What a recording adds is whole, and changes nothing that is there.
LEMMA KeepsStore ==
  ASSUME NEW st \in [Seg -> Status], WholeIn(st), NEW c \in Keeps(st)
  PROVE  /\ c.st \in [Seg -> Status] /\ Steady(st, c.st) /\ WholeIn(c.st)
         /\ c.name \in Names \cup {None} /\ (c.name # None => c.st[<<c.name, 1>>] # "absent")
<1>2. ASSUME NEW h \in Heads, \A k \in 1..Length[h[1]] : st[<<h[1], k>>] \notin {"absent", "demoted"},
             c.st \in Kept(st, h[1]), c.name = h[1]
      PROVE  c.st \in [Seg -> Status] /\ Steady(st, c.st) /\ WholeIn(c.st) /\ c.name \in Names /\ c.st[<<c.name, 1>>] # "absent"
  <2>1. h \in Seg /\ h[1] \in Names /\ 1 \in 1..Length[h[1]] /\ <<h[1], 1>> \in Seg
    BY <1>2, SegParts, SegIs, NamesAssumption DEF Heads
  <2>2. c.st \in [Seg -> Status] /\ Same(st, c.st)
    <3>1. PICK x \in {"provisional", "validated"} :
             c.st = [s \in Seg |-> IF s[1] = h[1] /\ st[s] = "provisional" THEN x ELSE st[s]]
      BY <1>2 DEF Kept
    <3> QED BY <3>1 DEF Same, Status
  <2> QED BY <1>2, <2>1, <2>2, SameIsSteady DEF Same
<1>3. ASSUME NEW f \in Fresh, st[<<f, 1>>] = "absent", c = [st |-> Stored(st, f), name |-> f]
      PROVE  c.st \in [Seg -> Status] /\ Steady(st, c.st) /\ WholeIn(c.st) /\ c.name \in Names /\ c.st[<<c.name, 1>>] # "absent"
  <2>1. f \in Names /\ 1 \in 1..Length[f] /\ <<f, 1>> \in Seg
    BY SegIs, NamesAssumption DEF Names
  <2>2. c.st = [s \in Seg |-> IF s[1] = f THEN "provisional" ELSE st[s]] /\ c.name = f
    BY <1>3 DEF Stored
  <2>3. \A s \in Seg : s[1] = f => st[s] = "absent"
    <3> SUFFICES ASSUME NEW s \in Seg, s[1] = f PROVE st[s] = "absent"
      OBVIOUS
    <3>1. PICK p \in Names : \E k \in 1..Length[p] : s = <<p, k>>
      BY DEF Seg
    <3>2. PICK k \in 1..Length[p] : s = <<p, k>>
      BY <3>1
    <3>3. p = f
      BY <3>2
    <3> QED BY <1>3, <2>1, <3>2, <3>3 DEF WholeIn
  <2>4. c.st \in [Seg -> Status] /\ c.st[<<f, 1>>] # "absent"
    BY <2>1, <2>2 DEF Status
  <2>5. Steady(st, c.st)
    BY <2>2, <2>3 DEF Steady
  <2>6. WholeIn(c.st)
    <3> SUFFICES ASSUME NEW g \in Fresh, NEW k \in 1..Length[g], NEW m \in 1..Length[g]
                 PROVE  c.st[<<g, k>>] = "absent" <=> c.st[<<g, m>>] = "absent"
      BY DEF WholeIn
    <3>1. <<g, k>> \in Seg /\ <<g, m>> \in Seg
      BY SegIs DEF Names
    <3>2. st[<<g, k>>] = "absent" <=> st[<<g, m>>] = "absent"
      BY DEF WholeIn
    <3> QED BY <2>2, <3>1, <3>2
  <2> QED BY <2>1, <2>2, <2>4, <2>5, <2>6
<1>4. c \in {[st |-> st, name |-> None]} \cup Merges(st) \cup Additions(st)
  BY DEF Keeps
<1>5. CASE c = [st |-> st, name |-> None]
  BY <1>5 DEF Steady
<1>6. CASE c \in Merges(st)
  <2>1. PICK h \in Heads : Sound(st, h[1]) /\ c \in [st : Kept(st, h[1]), name : {h[1]}]
    BY <1>6 DEF Merges
  <2>2. c.st \in Kept(st, h[1]) /\ c.name = h[1]
    BY <2>1
  <2> QED BY <1>2, <2>1, <2>2 DEF Sound
<1>7. CASE c \in Additions(st)
  BY <1>3, <1>7 DEF Additions
<1> QED BY <1>4, <1>5, <1>6, <1>7

LEMMA CandidateIs ==
  ASSUME OwnerInv, Candidate # None
  PROVE  Candidate \in Seg /\ store[Candidate] # "absent"
<1>1. CASE Candidate = outcome.seg
  BY <1>1 DEF OwnerInv, OwnTypes, Presents
<1>2. CASE compiled # None /\ Candidate = <<compiled, 1>>
  <2>1. compiled \in Names /\ 1 \in 1..Length[compiled]
    BY <1>2, NamesAssumption DEF OwnerInv, OwnTypes
  <2> QED BY <1>2, <2>1, SegIs DEF OwnerInv, Presents
<1> QED BY <1>1, <1>2 DEF Candidate

\* No step takes a part of a procedure away, or adds one to it.
LEMMA StoreStep ==
  ASSUME BankInv, OwnerInv, Next
  PROVE  store' \in [Seg -> Status] /\ Steady(store, store') /\ WholeIn(store')
<1>0. store \in [Seg -> Status] /\ WholeIn(store) /\ Steady(store, store)
  BY DEF OwnerInv, OwnTypes, Steady
<1>1. ASSUME store' \in [Seg -> Status], Same(store, store')
      PROVE  store' \in [Seg -> Status] /\ Steady(store, store') /\ WholeIn(store')
  BY <1>0, <1>1, SameIsSteady
<1>2. CASE store' = store
  BY <1>0, <1>2
<1>3. CASE Assert
  <2>1. store' \in [Seg -> Status] /\ \A s \in Seg : store'[s] = store[s] \/ (store[s] = "provisional" /\ store'[s] = "validated")
    BY <1>3 DEF Assert
  <2> QED BY <1>1, <2>1 DEF Same
<1>4. CASE Try
  <2>1. PICK c \in cands : store' = store \/ store' \in Struck(store, c)
    BY <1>4 DEF Try, Refused, Untouched, Settles
  <2>2. c \in Seg
    BY DEF BankInv, Fresh1
  <2> QED BY <1>0, <1>1, <1>2, <2>1, <2>2, StruckIs
<1>5. CASE ChainDone \/ ChainBroken
  <2>1. Last.seg \in Seg /\ Head1(Last.seg) \in Seg
    BY <1>5, PassedIs, HeadIs DEF ChainDone, ChainBroken
  <2>2. store' = store \/ store' \in Credited(store, Last.seg) \/ store' \in Credited(store, Head1(Last.seg))
    BY <1>5 DEF ChainDone, ChainBroken
  <2> QED BY <1>0, <1>1, <1>2, <2>1, <2>2, CreditedIs
<1>6. CASE Segment
  <2>1. pc = "chain" /\ Last.seg \in Seg
    BY <1>6, PassedIs DEF Segment
  <2>2. PICK s \in After(Last.seg) :
          \E st \in (IF Last.seg[2] > 1 THEN Credited(store, Last.seg) ELSE {store}) :
             store' = st \/ store' \in Credited(st, Head1(s))
    BY <1>6 DEF Segment
  <2>3. PICK st \in (IF Last.seg[2] > 1 THEN Credited(store, Last.seg) ELSE {store}) :
             store' = st \/ store' \in Credited(st, Head1(s))
    BY <2>2
  <2>4. st \in [Seg -> Status] /\ Same(store, st)
    <3>1. Same(store, store)
      BY DEF Same
    <3> QED BY <1>0, <2>1, <2>3, <3>1, CreditedIs
  <2>5. Head1(s) \in Seg
    BY <2>1, AfterIs, HeadIs
  <2>6. store' \in [Seg -> Status] /\ (store' = st \/ Same(st, store'))
    BY <2>3, <2>4, <2>5, CreditedIs
  <2>7. Same(store, store')
    BY <2>4, <2>6, SameTwice
  <2> QED BY <1>1, <2>6, <2>7
<1>7. CASE Learn
  <2>1. PICK o \in Outcomes : store' = o.st \/ \E c \in Keeps(o.st) : store' = c.st
    <3>1. PICK o \in Outcomes : \E c \in {[st |-> o.st, name |-> None]} \cup Keeps(o.st) : store' = c.st
      BY <1>7 DEF Learn
    <3> QED BY <3>1
  <2>2. o.st \in [Seg -> Status] /\ Same(store, o.st)
    BY OutcomeStore
  <2>3. WholeIn(o.st)
    BY <1>0, <2>2, SameIsSteady
  <2>4. CASE store' = o.st
    BY <1>1, <2>2, <2>4
  <2>5. ASSUME NEW c \in Keeps(o.st), store' = c.st
        PROVE  store' \in [Seg -> Status] /\ Steady(store, store') /\ WholeIn(store')
    <3>1. c.st \in [Seg -> Status] /\ Steady(o.st, c.st) /\ WholeIn(c.st)
      BY <2>2, <2>3, KeepsStore
    <3> QED BY <2>2, <2>5, <3>1, SameThen
  <2> QED BY <2>1, <2>4, <2>5
<1>8. CASE Repin
  <2>1. store' = store \/ (Candidate # None /\ store' = [store EXCEPT ![Candidate] = "demoted"])
    BY <1>8 DEF Repin
  <2>2. CASE Candidate # None /\ store' = [store EXCEPT ![Candidate] = "demoted"]
    <3>1. Candidate \in Seg /\ store[Candidate] # "absent"
      BY <2>2, CandidateIs
    <3>2. \E c \in Seg : store[c] # "absent" /\ store' = [store EXCEPT ![c] = "demoted"]
      BY <2>2, <3>1
    <3>3. store' \in [Seg -> Status] /\ Same(store, store')
      BY <1>0, <3>2 DEF Same, Status
    <3> QED BY <1>1, <3>3
  <2> QED BY <1>2, <2>1, <2>2
<1>9. CASE Stopped \/ Satisfied \/ Select \/ NoneLeft \/ Recover \/ Deferred \/ Save
  BY <1>2, <1>9 DEF Stopped, Satisfied, Select, NoneLeft, Recover, Deferred, Save
<1> QED BY <1>3, <1>4, <1>5, <1>6, <1>7, <1>8, <1>9 DEF Next

\* What was in the store when it was tried, told of or learned still is.
LEMMA PresentStep ==
  ASSUME BankInv, BankInv', OwnerInv, Next
  PROVE  Presents'
<1>0. \A s \in Seg : store[s] # "absent" => store'[s] # "absent"
  BY StoreStep DEF Steady
<1>a. /\ \A c \in cands : c \in Seg /\ store[c] # "absent" /\ store'[c] # "absent" /\ Head1(c) = c
      /\ sk.seg # None => sk.seg \in Seg /\ store[sk.seg] # "absent" /\ store'[sk.seg] # "absent"
      /\ \A f \in Fresh : parent[f] # None => parent[f] \in Seg /\ store'[parent[f]] # "absent"
  BY <1>0, HeadIs DEF OwnerInv, OwnTypes, Presents, BankInv, Fresh1
<1>b. /\ outcome.seg # None => store'[outcome.seg] # "absent"
      /\ compiled # None => store'[<<compiled, 1>>] # "absent"
  <2>1. compiled # None => <<compiled, 1>> \in Seg
    BY SegIs, NamesAssumption DEF OwnerInv, OwnTypes
  <2> QED BY <1>0, <2>1 DEF OwnerInv, OwnTypes, Presents
<1>c. pc = "chain" => /\ Last.seg \in Seg /\ Head1(Last.seg) \in Seg
                      /\ store[Last.seg] # "absent" /\ store[Head1(Last.seg)] # "absent"
                      /\ store'[Last.seg] # "absent" /\ store'[Head1(Last.seg)] # "absent"
  BY <1>0, PassedIs, HeadIs DEF OwnerInv, Presents
<1>1. ASSUME NEW result, NEW halts, Ends(result, halts), parent' = parent
      PROVE  Presents'
  BY <1>1, <1>a DEF Ends, NoReplay, Presents
<1>2. CASE Stopped \/ Assert \/ Satisfied \/ Repin
  BY <1>1, <1>2 DEF Stopped, Assert, Satisfied, Repin
<1>3. CASE Select
  <2>1. \A c \in cands' : c \in Seg /\ store[c] # "absent"
    BY <1>3 DEF Select, Heads, Live
  <2> QED BY <1>0, <1>3, <1>a, <1>b, <2>1 DEF Select, learnVars, Presents
<1>4. CASE Try
  <2>1. PICK c \in cands, how \in How :
          \/ how = "refused" /\ Refused(c)
          \/ Free(how) /\ Untouched(c, how)
          \/ how # "refused" /\ ~Free(how) /\ Settles(c, how)
    BY <1>4 DEF Try
  <2>2. UNCHANGED <<parent, outcome, compiled>> /\ pc = "try"
    BY <1>4 DEF Try, learnVars
  <2>3. CASE Refused(c) \/ Untouched(c, how)
    BY <1>a, <1>b, <2>2, <2>3 DEF Refused, Untouched, Presents
  <2>4. CASE Settles(c, how)
    <3>1. cands' = {} /\ runs' = Ran(c, how) /\ (sk' = sk \/ sk' = Told(c, how))
      BY <2>4 DEF Settles, Leave
    <3>2. c \in Seg /\ runs \in Seq(Run)
      BY DEF BankInv, Fresh1
    <3>3. Last'.seg = c
      BY <3>1, <3>2, RanIs DEF Ran, Last
    <3>4. Head1(Last.seg)' = c
      BY <1>a, <3>3 DEF Head1
    <3> QED BY <1>a, <1>b, <2>2, <3>1, <3>3, <3>4 DEF Told, Presents
  <2> QED BY <2>1, <2>3, <2>4
<1>5. CASE NoneLeft
  BY <1>5, <1>a, <1>b DEF NoneLeft, Leave, learnVars, Presents
<1>6. CASE ChainDone \/ ChainBroken
  <2>1. pc = "chain" /\ pc' # "chain" /\ cands' = cands /\ UNCHANGED <<parent, outcome, compiled>>
    BY <1>6 DEF ChainDone, ChainBroken, tryVars, learnVars
  <2>2. sk'.seg = Head1(Last.seg) \/ sk'.seg = Last.seg
    <3>1. CASE ChainDone
      BY <3>1 DEF ChainDone
    <3>2. CASE ChainBroken
      BY <3>2 DEF ChainBroken, Told
    <3> QED BY <1>6, <3>1, <3>2
  <2>3. store'[sk'.seg] # "absent"
    BY <1>c, <2>1, <2>2
  <2> QED BY <1>a, <1>b, <2>1, <2>3 DEF Presents
<1>7. CASE Segment
  <2>1. pc = "chain" /\ UNCHANGED <<cands, parent, outcome, compiled>>
    BY <1>7 DEF Segment, learnVars
  <2>2. PICK s \in After(Last.seg), how \in How :
          /\ store[s] # "absent"
          /\ LET ran == Append(Passed, [seg |-> s, how |-> how, banked |-> <<>>])
             IN  \/ pc' = "chain" /\ runs' = ran /\ UNCHANGED sk
                 \/ pc' = "recover" /\ UNCHANGED sk
                 \/ pc' = "recover" /\ sk' = Told(s, how)
    BY <1>7 DEF Segment, Passed
  <2>3. s \in Seg /\ Head1(s) = Head1(Last.seg)
    <3>1. s \in Seg
      BY <1>c, <2>1, AfterIs
    <3>2. s[1] = Last.seg[1]
      BY DEF After
    <3> QED BY <3>1, <3>2 DEF Head1
  <2>4. CASE pc' = "chain" /\ UNCHANGED sk
    <3>1. runs' = Append(Passed, [seg |-> s, how |-> how, banked |-> <<>>])
      BY <2>2, <2>4
    <3>2. Last'.seg = s
      BY <2>1, <2>3, <3>1, PassedIs, RanIs DEF Last
    <3>3. Head1(Last.seg)' = Head1(s)
      BY <3>2 DEF Head1
    <3> QED BY <1>0, <1>a, <1>b, <1>c, <2>1, <2>2, <2>3, <2>4, <3>2, <3>3 DEF Presents
  <2>5. CASE pc' = "recover" /\ (UNCHANGED sk \/ sk' = Told(s, how))
    <3>1. sk' = Told(s, how) => store'[sk'.seg] # "absent"
      BY <1>0, <2>2, <2>3 DEF Told
    <3> QED BY <1>a, <1>b, <2>1, <2>5, <3>1 DEF Presents
  <2> QED BY <2>2, <2>4, <2>5
<1>8. CASE Recover
  <2>1. CASE Ends("blocked", TRUE)
    BY <1>1, <1>8, <2>1 DEF Recover
  <2>2. CASE pc' = "learn" /\ UNCHANGED <<cands, outcome, compiled, sk>>
    BY <1>8, <1>a, <1>b, <2>2 DEF Recover, Presents
  <2>3. ASSUME NEW s \in Heads, NEW how \in How, pc' = "learn", UNCHANGED <<cands, outcome, compiled>>, sk' = Told(s, how)
        PROVE  Presents'
    <3>1. s \in Seg /\ store[s] # "absent"
      BY DEF Heads, Live
    <3> QED BY <1>0, <1>8, <1>a, <1>b, <2>3, <3>1 DEF Recover, Told, Presents
  <2> QED BY <1>8, <2>1, <2>2, <2>3 DEF Recover, tryVars
<1>9. CASE Learn
  <2>1. pc' = "repin" /\ UNCHANGED <<cands, sk>>
    BY <1>9 DEF Learn, tryVars
  <2>2. outcome'.seg = None \/ outcome'.seg = sk.seg
    BY <1>9 DEF Learn
  <2>3. PICK o \in Outcomes : \E c \in {[st |-> o.st, name |-> None]} \cup Keeps(o.st) :
          /\ store' = c.st /\ compiled' = c.name
          /\ parent' = parent \/ parent' = [parent EXCEPT ![c.name] = sk.seg]
    BY <1>9 DEF Learn
  <2>4. PICK c \in {[st |-> o.st, name |-> None]} \cup Keeps(o.st) :
          /\ store' = c.st /\ compiled' = c.name
          /\ parent' = parent \/ parent' = [parent EXCEPT ![c.name] = sk.seg]
    BY <2>3
  <2>5. compiled' # None => store'[<<compiled', 1>>] # "absent"
    <3>1. o.st \in [Seg -> Status] /\ WholeIn(o.st)
      BY OutcomeStore, SameIsSteady DEF OwnerInv
    <3>2. CASE c \in Keeps(o.st)
      BY <2>4, <3>1, <3>2, KeepsStore
    <3>3. CASE c = [st |-> o.st, name |-> None]
      BY <2>4, <3>3
    <3> QED BY <2>4, <3>2, <3>3
  <2>6. \A f \in Fresh : parent'[f] # None => parent'[f] = parent[f] \/ parent'[f] = sk.seg
    BY <2>4 DEF OwnerInv, OwnTypes
  <2>7. \A f \in Fresh : parent'[f] # None => store'[parent'[f]] # "absent"
    BY <1>a, <2>6
  <2>8. \A s \in cands' : store'[s] # "absent"
    BY <1>a, <2>1
  <2>9. sk'.seg # None => store'[sk'.seg] # "absent"
    BY <1>a, <2>1
  <2>10. outcome'.seg # None => store'[outcome'.seg] # "absent"
    BY <1>a, <2>2
  <2> QED BY <2>1, <2>5, <2>7, <2>8, <2>9, <2>10 DEF Presents
<1>10. CASE Deferred \/ Save
  BY <1>10, <1>a, <1>b DEF Deferred, Save, tryVars, learnVars, Presents
<1> QED BY <1>2, <1>3, <1>4, <1>5, <1>6, <1>7, <1>8, <1>9, <1>10 DEF Next
\* What changes something and was there changed something before.
LEMMA MutatesWas ==
  ASSUME Steady(store, store'), NEW s \in Seg, store[s] # "absent", store'[s] # "absent",
         \E k \in s[2]..Length[s[1]] : <<s[1], k>> \in Acts /\ store'[<<s[1], k>>] # "absent"
  PROVE  Mutates(s)
<1>1. Mutates(s)'
  BY SegParts DEF Mutates
<1> QED BY <1>1, MutatesStays

\* As long as no pin moves, owners are who they were.
LEMMA SameOwners ==
  ASSUME OwnTypes, Owners, Steady(store, store'), NEW i \in Nodes, NEW j \in Nodes, i # j,
         pc # "done", Owned(i)' = Owned(i), Owned(j)' = Owned(j), late \subseteq late',
         Owned(i)' = Owned(j)', Mutates(Owned(i))'
  PROVE  {i, j} \cap late' # {} \/ Flow[i].pin = Flow[j].pin
<1>1. CASE i \in late \/ j \in late
  BY <1>1
<1>2. CASE pending[i] = None /\ pending[j] = None
  BY <1>2 DEF Owners, Owned
<1>3. CASE i \notin late /\ j \notin late /\ (pending[i] # None \/ pending[j] # None)
  <2>1. Owned(i) \in Seg /\ store[Owned(i)] # "absent"
    BY <1>3 DEF OwnTypes, Owners, Owned
  <2>2. Mutates(Owned(i))
    <3>1. PICK s \in Seg : s = Owned(i) /\ store[s] # "absent"
      BY <2>1
    <3>2. Owned(i)' = s
      BY <3>1
    <3>3. /\ store'[s] # "absent"
          /\ \E k \in s[2]..Length[s[1]] : <<s[1], k>> \in Acts /\ store'[<<s[1], k>>] # "absent"
      BY <3>2 DEF Mutates
    <3>4. Mutates(s)
      BY <3>1, <3>3, MutatesWas
    <3> QED BY <3>1, <3>4 DEF Mutates
  <2>3. Owned(i) = Owned(j)
    OBVIOUS
  <2>4. \A k, m \in Nodes : k # m /\ Owned(k) = Owned(m) /\ Mutates(Owned(k))
                             => {k, m} \cap late # {} \/ Flow[k].pin = Flow[m].pin
    BY DEF Owners
  <2>5. {i, j} \cap late # {} \/ Flow[i].pin = Flow[j].pin
    BY <2>2, <2>3, <2>4
  <2> QED BY <2>5
<1> QED BY <1>1, <1>2, <1>3

LEMMA NodesThere == Nodes # {}
<1>1. Flow \in Seq([kind : {"do", "assert"}, pin : Seg \cup {None}, asks : BOOLEAN, adopted : BOOLEAN]) /\ Flow # <<>>
  BY FlowAssumption
<1>2. Len(Flow) > 0
  BY <1>1
<1> QED BY <1>2, NodesAre

\* Only Repin, Deferred and Save touch the pins, and each keeps them apart.
LEMMA OwnersStep ==
  ASSUME BankInv, ResultInv, OwnerInv, Next
  PROVE  Owners'
<1>0. OwnTypes /\ Owners /\ Steady(store, store')
  BY StoreStep DEF OwnerInv
<1>a. \A s \in Seg : store[s] # "absent" => store'[s] # "absent"
  BY <1>0 DEF Steady
<1>1. ASSUME pc # "done", pc' # "done", UNCHANGED <<pin, pending, late>> PROVE Owners'
  <2>1. \A i \in Nodes : Owned(i)' = Owned(i)
    BY <1>1 DEF Owned
  <2>2. \A i \in Nodes : pending'[i] # None /\ i \notin late' => store'[pending'[i]] # "absent"
    BY <1>0, <1>1, <1>a DEF OwnTypes, Owners
  <2>3. \A i, j \in Nodes : i # j /\ Owned(i)' = Owned(j)' /\ Mutates(Owned(i))'
                             => {i, j} \cap late' # {} \/ Flow[i].pin = Flow[j].pin
    BY <1>0, <1>1, <2>1, SameOwners
  <2> QED BY <1>0, <1>1, <2>2, <2>3 DEF Owners
<1>2. CASE Stopped \/ Assert \/ Satisfied
  <2>1. pc = "step" /\ UNCHANGED <<pin, pending, late>>
    BY <1>2 DEF Stopped, Assert, Satisfied, flowVars
  <2>2. \E result, halts : Ends(result, halts)
    BY <1>2 DEF Stopped, Assert, Satisfied
  <2> QED BY <1>1, <2>1, <2>2 DEF Ends
<1>3. CASE Select \/ Try \/ NoneLeft \/ ChainDone \/ ChainBroken \/ Segment \/ Recover \/ Learn
  <2>1. UNCHANGED <<pin, pending, late>>
    BY <1>3 DEF Select, Try, NoneLeft, ChainDone, ChainBroken, Segment, Recover, Learn, flowVars, endVars, history
  <2>2. pc # "done" /\ pc' # "done"
    <3>1. CASE Recover
      BY <3>1 DEF Recover, Ends
    <3>2. CASE Try \/ NoneLeft
      BY <3>2 DEF Try, NoneLeft, Refused, Untouched, Settles, Leave
    <3> QED BY <1>3, <3>1, <3>2 DEF Select, ChainDone, ChainBroken, Segment, Learn
  <2> QED BY <1>1, <2>1, <2>2
<1>4. CASE Repin
  <2>1. pc = "repin" /\ pc' # "done" /\ UNCHANGED <<pin, late>>
    BY <1>4 DEF Repin, Ends, flowVars
  <2>2. pending' = pending \/ (Decides(Candidate) /\ pending' = [pending EXCEPT ![n] = Candidate])
    BY <1>4 DEF Repin
  <2>3. CASE pending' = pending
    BY <1>1, <2>1, <2>3
  <2>4. CASE Decides(Candidate) /\ pending' = [pending EXCEPT ![n] = Candidate]
    <3> DEFINE c == Candidate
    <3>1. c \in Seg /\ store[c] # "absent" /\ store'[c] # "absent" /\ c # None
      BY <1>a, <2>4, CandidateIs DEF Decides
    <3>2. Mutates(c) => \A i \in Nodes \ {n} : Owned(i) # c
      BY <2>4 DEF Decides, Adoptable
    <3> HIDE DEF c
    <3>3. PICK m \in Nodes : m = n /\ pending' = [pending EXCEPT ![m] = c]
      <4>1. pending' = [pending EXCEPT ![n] = c] /\ n \in Nodes
        BY <2>4, NodesThere DEF c, ResultInv
      <4> QED BY <4>1
    <3>4. /\ \A i \in Nodes \ {m} : pending'[i] = pending[i] /\ Owned(i)' = Owned(i)
          /\ pending'[m] = c /\ Owned(m)' = c
      BY <1>0, <2>1, <3>1, <3>3 DEF OwnTypes, Owned
    <3>5. \A i \in Nodes : pending'[i] # None /\ i \notin late' => store'[pending'[i]] # "absent"
      BY <1>0, <1>a, <2>1, <3>1, <3>4 DEF OwnTypes, Owners
    <3>6. ASSUME NEW i \in Nodes, NEW j \in Nodes, i # j, Owned(i)' = Owned(j)', Mutates(Owned(i))'
          PROVE  {i, j} \cap late' # {} \/ Flow[i].pin = Flow[j].pin
      <4>1. CASE i # m /\ j # m
        BY <1>0, <2>1, <3>4, <3>6, <4>1, SameOwners
      <4>2. CASE i = m \/ j = m
        <5>1. Owned(i)' = c /\ Owned(j)' = c
          BY <3>4, <3>6, <4>2
        <5>2. \E k \in c[2]..Length[c[1]] : <<c[1], k>> \in Acts /\ store'[<<c[1], k>>] # "absent"
          BY <3>6, <5>1 DEF Mutates
        <5>3. \A k \in Nodes \ {n} : Owned(k) # c
          BY <1>0, <3>1, <3>2, <5>2, MutatesWas
        <5> QED BY <3>3, <3>4, <3>6, <4>2, <5>1, <5>3
      <4> QED BY <4>1, <4>2
    <3> QED BY <1>0, <2>1, <3>5, <3>6 DEF Owners
  <2> QED BY <2>2, <2>3, <2>4
<1>5. CASE Deferred
  <2>1. pc = "deferred" /\ pc' = pc /\ UNCHANGED <<pin, store>>
    BY <1>5 DEF Deferred, flowVars
  <2>2. \/ UNCHANGED <<pending, late>>
        \/ late' = late \cup {Head(deferred).step} /\ pending' = [pending EXCEPT ![Head(deferred).step] = Head(deferred).seg]
    BY <1>5 DEF Deferred
  <2>3. CASE UNCHANGED <<pending, late>>
    BY <1>1, <2>1, <2>3
  <2>4. ASSUME NEW d, late' = late \cup {d}, NEW s, pending' = [pending EXCEPT ![d] = s]
        PROVE  Owners'
    <3>1. \A i \in Nodes \ {d} : pending'[i] = pending[i] /\ Owned(i)' = Owned(i)
      BY <1>0, <2>1, <2>4 DEF OwnTypes, Owned
    <3>2. \A i \in Nodes : pending'[i] # None /\ i \notin late' => store'[pending'[i]] # "absent"
      BY <1>0, <2>1, <2>4, <3>1 DEF Owners
    <3>3. ASSUME NEW i \in Nodes, NEW j \in Nodes, i # j, Owned(i)' = Owned(j)', Mutates(Owned(i))'
          PROVE  {i, j} \cap late' # {} \/ Flow[i].pin = Flow[j].pin
      <4>1. CASE i # d /\ j # d
        BY <1>0, <2>1, <2>4, <3>1, <3>3, <4>1, SameOwners
      <4>2. CASE i = d \/ j = d
        BY <2>4, <4>2
      <4> QED BY <4>1, <4>2
    <3> QED BY <1>0, <2>1, <3>2, <3>3 DEF Owners
  <2> QED BY <2>2, <2>3, <2>4
<1>6. CASE Save
  <2>1. pc = "deferred" /\ pc' = "done" /\ UNCHANGED <<store, pending, late>>
        /\ pin' = [i \in Nodes |-> Owned(i)]
    BY <1>6 DEF Save, Owned, endVars, history
  <2>2. \A i \in Nodes : Owned(i)' = Owned(i) /\ pin'[i] = Owned(i)'
    BY <2>1 DEF Owned
  <2>3. \A i, j \in Nodes : i # j /\ Owned(i)' = Owned(j)' /\ Mutates(Owned(i))'
                             => {i, j} \cap late' # {} \/ Flow[i].pin = Flow[j].pin
    BY <1>0, <2>1, <2>2, SameOwners
  <2> QED BY <1>0, <2>1, <2>2, <2>3 DEF Owners
<1> QED BY <1>2, <1>3, <1>4, <1>5, <1>6 DEF Next

LEMMA Member == ASSUME NEW S, NEW q \in Seq(S), NEW i \in DOMAIN q PROVE q[i] \in S
  OBVIOUS

LEMMA Longer == ASSUME NEW S, NEW q \in Seq(S), NEW e \in S PROVE Append(q, e) \in Seq(S)
  OBVIOUS

LEMMA Parts == ASSUME NEW S, NEW q \in Seq(S), q # <<>> PROVE Head(q) \in S /\ Tail(q) \in Seq(S)
  OBVIOUS

LEMMA OwnTypesStep ==
  ASSUME BankInv, ResultInv, OwnerInv, Next
  PROVE  OwnTypes'
<1>0. store' \in [Seg -> Status] /\ n \in Nodes
  BY StoreStep, NodesThere DEF ResultInv
<1>a. OwnTypes /\ sk.seg \in Seg \cup {None}
  BY DEF OwnerInv, BankInv
<1>1. CASE Stopped \/ Assert \/ Satisfied
  <2>1. UNCHANGED <<parent, pin, pending, deferred, late>>
    BY <1>1 DEF Stopped, Assert, Satisfied, flowVars
  <2>2. outcome' = [seg |-> None, ok |-> FALSE] /\ compiled' = None
    BY <1>1 DEF Stopped, Assert, Satisfied, Ends
  <2> QED BY <1>0, <1>a, <2>1, <2>2 DEF OwnTypes
<1>2. CASE Select \/ Try \/ NoneLeft \/ ChainDone \/ ChainBroken \/ Segment
  BY <1>0, <1>a, <1>2 DEF Select, Try, NoneLeft, ChainDone, ChainBroken, Segment, flowVars, learnVars, endVars, history, OwnTypes
<1>3. CASE Recover
  <2>1. UNCHANGED <<parent, pin, pending, deferred, late>>
    BY <1>3 DEF Recover, flowVars
  <2>2. UNCHANGED <<outcome, compiled>> \/ (outcome' = [seg |-> None, ok |-> FALSE] /\ compiled' = None)
    <3>1. CASE Ends("blocked", TRUE)
      BY <3>1 DEF Ends
    <3>2. CASE UNCHANGED <<n, tryVars, outcome, compiled, results, halted>>
      BY <3>2
    <3> QED BY <1>3, <3>1, <3>2 DEF Recover
  <2>3. outcome' \in [seg : Seg \cup {None}, ok : BOOLEAN] /\ compiled' \in Names \cup {None}
    <3>1. CASE UNCHANGED <<outcome, compiled>>
      BY <1>a, <3>1 DEF OwnTypes
    <3>2. CASE outcome' = [seg |-> None, ok |-> FALSE] /\ compiled' = None
      BY <3>2
    <3> QED BY <2>2, <3>1, <3>2
  <2> QED BY <1>0, <1>a, <2>1, <2>3 DEF OwnTypes
<1>4. CASE Learn
  <2>1. UNCHANGED <<pin, pending, deferred, late>>
    BY <1>4 DEF Learn, flowVars, endVars
  <2>2. outcome' \in [seg : Seg \cup {None}, ok : BOOLEAN]
    <3>1. PICK o \in Outcomes : outcome' = [seg |-> IF o.what = "none" THEN None ELSE sk.seg, ok |-> o.what # "none" /\ Whole]
      BY <1>4 DEF Learn
    <3>2. (o.what # "none" /\ Whole) \in BOOLEAN
      BY DEF Whole
    <3> QED BY <1>a, <3>1, <3>2
  <2>3. PICK o \in Outcomes : \E c \in {[st |-> o.st, name |-> None]} \cup Keeps(o.st) :
          compiled' = c.name /\ (parent' = parent \/ parent' = [parent EXCEPT ![c.name] = sk.seg])
    BY <1>4 DEF Learn
  <2>4. PICK c \in {[st |-> o.st, name |-> None]} \cup Keeps(o.st) :
          compiled' = c.name /\ (parent' = parent \/ parent' = [parent EXCEPT ![c.name] = sk.seg])
    BY <2>3
  <2>5. c.name \in Names \cup {None}
    <3>1. o.st \in [Seg -> Status] /\ WholeIn(o.st)
      BY OutcomeStore, SameIsSteady DEF OwnerInv
    <3>2. CASE c \in Keeps(o.st)
      BY <3>1, <3>2, KeepsStore
    <3>3. CASE c = [st |-> o.st, name |-> None]
      BY <3>3
    <3> QED BY <3>2, <3>3
  <2>6. parent' \in [Fresh -> Seg \cup {None}]
    BY <1>a, <2>4 DEF OwnTypes
  <2> QED BY <1>0, <1>a, <2>1, <2>2, <2>4, <2>5, <2>6 DEF OwnTypes
<1>5. CASE Repin
  <2>1. UNCHANGED <<parent, pin, late>> /\ outcome' = [seg |-> None, ok |-> FALSE] /\ compiled' = None
    BY <1>5 DEF Repin, Ends, flowVars
  <2>2. /\ deferred' = deferred \/ (Decides(Candidate) /\ deferred' = Append(deferred, [step |-> n, seg |-> Candidate]))
        /\ pending' = pending \/ (Decides(Candidate) /\ pending' = [pending EXCEPT ![n] = Candidate])
    BY <1>5 DEF Repin
  <2>3. Decides(Candidate) => Candidate \in Seg
    BY CandidateIs DEF Decides
  <2>4. pending' \in [Nodes -> Seg \cup {None}]
    BY <1>a, <2>2, <2>3 DEF OwnTypes
  <2>5. deferred' \in Seq([step : Nodes, seg : Seg])
    <3>1. deferred \in Seq([step : Nodes, seg : Seg])
      BY <1>a DEF OwnTypes
    <3>2. Decides(Candidate) => [step |-> n, seg |-> Candidate] \in [step : Nodes, seg : Seg]
      BY <1>0, <2>3
    <3>3. CASE Decides(Candidate) /\ deferred' = Append(deferred, [step |-> n, seg |-> Candidate])
      BY <3>1, <3>2, <3>3, Longer
    <3>4. CASE deferred' = deferred
      BY <3>1, <3>4
    <3> QED BY <2>2, <3>3, <3>4
  <2> QED BY <1>0, <1>a, <2>1, <2>4, <2>5 DEF OwnTypes
<1>6. CASE Deferred
  <2>1. UNCHANGED <<parent, pin, outcome, compiled>> /\ deferred # <<>> /\ deferred' = Tail(deferred)
    BY <1>6 DEF Deferred, flowVars, learnVars
  <2>2. Head(deferred) \in [step : Nodes, seg : Seg] /\ deferred' \in Seq([step : Nodes, seg : Seg])
    BY <1>a, <2>1, Parts DEF OwnTypes
  <2>3. \/ UNCHANGED <<pending, late>>
        \/ late' = late \cup {Head(deferred).step} /\ pending' = [pending EXCEPT ![Head(deferred).step] = Head(deferred).seg]
    BY <1>6 DEF Deferred
  <2> QED BY <1>0, <1>a, <2>1, <2>2, <2>3 DEF OwnTypes
<1>7. CASE Save
  <2>1. UNCHANGED <<parent, pending, deferred, late, outcome, compiled>>
    BY <1>7 DEF Save, learnVars, endVars, history
  <2>2. pin' = [i \in Nodes |-> IF pending[i] # None THEN pending[i] ELSE pin[i]]
    BY <1>7 DEF Save
  <2> QED BY <1>0, <1>a, <2>1, <2>2 DEF OwnTypes
<1> QED BY <1>1, <1>2, <1>3, <1>4, <1>5, <1>6, <1>7 DEF Next

LEMMA FlowPins == \A i \in Nodes : Flow[i].pin \in Seg \cup {None}
<1>1. Flow \in Seq([kind : {"do", "assert"}, pin : Seg \cup {None}, asks : BOOLEAN, adopted : BOOLEAN])
  BY FlowAssumption
<1>2. \A i \in Nodes : Flow[i] \in [kind : {"do", "assert"}, pin : Seg \cup {None}, asks : BOOLEAN, adopted : BOOLEAN]
  BY <1>1, Member DEF Nodes
<1> QED BY <1>2

LEMMA StartsOwned == Init => OwnerInv
<1> SUFFICES ASSUME Init PROVE OwnerInv
  OBVIOUS
<1>1. store \in [Seg -> Status] /\ store \in Stores
  BY FlowAssumption DEF Init
<1>2. WholeIn(store)
  BY <1>1, FreshAssumption DEF WholeIn
<1>3. OwnTypes
  BY <1>1, FlowPins DEF Init, OwnTypes
<1>4. Presents
  BY DEF Init, NoReplay, Presents
<1>5. Owners
  BY DEF Init, Owners, Owned
<1> QED BY <1>2, <1>3, <1>4, <1>5 DEF OwnerInv

LEMMA OwnerInvariant == Spec => []OwnerInv
<1>1. BankInv /\ BankInv' /\ ResultInv /\ OwnerInv /\ [Next]_vars => OwnerInv'
  <2> SUFFICES ASSUME BankInv, BankInv', ResultInv, OwnerInv, [Next]_vars PROVE OwnerInv'
    OBVIOUS
  <2>1. CASE UNCHANGED vars
    <3>1. UNCHANGED <<store, parent, pin, pc, cands, sk, outcome, compiled, pending, deferred, runs, late>>
      BY <2>1 DEF vars, flowVars, tryVars, learnVars, endVars, history
    <3>2. Last' = Last /\ \A i \in Nodes : Owned(i)' = Owned(i) /\ (Mutates(Owned(i))' <=> Mutates(Owned(i)))
      BY <3>1 DEF Last, Owned, Mutates
    <3>3. Owners'
      BY <3>1, <3>2 DEF OwnerInv, Owners
    <3>4. OwnTypes' /\ WholeIn(store') /\ Presents'
      BY <3>1, <3>2 DEF OwnerInv, OwnTypes, Presents, Head1
    <3> QED BY <3>3, <3>4 DEF OwnerInv
  <2>2. CASE Next
    BY <2>2, StoreStep, PresentStep, OwnersStep, OwnTypesStep DEF OwnerInv
  <2> QED BY <2>1, <2>2
<1>2. Spec => [][Next]_vars
  BY PTL DEF Spec
<1> QED BY StartsOwned, <1>1, BankInvariant, ResultInvariant, PTL DEF Spec

\* The rest of the state is of its type.
RestInv ==
    /\ pc \in {"step", "try", "chain", "recover", "learn", "repin", "deferred", "done"}
    /\ adopted \subseteq Nodes /\ graduated \subseteq Nodes /\ halted \in BOOLEAN
    /\ attempts \in 0..MaxAttempts /\ matched \in Nat /\ pinPast \in BOOLEAN /\ stray \in BOOLEAN

LEMMA RestInvariant == Spec => []RestInv
<1>1. MaxAttempts \in Nat /\ 0 \in 0..MaxAttempts
  <2>1. MaxAttempts \in Nat
    BY FlowAssumption
  <2> QED BY <2>1
<1>2. Init => RestInv
  <2> SUFFICES ASSUME Init PROVE RestInv
    OBVIOUS
  <2>1. adopted \subseteq Nodes /\ graduated \subseteq Nodes /\ halted \in BOOLEAN
    BY DEF Init
  <2>2. pc = "step" /\ attempts = 0 /\ matched = 0 /\ pinPast = FALSE /\ stray = FALSE
    BY DEF Init
  <2> QED BY <1>1, <2>1, <2>2 DEF RestInv
<1>3. BankInv /\ ResultInv /\ OwnerInv /\ RestInv /\ [Next]_vars => RestInv'
  <2> SUFFICES ASSUME BankInv, ResultInv, OwnerInv, RestInv, [Next]_vars PROVE RestInv'
    OBVIOUS
  <2>0. n \in Nodes
    BY NodesThere DEF ResultInv
  <2>1. ASSUME NEW result, NEW halts \in BOOLEAN, Ends(result, halts), UNCHANGED adopted, graduated' \subseteq Nodes
        PROVE  RestInv'
    <3>1. /\ attempts' = 0 /\ matched' = 0 /\ pinPast' = FALSE /\ stray' = FALSE /\ halted' = halts
          /\ pc' \in {"deferred", "step"}
      BY <2>1 DEF Ends
    <3> QED BY <1>1, <2>1, <3>1 DEF RestInv
  <2>2. CASE UNCHANGED vars
    BY <2>2 DEF vars, flowVars, tryVars, learnVars, endVars, RestInv
  <2>3. CASE Stopped \/ Assert \/ Satisfied
    <3>1. UNCHANGED <<adopted, graduated>>
      BY <2>3 DEF Stopped, Assert, Satisfied, flowVars
    <3>2. \E result, halts \in BOOLEAN \cup Result : halts \in BOOLEAN /\ Ends(result, halts)
      BY <2>3 DEF Stopped, Assert, Satisfied, Result
    <3> QED BY <2>1, <3>1, <3>2 DEF RestInv
  <2>4. CASE Select \/ NoneLeft \/ ChainDone \/ ChainBroken
    <3>1. UNCHANGED <<adopted, graduated, halted, matched, pinPast>> /\ (attempts' = attempts \/ attempts' = 0)
      BY <2>4 DEF Select, NoneLeft, Leave, ChainDone, ChainBroken, flowVars, tryVars, endVars
    <3>2. pc' \in {"try", "recover", "learn"} /\ (stray' = stray \/ stray' = FALSE)
      BY <2>4 DEF Select, NoneLeft, Leave, ChainDone, ChainBroken, learnVars
    <3> QED BY <1>1, <3>1, <3>2 DEF RestInv
  <2>5. CASE Try
    <3>1. runs \in Seq(Run) /\ Len(runs) \in Nat
      BY DEF BankInv
    <3>2. pinPast' \in BOOLEAN /\ UNCHANGED <<adopted, graduated, halted, stray>> /\ attempts < MaxAttempts
      BY <2>5 DEF Try, Tries, flowVars, learnVars, endVars, RestInv
    <3>3. PICK c \in cands, how \in How : Refused(c) \/ Untouched(c, how) \/ Settles(c, how)
      BY <2>5 DEF Try
    <3>4. attempts' \in 0..MaxAttempts /\ matched' \in Nat /\ pc' \in {"try", "chain", "recover"}
      <4>1. CASE Refused(c)
        BY <2>5, <4>1 DEF Refused, RestInv, Try
      <4>2. CASE Untouched(c, how)
        BY <1>1, <2>5, <3>2, <4>2 DEF Untouched, RestInv, Try
      <4>3. CASE Settles(c, how)
        BY <1>1, <3>1, <4>3 DEF Settles, Leave, RestInv
      <4> QED BY <3>3, <4>1, <4>2, <4>3
    <3> QED BY <3>2, <3>4 DEF RestInv
  <2>6. CASE Segment
    <3>1. pinPast' \in BOOLEAN /\ pc' \in {"chain", "recover"}
      BY <2>6 DEF Segment, RestInv
    <3> QED BY <2>6, <3>1 DEF Segment, flowVars, learnVars, endVars, RestInv
  <2>7. CASE Recover
    <3>1. UNCHANGED <<adopted, graduated>>
      BY <2>7 DEF Recover, flowVars
    <3>2. CASE Ends("blocked", TRUE)
      BY <2>1, <3>1, <3>2 DEF RestInv
    <3>3. CASE pc' = "learn" /\ stray' \in BOOLEAN /\ UNCHANGED <<tryVars, halted>>
      BY <3>1, <3>3 DEF tryVars, RestInv
    <3> QED BY <2>7, <3>2, <3>3 DEF Recover
  <2>8. CASE Learn
    BY <2>8 DEF Learn, flowVars, tryVars, endVars, RestInv
  <2>9. CASE Repin
    <3>1. adopted' = adopted /\ Ends(status, Halts) /\ Halts \in BOOLEAN
      BY <2>9 DEF Repin, flowVars, Halts
    <3>2. graduated' \subseteq Nodes
      <4>1. graduated' = graduated \/ graduated' = graduated \cup Goes
        BY <2>9 DEF Repin
      <4> QED BY <2>0, <4>1 DEF Goes, RestInv
    <3> QED BY <2>1, <3>1, <3>2
  <2>10. CASE Deferred
    <3>1. graduated' \subseteq Nodes
      <4>1. graduated' = graduated \/ graduated' = graduated \cup ({Head(deferred).step} \cap adopted)
        BY <2>10 DEF Deferred
      <4> QED BY <4>1 DEF RestInv
    <3> QED BY <2>10, <3>1 DEF Deferred, flowVars, tryVars, learnVars, RestInv
  <2>11. CASE Save
    BY <2>11 DEF Save, tryVars, learnVars, endVars, RestInv
  <2> QED BY <2>2, <2>3, <2>4, <2>5, <2>6, <2>7, <2>8, <2>9, <2>10, <2>11 DEF Next
<1> QED BY <1>2, <1>3, BankInvariant, ResultInvariant, OwnerInvariant, PTL DEF Spec

\* Two steps never come to own one mutating procedure, unless the recording had
\* them share it or a pin put off to the end was taken then: for any flow,
\* chains and store, in a state of the right types, with the model told of what
\* touched the page.
THEOREM OwnersAreKept == Spec => []RunnerOK
<1>1. BankInv /\ ResultInv /\ OwnerInv /\ RestInv => TypeOK
  BY NodesThere DEF BankInv, Fresh1, ResultInv, Result, OwnerInv, OwnTypes, RestInv, TypeOK, Run, Banking
<1>2. OwnerInv => OneOwner
  <2> SUFFICES ASSUME OwnerInv, pc = "done", NEW i \in Nodes, NEW j \in Nodes, i # j, pin[i] = pin[j], Mutates(pin[i])
               PROVE  {i, j} \cap late # {} \/ Flow[i].pin = Flow[j].pin
    BY DEF OneOwner
  <2>1. Owned(i) = pin[i] /\ Owned(j) = pin[j] /\ Owned(i) = Owned(j)
    BY DEF OwnerInv, Owners
  <2>2. Mutates(Owned(i))
    BY <2>1 DEF Mutates
  <2>3. \A k, m \in Nodes : k # m /\ Owned(k) = Owned(m) /\ Mutates(Owned(k))
                             => {k, m} \cap late # {} \/ Flow[k].pin = Flow[m].pin
    BY DEF OwnerInv, Owners
  <2> QED BY <2>1, <2>2, <2>3
<1>3. BankInv => HandedOver
  BY DEF BankInv
<1> QED BY <1>1, <1>2, <1>3, BankInvariant, ResultInvariant, OwnerInvariant, RestInvariant, PTL DEF RunnerOK

=============================================================================
