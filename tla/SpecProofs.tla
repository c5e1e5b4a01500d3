----------------------------- MODULE SpecProofs -----------------------------
(***************************************************************************)
(* Theorems about what repairs a compiled spec: Repair, for any chain of   *)
(* locators and any --converge, and Converge, for any flow, store and      *)
(* bounds.                                                                 *)
(***************************************************************************)
EXTENDS Repair, Converge, FiniteSetTheorems, TLAPS

\* A set can be listed by how many of its members come before each.
LEMMA Ranks ==
    ASSUME NEW S, IsFiniteSet(S), NEW R,
           \A x \in S : <<x, x>> \notin R,
           \A x, y, z \in S : <<x, y>> \in R /\ <<y, z>> \in R => <<x, z>> \in R,
           \A x, y \in S : x # y => <<x, y>> \in R \/ <<y, x>> \in R,
           NEW k \in 1..Cardinality(S)
    PROVE  \E i \in S : Cardinality({j \in S : <<j, i>> \in R}) = k - 1
<1> DEFINE B(i) == {j \in S : <<j, i>> \in R}
           rank == [i \in S |-> Cardinality(B(i))]
           T == 0..Cardinality(S) - 1
<1>0. Cardinality(S) \in Nat
  BY FS_CardinalityType
<1>1. ASSUME NEW i \in S
      PROVE  IsFiniteSet(B(i)) /\ Cardinality(B(i)) \in T
  <2>1. B(i) \subseteq S \ {i}
    OBVIOUS
  <2>2. IsFiniteSet(S \ {i}) /\ Cardinality(S \ {i}) = Cardinality(S) - 1
    BY FS_RemoveElement
  <2>3. IsFiniteSet(B(i)) /\ Cardinality(B(i)) <= Cardinality(S) - 1
    <3> HIDE DEF B
    <3> QED BY <2>1, <2>2, FS_Subset
  <2>4. Cardinality(B(i)) \in Nat
    BY <2>3, FS_CardinalityType
  <2> QED BY <1>0, <2>3, <2>4
<1>2. ASSUME NEW x \in S, NEW y \in S, <<x, y>> \in R
      PROVE  rank[x] < rank[y]
  <2>1. B(x) \cup {x} \subseteq B(y)
    BY <1>2
  <2>2. x \notin B(x)
    OBVIOUS
  <2>3. IsFiniteSet(B(x)) /\ IsFiniteSet(B(y)) /\ Cardinality(B(x)) \in Nat /\ Cardinality(B(y)) \in Nat
    BY <1>0, <1>1
  <2>4. Cardinality(B(x) \cup {x}) = Cardinality(B(x)) + 1
    <3> HIDE DEF B
    <3> QED BY <2>2, <2>3, FS_AddElement
  <2>5. Cardinality(B(x) \cup {x}) <= Cardinality(B(y))
    <3> HIDE DEF B
    <3> QED BY <2>1, <2>3, FS_Subset
  <2> QED BY <2>3, <2>4, <2>5
<1>3. ASSUME NEW x \in S, NEW y \in S, rank[x] = rank[y]
      PROVE  x = y
  <2> SUFFICES ASSUME x # y PROVE FALSE
    OBVIOUS
  <2>1. <<x, y>> \in R \/ <<y, x>> \in R
    OBVIOUS
  <2>2. rank[x] \in Nat /\ rank[y] \in Nat
    <3>1. rank[x] \in T /\ rank[y] \in T
      BY <1>1
    <3> QED BY <1>0, <3>1
  <2> HIDE DEF rank
  <2> QED BY <1>2, <1>3, <2>1, <2>2
<1> SUFFICES ASSUME \A i \in S : rank[i] # k - 1 PROVE FALSE
  OBVIOUS
<1> DEFINE U == T \ {k - 1}
<1>4. rank \in [S -> U]
  BY <1>1
<1>5. IsFiniteSet(U) /\ Cardinality(U) < Cardinality(S)
  <2>1. IsFiniteSet(T) /\ Cardinality(T) = Cardinality(S)
    <3> DEFINE top == Cardinality(S) - 1
    <3>1. top \in Int /\ top >= 0 /\ top - 0 + 1 = Cardinality(S)
      BY <1>0
    <3> HIDE DEF top
    <3>2. IsFiniteSet(0..top) /\ Cardinality(0..top) = top - 0 + 1
      BY <3>1, FS_Interval
    <3> QED BY <3>1, <3>2 DEF top
  <2>2. k - 1 \in T
    BY <1>0
  <2> HIDE DEF T
  <2>3. IsFiniteSet(T \ {k - 1}) /\ Cardinality(T \ {k - 1}) = Cardinality(T) - 1
    BY <2>1, <2>2, FS_RemoveElement
  <2> QED BY <1>0, <2>1, <2>3
<1> HIDE DEF rank, U
<1> QED BY <1>3, <1>4, <1>5, FS_PigeonHole

LEMMA ListedIs ==
    ASSUME NEW S, IsFiniteSet(S), NEW R,
           \A x \in S : <<x, x>> \notin R,
           \A x, y, z \in S : <<x, y>> \in R /\ <<y, z>> \in R => <<x, z>> \in R,
           \A x, y \in S : x # y => <<x, y>> \in R \/ <<y, x>> \in R
    PROVE  /\ Cardinality(S) \in Nat /\ DOMAIN Listed(S, R) = 1..Cardinality(S)
           /\ \A k \in 1..Cardinality(S) : Listed(S, R)[k] \in S
           /\ Cardinality(S) > 0 => \A j \in S : <<j, Listed(S, R)[1]>> \notin R
<1>1. Cardinality(S) \in Nat
  BY FS_CardinalityType
<1>2. ASSUME NEW k \in 1..Cardinality(S)
      PROVE  Listed(S, R)[k] \in S /\ Cardinality({j \in S : <<j, Listed(S, R)[k]>> \in R}) = k - 1
  <2>1. \E i \in S : Cardinality({j \in S : <<j, i>> \in R}) = k - 1
    BY Ranks
  <2>2. Listed(S, R)[k] = CHOOSE i \in S : Cardinality({j \in S : <<j, i>> \in R}) = k - 1
    BY DEF Listed
  <2> QED BY <2>1, <2>2
<1>3. ASSUME Cardinality(S) > 0
      PROVE  \A j \in S : <<j, Listed(S, R)[1]>> \notin R
  <2> DEFINE before == {j \in S : <<j, Listed(S, R)[1]>> \in R}
  <2>1. Cardinality(before) = 0
    BY <1>1, <1>2, <1>3
  <2>2. IsFiniteSet(before)
    BY FS_Subset
  <2>3. before = {}
    <3> HIDE DEF before
    <3> QED BY <2>1, <2>2, FS_EmptySet
  <2> QED BY <2>3
<1>4. DOMAIN Listed(S, R) = 1..Cardinality(S)
  BY DEF Listed
<1> QED BY <1>1, <1>2, <1>3, <1>4

\* A set of numbers that is finite and not empty has a largest one.
LEMMA Largest ==
    ASSUME NEW S \in SUBSET Nat, IsFiniteSet(S), S # {}
    PROVE  \E m \in S : \A x \in S : x <= m
<1> DEFINE R == {p \in S \X S : p[1] > p[2]}
<1>1. \A x, y \in S : <<x, y>> \in R <=> x > y
  OBVIOUS
<1>2. Cardinality(S) > 0
  BY FS_EmptySet, FS_CardinalityType
<1> HIDE DEF R
<1>3. /\ \A x \in S : <<x, x>> \notin R
      /\ \A x, y, z \in S : <<x, y>> \in R /\ <<y, z>> \in R => <<x, z>> \in R
      /\ \A x, y \in S : x # y => <<x, y>> \in R \/ <<y, x>> \in R
  BY <1>1
<1>4. /\ Cardinality(S) \in Nat
      /\ \A k \in 1..Cardinality(S) : Listed(S, R)[k] \in S
      /\ \A j \in S : <<j, Listed(S, R)[1]>> \notin R
  BY <1>2, <1>3, ListedIs
<1> DEFINE m == Listed(S, R)[1]
<1>5. m \in S /\ \A j \in S : <<j, m>> \notin R
  BY <1>2, <1>4
<1> HIDE DEF m
<1>6. ASSUME NEW j \in S PROVE j <= m
  <2>1. ~(j > m)
    BY <1>1, <1>5
  <2> QED BY <1>5, <2>1
<1> QED BY <1>5, <1>6

LEMMA LessIs ==
    ASSUME NEW a \in Int, NEW b \in Int, NEW c \in Int, NEW x \in Int, NEW y \in Int, NEW z \in Int
    PROVE  Less(<<a, b, c>>, <<x, y, z>>) <=> a < x \/ (a = x /\ (b < y \/ (b = y /\ c < z)))
<1> DEFINE s == <<a, b, c>> t == <<x, y, z>>
<1>1. /\ DOMAIN s = 1..3 /\ s[1] = a /\ s[2] = b /\ s[3] = c /\ t[1] = x /\ t[2] = y /\ t[3] = z
  OBVIOUS
<1>2. Less(s, t) <=> \E k \in 1..3 : s[k] < t[k] /\ \A j \in 1..(k - 1) : s[j] = t[j]
  BY <1>1 DEF Less
<1> HIDE DEF s, t
<1>3. ASSUME NEW k \in 1..3, s[k] < t[k] /\ \A j \in 1..(k - 1) : s[j] = t[j]
      PROVE  a < x \/ (a = x /\ (b < y \/ (b = y /\ c < z)))
  <2>1. k = 1 \/ k = 2 \/ k = 3
    OBVIOUS
  <2>2. (k > 1 => s[1] = t[1]) /\ (k > 2 => s[2] = t[2])
    BY <1>3
  <2> QED BY <1>1, <1>3, <2>1, <2>2
<1>4. ASSUME a < x PROVE \E k \in 1..3 : s[k] < t[k] /\ \A j \in 1..(k - 1) : s[j] = t[j]
  <2>1. s[1] < t[1] /\ \A j \in 1..(1 - 1) : s[j] = t[j]
    BY <1>1, <1>4
  <2> QED BY <2>1
<1>5. ASSUME a = x, b < y PROVE \E k \in 1..3 : s[k] < t[k] /\ \A j \in 1..(k - 1) : s[j] = t[j]
  <2>1. s[2] < t[2] /\ \A j \in 1..(2 - 1) : s[j] = t[j]
    BY <1>1, <1>5
  <2> QED BY <2>1
<1>6. ASSUME a = x, b = y, c < z PROVE \E k \in 1..3 : s[k] < t[k] /\ \A j \in 1..(k - 1) : s[j] = t[j]
  <2>1. s[3] < t[3] /\ \A j \in 1..(3 - 1) : s[j] = t[j]
    <3>1. \A j \in 1..(3 - 1) : j = 1 \/ j = 2
      OBVIOUS
    <3> QED BY <1>1, <1>6, <3>1
  <2> QED BY <2>1
<1> QED BY <1>2, <1>3, <1>4, <1>5, <1>6 DEF s, t
-----------------------------------------------------------------------------
(* The chain, tried and ordered.                                           *)

LEMMA EntryAt ==
    ASSUME NEW s \in Seq(Entry), NEW i \in DOMAIN s
    PROVE  /\ i \in Nat /\ s[i] \in Entry /\ s[i].c \in Cand /\ s[i].hit \in Nat /\ s[i].miss \in Nat
           /\ s[i] = [c |-> s[i].c, hit |-> s[i].hit, miss |-> s[i].miss]
<1>1. s[i] \in Entry /\ i \in Nat
  OBVIOUS
<1> QED BY <1>1 DEF Entry

\* What is tried is entries of the chain, no more of them than it has.
LEMMA FillIs ==
    ASSUME chain \in Seq(Entry)
    PROVE  /\ Fill \in Seq(Entry) /\ DOMAIN Fill = 1..Len(Fill) /\ Len(Fill) \in Nat /\ Len(Fill) <= Len(chain)
           /\ DOMAIN Fill \subseteq DOMAIN chain /\ (Fill # <<>> => 1 \in DOMAIN Fill)
           /\ \A i \in DOMAIN Fill : Fill[i].c \in Cand
<1> DEFINE R == {p \in Kept \X Kept : p[1] < p[2]}
           size == Cardinality(Kept)
<1>1. DOMAIN chain = 1..Len(chain) /\ Len(chain) \in Nat
  OBVIOUS
<1>2. Kept \subseteq 1..Len(chain)
  BY <1>1 DEF Kept
<1>3. IsFiniteSet(Kept) /\ size \in Nat /\ size <= Len(chain)
  <2>1. IsFiniteSet(1..Len(chain)) /\ Cardinality(1..Len(chain)) = Len(chain)
    <3> DEFINE len == Len(chain)
    <3>1. len \in Nat
      BY <1>1
    <3> HIDE DEF len
    <3>2. IsFiniteSet(1..len) /\ Cardinality(1..len) = IF 1 > len THEN 0 ELSE len - 1 + 1
      BY <3>1, FS_Interval
    <3>3. Cardinality(1..len) = len
      BY <3>1, <3>2
    <3> QED BY <3>2, <3>3 DEF len
  <2> QED BY <1>2, <2>1, FS_Subset, FS_CardinalityType
<1>4. \A x, y \in Kept : <<x, y>> \in R <=> x < y
  OBVIOUS
<1>5. \A x \in Kept : x \in Nat
  BY <1>2
<1> HIDE DEF R
<1>6. /\ \A x \in Kept : <<x, x>> \notin R
      /\ \A x, y, z \in Kept : <<x, y>> \in R /\ <<y, z>> \in R => <<x, z>> \in R
      /\ \A x, y \in Kept : x # y => <<x, y>> \in R \/ <<y, x>> \in R
  BY <1>4, <1>5
<1>7. DOMAIN Listed(Kept, R) = 1..size /\ \A k \in 1..size : Listed(Kept, R)[k] \in Kept
  BY <1>3, <1>6, ListedIs
<1>8. Fill = [k \in 1..size |-> chain[Listed(Kept, R)[k]]]
  BY <1>7 DEF Fill, R
<1>9. \A k \in 1..size : Fill[k] \in Entry
  <2>1. \A i \in Kept : chain[i] \in Entry
    BY <1>1, <1>2
  <2> QED BY <1>7, <1>8, <2>1
<1> HIDE DEF size
<1>10. Fill \in Seq(Entry) /\ Len(Fill) = size /\ DOMAIN Fill = 1..size
  BY <1>3, <1>8, <1>9
<1>11. Fill # <<>> => 1 \in DOMAIN Fill
  BY <1>3, <1>10
<1>12. \A i \in DOMAIN Fill : Fill[i].c \in Cand
  BY <1>9, <1>10 DEF Entry
<1> QED BY <1>1, <1>3, <1>10, <1>11, <1>12

\* The order the evidence gives a chain: its entries, and a first one that none goes before.
LEMMA OrderedIs ==
    ASSUME NEW s \in Seq(Entry), s # <<>>
    PROVE  /\ Ordered(s) \in Seq(Entry) /\ Len(Ordered(s)) = Len(s)
           /\ \A k \in DOMAIN Ordered(s) : \E i \in DOMAIN s : Ordered(s)[k] = s[i]
           /\ \E f \in DOMAIN s : Ordered(s)[1] = s[f] /\ \A j \in DOMAIN s : ~Less(Place(s, j), Place(s, f))
<1> DEFINE S == DOMAIN s
           R == {p \in S \X S : Less(Place(s, p[1]), Place(s, p[2]))}
           a(i) == Clamped(s[i], Anchored(s))
           b(i) == ClassRank(s[i])
<1>1. S = 1..Len(s) /\ Len(s) \in Nat /\ Len(s) > 0
  OBVIOUS
<1>2. IsFiniteSet(S) /\ Cardinality(S) = Len(s)
  <2> DEFINE len == Len(s)
  <2>1. len \in Nat
    BY <1>1
  <2> HIDE DEF len
  <2>2. IsFiniteSet(1..len) /\ Cardinality(1..len) = IF 1 > len THEN 0 ELSE len - 1 + 1
    BY <2>1, FS_Interval
  <2>3. Cardinality(1..len) = len
    BY <2>1, <2>2
  <2> QED BY <1>1, <2>2, <2>3 DEF len
<1>3. ASSUME NEW i \in S PROVE i \in Int /\ a(i) \in Int /\ b(i) \in Int
  <2>1. i \in Nat /\ s[i].c \in Cand
    BY EntryAt
  <2>2. Rank[s[i].c] \in Nat
    BY <2>1, KindsAssumption
  <2> QED BY <2>1, <2>2 DEF Clamped, EvidenceRank, ClassRank
<1>4. ASSUME NEW x \in S, NEW y \in S
      PROVE  <<x, y>> \in R <=> a(x) < a(y) \/ (a(x) = a(y) /\ (b(x) < b(y) \/ (b(x) = b(y) /\ x < y)))
  <2>1. <<x, y>> \in R <=> Less(<<a(x), b(x), x>>, <<a(y), b(y), y>>)
    BY DEF Place
  <2> HIDE DEF R, a, b
  <2> QED BY <1>3, <2>1, LessIs
<1>5. /\ \A x \in S : <<x, x>> \notin R
      /\ \A x, y, z \in S : <<x, y>> \in R /\ <<y, z>> \in R => <<x, z>> \in R
      /\ \A x, y \in S : x # y => <<x, y>> \in R \/ <<y, x>> \in R
  <2> HIDE DEF R, a, b, S
  <2> QED BY <1>3, <1>4
<1>6. \A x, y \in S : <<x, y>> \in R <=> Less(Place(s, x), Place(s, y))
  OBVIOUS
<1>7. Ordered(s) = [k \in DOMAIN Listed(S, R) |-> s[Listed(S, R)[k]]]
  BY DEF Ordered
<1> HIDE DEF R, S
<1>8. /\ DOMAIN Listed(S, R) = 1..Len(s)
      /\ \A k \in 1..Len(s) : Listed(S, R)[k] \in S
      /\ \A j \in S : <<j, Listed(S, R)[1]>> \notin R
  BY <1>1, <1>2, <1>5, ListedIs
<1>9. \A k \in 1..Len(s) : Ordered(s)[k] = s[Listed(S, R)[k]]
  BY <1>7, <1>8
<1>10. \A i \in S : s[i] \in Entry
  BY DEF S
<1>11. Ordered(s) \in Seq(Entry) /\ Len(Ordered(s)) = Len(s) /\ DOMAIN Ordered(s) = 1..Len(s)
  <2>1. \A k \in 1..Len(s) : Ordered(s)[k] \in Entry
    BY <1>8, <1>9, <1>10
  <2>2. DOMAIN Ordered(s) = 1..Len(s) /\ Ordered(s) = [k \in 1..Len(s) |-> Ordered(s)[k]]
    BY <1>7, <1>8
  <2> DEFINE len == Len(s)
  <2> HIDE DEF len
  <2> QED BY <1>1, <2>1, <2>2
<1>12. \E f \in S : Ordered(s)[1] = s[f] /\ \A j \in S : ~Less(Place(s, j), Place(s, f))
  <2>1. Listed(S, R)[1] \in S /\ Ordered(s)[1] = s[Listed(S, R)[1]]
    BY <1>1, <1>8, <1>9
  <2> QED BY <1>6, <1>8, <2>1
<1> QED BY <1>8, <1>9, <1>11, <1>12 DEF S
-----------------------------------------------------------------------------
(* The invariant.                                                          *)

Ticket == [missed : Cand \cup {None}, used : Cand \cup {None}, at : Nat, healed : BOOLEAN, banked : BOOLEAN]

ResultType ==
    res \in [answer : Cand \cup {None}, at : Nat, missed : SUBSET Nat, healed : BOOLEAN, ok : BOOLEAN, recovered : BOOLEAN]
TicketType == ticket # None => ticket \in Ticket

\* What a resolution says of the chain it was made over.
Resolution ==
    pc = "bank" =>
        /\ res.missed \subseteq DOMAIN Fill
        /\ res.at # 0 => /\ res.at \in DOMAIN Fill /\ res.answer = Fill[res.at].c
                         /\ res.missed = Before(Fill, res.at)
        /\ res.at = 0 => res.missed = DOMAIN Fill

\* A run that was counted, and not yet put down: the runs seen exceed the entries by one.
Uncounted(c) ==
    /\ misses[c] > 0
    /\ \A i \in DOMAIN chain : chain[i].c = c => chain[i].miss < misses[c]
Pending ==
    pc = "bank" =>
        /\ res.at # 0 /\ res.answer \in Named =>
             \A i \in DOMAIN chain : chain[i].c = res.answer => chain[i].hit < hits[res.answer]
        /\ \A j \in res.missed : Fill[j].c \in Named => Uncounted(Fill[j].c)
\* Nor did the replay put down the miss its ticket proves.
Owed ==
    pc \in {"recover", "drain", "fold", "evidence"} /\ ticket # None
    /\ ticket.missed \in Named /\ ~ticket.banked /\ ticket.used \in Positional \cup {None} => Uncounted(ticket.missed)
Evidence == ~shifted /\ ~looped => EvidenceIsTrue /\ Pending /\ Owed

\* A run begins with nothing of the last.
Fresh == pc = "run" => res = NoRun /\ ticket = None

\* The log has an entry per run; a run that was recovered is flagged.
Logged ==
    /\ pc \in {"run", "resolve", "bank", "recover"} => Len(log) = n
    /\ pc \in {"drain", "fold", "evidence", "gate"} => Len(log) = n + 1
    /\ \A k \in DOMAIN log : k > 1 /\ k <= n /\ log[k] = "recovered" => flagged
    /\ pc # "done" => end = "none"

RepairInv ==
    /\ TypeOK /\ ResultType /\ TicketType
    /\ Fresh /\ Resolution /\ Evidence /\ NamesLead
    /\ Logged /\ WrittenMeans

\* TypeOK, in its parts.
Pcs == {"run", "resolve", "bank", "recover", "drain", "fold", "evidence", "gate", "done"}
ChainType == chain \in Seq(Entry) /\ chain # <<>>
FlagType ==
    /\ want \in BOOLEAN /\ demoted \in BOOLEAN /\ looped \in BOOLEAN
    /\ rerecord \in BOOLEAN /\ flagged \in BOOLEAN /\ shifted \in BOOLEAN
PlaceType == pc \in Pcs /\ n \in 0..Converge /\ end \in Ends
WorldType == page \in Page /\ unfilled \subseteq Templated
LocatorType == first \in Cand /\ variant \in Cand \cup {None}
LogType == log \in Seq({"replayed", "helped", "recovered"})
SeenType == hits \in [Cand -> Nat] /\ misses \in [Cand -> Nat]
MissedType == res.missed \subseteq DOMAIN chain

LEMMA TypeParts ==
    ResultType =>
        (TypeOK <=> ChainType /\ FlagType /\ PlaceType /\ WorldType /\ LocatorType /\ LogType /\ SeenType /\ MissedType)
<1>1. ResultType => res.answer \in Cand \cup {None}
  BY DEF ResultType
<1> QED BY <1>1 DEF TypeOK, ChainType, FlagType, PlaceType, WorldType, LocatorType, LogType, SeenType, MissedType, Pcs

LEMMA BumpIs ==
    ASSUME NEW e \in Entry, NEW h \in Nat, NEW m \in Nat
    PROVE  Bump(e, h, m) \in Entry /\ Bump(e, h, m).c = e.c /\ Bump(e, h, m).hit = e.hit + h /\ Bump(e, h, m).miss = e.miss + m
<1>1. e.c \in Cand /\ e.hit \in Nat /\ e.miss \in Nat /\ e = [c |-> e.c, hit |-> e.hit, miss |-> e.miss]
  BY DEF Entry
<1> QED BY DEF Bump, Entry

LEMMA BumpedOnce ==
    ASSUME NEW e \in Entry
    PROVE  /\ Bump(e, 0, 1) \in Entry /\ Bump(e, 0, 1).c = e.c
           /\ Bump(e, 0, 1).hit = e.hit /\ Bump(e, 0, 1).miss = e.miss + 1
BY DEF Bump, Entry

\* The miss a ticket proves is counted at one entry; the others stay.
LEMMA FoldedIs ==
    ASSUME chain \in Seq(Entry), chain # <<>>
    PROVE  Folded \in Seq(Entry) /\ Folded # <<>> /\ DOMAIN Folded = DOMAIN chain
<1>1. \A i \in DOMAIN chain : Folded[i] \in Entry
  <2>1. ASSUME NEW i \in DOMAIN chain PROVE Folded[i] \in Entry
    <3>1. chain[i] \in Entry
      OBVIOUS
    <3>2. Folded[i] = chain[i] \/ Folded[i] = Bump(chain[i], 0, 1)
      <4>1. Folded[i] = IF Proves /\ Where(chain, ticket.missed) = {i} THEN Bump(chain[i], 0, 1) ELSE chain[i]
        BY DEF Folded
      <4> QED BY <4>1, Zenon
    <3> QED BY <3>1, <3>2, BumpedOnce
  <2> QED BY <2>1
<1>2. DOMAIN Folded = DOMAIN chain /\ Folded = [i \in DOMAIN chain |-> Folded[i]]
  BY DEF Folded
<1> DEFINE len == Len(chain)
<1>3. len \in Nat /\ len # 0 /\ DOMAIN chain = 1..len
  OBVIOUS
<1> HIDE DEF len
<1> QED BY <1>1, <1>2, <1>3

LEMMA Concat ==
    ASSUME NEW S, NEW s \in Seq(S), NEW t \in Seq(S)
    PROVE  /\ s \o t \in Seq(S) /\ Len(s \o t) = Len(s) + Len(t)
           /\ \A k \in 1..Len(s) + Len(t) : (s \o t)[k] = IF k <= Len(s) THEN s[k] ELSE t[k - Len(s)]
OBVIOUS

\* A promoted fallback changes places only.
LEMMA ToFrontIs ==
    ASSUME chain \in Seq(Entry), NEW i \in DOMAIN chain
    PROVE  /\ ToFront(i) \in Seq(Entry) /\ ToFront(i) # <<>> /\ Len(ToFront(i)) = Len(chain)
           /\ \A k \in DOMAIN ToFront(i) : \E j \in DOMAIN chain : ToFront(i)[k] = chain[j]
<1> DEFINE h == <<chain[i]>> a == SubSeq(chain, 1, i - 1) b == SubSeq(chain, i + 1, Len(chain))
<1>1. i \in 1..Len(chain) /\ Len(chain) \in Nat /\ chain[i] \in Entry
  OBVIOUS
<1>2. h \in Seq(Entry) /\ Len(h) = 1 /\ h[1] = chain[i]
  BY <1>1
<1>3. a \in Seq(Entry) /\ Len(a) = i - 1 /\ \A k \in 1..i - 1 : a[k] = chain[k]
  BY <1>1
<1>4. b \in Seq(Entry) /\ Len(b) = Len(chain) - i /\ \A k \in 1..Len(chain) - i : b[k] = chain[i + k]
  BY <1>1
<1> DEFINE c == h \o a
<1>5. ToFront(i) = c \o b
  BY DEF ToFront
<1> HIDE DEF h, a, b
<1>6. /\ c \in Seq(Entry) /\ Len(c) = i
      /\ \A k \in 1..i : c[k] = IF k <= 1 THEN h[k] ELSE a[k - 1]
  <2>1. i = Len(h) + Len(a)
    BY <1>1, <1>2, <1>3
  <2>2. /\ h \o a \in Seq(Entry) /\ Len(h \o a) = Len(h) + Len(a)
        /\ \A k \in 1..Len(h) + Len(a) : (h \o a)[k] = IF k <= Len(h) THEN h[k] ELSE a[k - Len(h)]
    BY <1>2, <1>3, Concat
  <2> QED BY <1>2, <2>1, <2>2
<1> HIDE DEF c
<1>7. /\ c[1] = chain[i]
      /\ \A k \in 2..i : c[k] = chain[k - 1]
  <2>1. c[1] = chain[i]
    BY <1>1, <1>2, <1>6
  <2>2. ASSUME NEW k \in 2..i PROVE c[k] = chain[k - 1]
    <3>1. c[k] = a[k - 1] /\ k - 1 \in 1..i - 1
      BY <1>1, <1>6
    <3> QED BY <1>3, <3>1
  <2> QED BY <2>1, <2>2
<1>8. /\ c \o b \in Seq(Entry) /\ Len(c \o b) = Len(chain)
      /\ \A k \in 1..Len(chain) : (c \o b)[k] = IF k <= i THEN c[k] ELSE b[k - i]
  <2>1. Len(chain) = Len(c) + Len(b)
    BY <1>1, <1>4, <1>6
  <2>2. /\ c \o b \in Seq(Entry) /\ Len(c \o b) = Len(c) + Len(b)
        /\ \A k \in 1..Len(c) + Len(b) : (c \o b)[k] = IF k <= Len(c) THEN c[k] ELSE b[k - Len(c)]
    BY <1>4, <1>6, Concat
  <2> QED BY <1>6, <2>1, <2>2
<1>9. ASSUME NEW k \in 1..Len(chain) PROVE \E j \in DOMAIN chain : (c \o b)[k] = chain[j]
  <2>1. CASE k > i
    <3>1. (c \o b)[k] = b[k - i] /\ k - i \in 1..Len(chain) - i /\ i + (k - i) = k
      BY <1>1, <1>8, <2>1
    <3>2. b[k - i] = chain[i + (k - i)]
      BY <1>4, <3>1
    <3> QED BY <3>1, <3>2, <1>1
  <2>2. CASE k = 1
    BY <1>1, <1>7, <1>8, <2>2
  <2>3. CASE k <= i /\ k # 1
    <3>1. (c \o b)[k] = c[k] /\ k \in 2..i
      BY <1>1, <1>8, <2>3
    <3>2. c[k] = chain[k - 1]
      BY <1>7, <3>1
    <3>3. k - 1 \in DOMAIN chain
      BY <1>1, <3>1
    <3> QED BY <3>1, <3>2, <3>3
  <2>4. k \in Nat /\ i \in Nat
    BY <1>1
  <2> DEFINE d == c \o b
  <2> HIDE DEF d
  <2>5. k > i \/ k = 1 \/ (k <= i /\ k # 1)
    BY <2>4
  <2> QED BY <2>1, <2>2, <2>3, <2>5
<1>10. DOMAIN (c \o b) = 1..Len(chain)
  BY <1>8
<1> DEFINE d == c \o b
<1>11. d \in Seq(Entry) /\ Len(d) = Len(chain) /\ DOMAIN d = 1..Len(chain) /\ ToFront(i) = d
  BY <1>5, <1>8, <1>10
<1>12. \A k \in 1..Len(chain) : \E j \in DOMAIN chain : d[k] = chain[j]
  BY <1>9
<1> HIDE DEF d
<1>13. d # <<>>
  BY <1>1, <1>11
<1> QED BY <1>11, <1>12, <1>13
\* The most that was seen of a locator covers each of its entries.
LEMMA EarlierIs ==
    ASSUME chain \in Seq(Entry), NEW c \in Cand, NEW field \in {"hit", "miss"}
    PROVE  Earlier(c, field) \in Nat /\ \A i \in DOMAIN chain : chain[i].c = c => chain[i][field] <= Earlier(c, field)
<1> DEFINE seen == {chain[i][field] : i \in Where(chain, c)}
<1>1. Where(chain, c) \subseteq 1..Len(chain) /\ Len(chain) \in Nat
  BY DEF Where
<1>2. \A i \in Where(chain, c) : chain[i][field] \in Nat
  <2>1. \A i \in Where(chain, c) : chain[i].hit \in Nat /\ chain[i].miss \in Nat
    BY <1>1, EntryAt
  <2> QED BY <2>1
<1>3. seen \in SUBSET Nat
  BY <1>2
<1>4. IsFiniteSet(seen)
  <2>1. IsFiniteSet(1..Len(chain))
    BY <1>1, FS_Interval
  <2>2. IsFiniteSet(Where(chain, c))
    BY <1>1, <2>1, FS_Subset
  <2>3. [i \in Where(chain, c) |-> chain[i][field]] \in Surjection(Where(chain, c), seen)
    BY DEF Surjection
  <2> HIDE DEF seen
  <2> QED BY <2>2, <2>3, FS_Surjection
<1>5. Earlier(c, field) = IF seen = {} THEN 0 ELSE CHOOSE m \in seen : \A x \in seen : x <= m
  BY DEF Earlier
<1>6. \A i \in DOMAIN chain : chain[i].c = c => chain[i][field] \in seen
  BY DEF Where
<1> HIDE DEF seen
<1>7. CASE seen = {}
  BY <1>5, <1>6, <1>7
<1>8. CASE seen # {}
  <2>1. \E m \in seen : \A x \in seen : x <= m
    BY <1>3, <1>4, <1>8, Largest
  <2>2. Earlier(c, field) \in seen /\ \A x \in seen : x <= Earlier(c, field)
    BY <1>5, <1>8, <2>1
  <2> QED BY <1>3, <1>6, <2>2
<1> QED BY <1>7, <1>8

LEMMA InitialInv == Init => RepairInv
<1> SUFFICES ASSUME Init PROVE RepairInv
  OBVIOUS
<1>1. /\ chain \in Seq(Entry) /\ chain # <<>> /\ first = chain[1].c
      /\ want = TRUE /\ demoted = FALSE /\ looped \in BOOLEAN /\ rerecord = FALSE /\ flagged = FALSE /\ shifted = FALSE
      /\ pc = "run" /\ n = 0 /\ end = "none" /\ page = Unseen /\ unfilled = {}
      /\ res = NoRun /\ ticket = None /\ variant = None /\ log = <<>>
      /\ hits = [c \in Cand |-> Earlier(c, "hit")] /\ misses = [c \in Cand |-> Earlier(c, "miss")]
  BY KindsAssumption DEF Init
<1>2. ResultType /\ MissedType /\ TicketType
  BY <1>1 DEF NoRun, ResultType, MissedType, TicketType
<1>3. ChainType /\ FlagType /\ PlaceType /\ LogType /\ SeenType
  <2>1. 0 \in 0..Converge
    BY KindsAssumption
  <2>2. SeenType
    <3>1. \A c \in Cand : Earlier(c, "hit") \in Nat /\ Earlier(c, "miss") \in Nat
      BY <1>1, EarlierIs
    <3>2. [c \in Cand |-> Earlier(c, "hit")] \in [Cand -> Nat] /\ [c \in Cand |-> Earlier(c, "miss")] \in [Cand -> Nat]
      BY <3>1
    <3> QED BY <1>1, <3>2 DEF SeenType
  <2>3. ChainType /\ FlagType
    BY <1>1 DEF ChainType, FlagType
  <2>4. PlaceType /\ LogType
    BY <1>1, <2>1 DEF PlaceType, Pcs, Ends, LogType
  <2> QED BY <2>2, <2>3, <2>4
<1>4. WorldType /\ LocatorType
  <2>1. chain[1] \in Entry
    BY <1>1
  <2> QED BY <1>1, <2>1 DEF WorldType, Page, Unseen, LocatorType, Entry
<1>5. TypeOK
  BY <1>2, <1>3, <1>4, TypeParts
<1>6. EvidenceIsTrue
  <2>1. ASSUME NEW i \in DOMAIN chain
        PROVE  chain[i].hit <= hits[chain[i].c] /\ chain[i].miss <= misses[chain[i].c]
    <3>1. chain[i].c \in Cand
      BY <1>1, EntryAt
    <3>2. chain[i]["hit"] <= Earlier(chain[i].c, "hit") /\ chain[i]["miss"] <= Earlier(chain[i].c, "miss")
      BY <1>1, <3>1, EarlierIs
    <3> QED BY <1>1, <3>1, <3>2
  <2> QED BY <2>1 DEF EvidenceIsTrue
<1>7. Fresh /\ Resolution /\ Evidence /\ NamesLead
  BY <1>1, <1>6 DEF Fresh, Resolution, Evidence, Pending, Owed, NamesLead
<1>8. Logged /\ WrittenMeans
  BY <1>1 DEF Logged, WrittenMeans
<1> QED BY <1>2, <1>5, <1>7, <1>8 DEF RepairInv

LEMMA TypeStep ==
    ASSUME TypeOK, ResultType, TicketType, Resolution, Next
    PROVE  TypeOK' /\ ResultType' /\ TicketType'
<1> USE DEF procedure, given, world, history
<1>0. ChainType /\ FlagType /\ PlaceType /\ WorldType /\ LocatorType /\ LogType /\ SeenType /\ MissedType
  BY TypeParts
<1>1. ResultType' /\ TicketType' /\ ChainType' /\ FlagType' /\ PlaceType' /\ WorldType' /\ LocatorType' /\ LogType' /\ SeenType'
      /\ MissedType' => TypeOK' /\ ResultType' /\ TicketType'
  <2>1. ResultType' => res'.answer \in Cand \cup {None}
    BY DEF ResultType
  <2> QED BY <2>1 DEF TypeOK, ChainType, FlagType, PlaceType, WorldType, LocatorType, LogType, SeenType, MissedType, Pcs
<1>2. NoRun \in [answer : Cand \cup {None}, at : Nat, missed : SUBSET Nat, healed : BOOLEAN, ok : BOOLEAN, recovered : BOOLEAN]
  BY DEF NoRun
<1>3. /\ DOMAIN Fill \subseteq DOMAIN chain /\ DOMAIN chain \subseteq Nat
      /\ \A i \in DOMAIN Fill : Fill[i].c \in Cand
  BY <1>0, FillIs DEF ChainType
<1>4. CASE Reach
  <2>1. /\ pc' = "resolve" /\ page' \in Page /\ unfilled' \in SUBSET Templated
        /\ UNCHANGED <<procedure, given, n, res, ticket, variant, rerecord, log, flagged, end, history>>
    BY <1>4, KindsAssumption DEF Reach
  <2>2. ResultType' /\ MissedType' /\ TicketType'
    BY <1>0, <2>1 DEF ResultType, MissedType, TicketType
  <2>3. ChainType' /\ FlagType' /\ PlaceType' /\ WorldType' /\ LocatorType' /\ LogType' /\ SeenType'
    BY <1>0, <2>1 DEF ChainType, FlagType, PlaceType, WorldType, LocatorType, LogType, SeenType, Pcs
  <2> QED BY <1>1, <2>2, <2>3
<1>5. CASE CoveredByOther \/ StopsBefore
  <2>1. /\ pc' \in {"drain", "recover"} /\ res' \in {res, [res EXCEPT !.ok = TRUE]}
        /\ log' \in {log, Append(log, "replayed")}
        /\ UNCHANGED <<procedure, given, n, world, ticket, variant, rerecord, flagged, end, history>>
    BY <1>5 DEF CoveredByOther, StopsBefore
  <2>2. ResultType' /\ MissedType' /\ TicketType'
    <3>1. res'.missed = res.missed /\ ResultType'
      BY <2>1 DEF ResultType
    <3> QED BY <1>0, <2>1, <3>1 DEF MissedType, TicketType
  <2>3. LogType'
    BY <1>0, <2>1 DEF LogType
  <2>4. ChainType' /\ FlagType' /\ PlaceType' /\ WorldType' /\ LocatorType' /\ SeenType'
    BY <1>0, <2>1 DEF ChainType, FlagType, PlaceType, WorldType, LocatorType, SeenType, Pcs
  <2> QED BY <1>1, <2>2, <2>3, <2>4
<1>6. CASE Hit
  <2>1. PICK i \in Answering(Fill), ok \in BOOLEAN :
          /\ res' = [NoRun EXCEPT !.answer = Fill[i].c, !.at = i, !.missed = Before(Fill, i), !.ok = ok]
          /\ hits' = [hits EXCEPT ![Fill[i].c] = @ + 1] /\ Tried(Before(Fill, i))
    BY <1>6 DEF Hit
  <2>2. /\ pc' = "bank" /\ UNCHANGED <<procedure, given, n, world, ticket, variant, rerecord, log, flagged, end, shifted>>
    BY <1>6 DEF Hit
  <2>3. i \in DOMAIN Fill /\ i \in Nat /\ Fill[i].c \in Cand /\ Before(Fill, i) \subseteq DOMAIN Fill
    BY <1>3 DEF Answering, Before
  <2>4. res' = [answer |-> Fill[i].c, at |-> i, missed |-> Before(Fill, i), healed |-> FALSE, ok |-> ok, recovered |-> FALSE]
    BY <2>1 DEF NoRun
  <2>5. ResultType' /\ MissedType' /\ TicketType'
    <3>1. Before(Fill, i) \in SUBSET Nat
      BY <1>3, <2>3
    <3> QED BY <1>3, <2>2, <2>3, <2>4, <3>1 DEF ResultType, MissedType, TicketType
  <2>6. SeenType'
    BY <1>0, <2>1, <2>3 DEF SeenType, Tried
  <2>7. ChainType' /\ FlagType' /\ PlaceType' /\ WorldType' /\ LocatorType' /\ LogType'
    BY <1>0, <2>2 DEF ChainType, FlagType, PlaceType, WorldType, LocatorType, LogType, Pcs
  <2> QED BY <1>1, <2>5, <2>6, <2>7
<1>7. CASE Dead
  <2>1. /\ pc' = "bank" /\ Tried(DOMAIN Fill)
        /\ UNCHANGED <<procedure, given, n, world, ticket, variant, rerecord, log, flagged, end, hits, shifted>>
    BY <1>7 DEF Dead
  <2>2. \E c \in Cand \cup {None}, healed \in BOOLEAN, ok \in BOOLEAN :
          res' = [answer |-> c, at |-> 0, missed |-> DOMAIN Fill, healed |-> healed, ok |-> ok, recovered |-> FALSE]
    BY <1>7 DEF Dead, NoRun
  <2>3. ResultType' /\ MissedType' /\ TicketType'
    <3>1. DOMAIN Fill \in SUBSET Nat
      BY <1>3
    <3> QED BY <1>3, <2>1, <2>2, <3>1 DEF ResultType, MissedType, TicketType
  <2>4. SeenType'
    BY <1>0, <2>1 DEF SeenType, Tried
  <2>5. ChainType' /\ FlagType' /\ PlaceType' /\ WorldType' /\ LocatorType' /\ LogType'
    BY <1>0, <2>1 DEF ChainType, FlagType, PlaceType, WorldType, LocatorType, LogType, Pcs
  <2> QED BY <1>1, <2>3, <2>4, <2>5
<1>8. CASE Bank
  <2>1. /\ pc = "bank" /\ pc' \in {"drain", "recover"} /\ ticket' = DriftTicket /\ log' \in {log, Append(log, "replayed")}
        /\ shifted' = (shifted \/ (res.ok /\ \E i \in HitAt \cup MissedAt : chain[i].c # Fill[i].c))
        /\ page' = Unseen /\ unfilled' = {} /\ res' = [res EXCEPT !.at = 0, !.missed = {}]
        /\ UNCHANGED <<want, demoted, given, n, variant, rerecord, flagged, end, hits, misses>>
    BY <1>8 DEF Bank
  <2>2. PICK times \in Nat : chain' = IF res.ok THEN Banked(times) ELSE chain
    BY <1>8 DEF Bank
  <2>3. ResultType' /\ MissedType'
    BY <2>1 DEF ResultType, MissedType
  <2>4. TicketType'
    <3>1. CASE res.missed # {} /\ (res.at > 1 \/ res.at = 0)
      <4>1. DOMAIN Fill # {}
        BY <2>1, <3>1 DEF Resolution
      <4>2. 1 \in DOMAIN Fill
        BY <1>0, <4>1, FillIs DEF ChainType
      <4>3. DriftTicket = [missed |-> Fill[1].c, used |-> res.answer, at |-> res.at, healed |-> res.healed,
                           banked |-> res.ok /\ HitAt = {} /\ 1 \in MissedAt]
        BY <3>1 DEF DriftTicket
      <4>4. Fill[1].c \in Cand
        BY <1>3, <4>2
      <4>5. (res.ok /\ HitAt = {} /\ 1 \in MissedAt) \in BOOLEAN
        OBVIOUS
      <4>6. res.answer \in Cand \cup {None} /\ res.at \in Nat /\ res.healed \in BOOLEAN
        BY DEF ResultType
      <4> HIDE DEF HitAt
      <4> QED BY <2>1, <4>3, <4>4, <4>5, <4>6 DEF TicketType, Ticket
    <3>2. CASE ~(res.missed # {} /\ (res.at > 1 \/ res.at = 0))
      BY <2>1, <3>2 DEF DriftTicket, TicketType
    <3> QED BY <3>1, <3>2
  <2>5. ChainType'
    <3>1. \A i \in DOMAIN chain : chain[i] \in Entry
      BY <1>0 DEF ChainType
    <3>2. \A i \in DOMAIN chain : Banked(times)[i] \in Entry
      <4>1. ASSUME NEW i \in DOMAIN chain PROVE Banked(times)[i] \in Entry
        <5>1. Banked(times)[i] = Bump(chain[i], IF i \in HitAt THEN times ELSE 0, IF i \in MissedAt THEN times ELSE 0)
          BY DEF Banked
        <5>2. (IF i \in HitAt THEN times ELSE 0) \in Nat /\ (IF i \in MissedAt THEN times ELSE 0) \in Nat
          OBVIOUS
        <5> QED BY <3>1, <5>1, <5>2, BumpIs
      <4> QED BY <4>1
    <3>3. DOMAIN Banked(times) = DOMAIN chain /\ Banked(times) = [i \in DOMAIN chain |-> Banked(times)[i]]
      BY DEF Banked
    <3>4. Banked(times) \in Seq(Entry) /\ Banked(times) # <<>>
      <4>1. chain \in Seq(Entry) /\ chain # <<>> /\ DOMAIN chain = 1..Len(chain) /\ Len(chain) \in Nat
        BY <1>0 DEF ChainType
      <4> DEFINE len == Len(chain)
      <4>2. len \in Nat /\ len # 0 /\ DOMAIN chain = 1..len
        BY <4>1
      <4> HIDE DEF len
      <4> QED BY <3>2, <3>3, <4>2
    <3> QED BY <1>0, <2>2, <3>4 DEF ChainType
  <2>6. FlagType'
    BY <1>0, <2>1 DEF FlagType
  <2>7. PlaceType' /\ WorldType' /\ LocatorType' /\ SeenType'
    BY <1>0, <2>1 DEF PlaceType, Pcs, WorldType, Page, Unseen, LocatorType, SeenType
  <2>8. LogType'
    BY <1>0, <2>1 DEF LogType
  <2> QED BY <1>1, <2>3, <2>4, <2>5, <2>6, <2>7, <2>8
<1>9. CASE Recover
  <2>1. /\ res' = [res EXCEPT !.recovered = TRUE]
        /\ want' \in {want, FALSE} /\ demoted' \in {demoted, TRUE} /\ ticket' \in {None, Stopped, ticket}
        /\ log' \in {Append(log, "helped"), Append(log, "recovered")}
    BY <1>9 DEF Recover
  <2>2. pc' = "drain" /\ UNCHANGED <<chain, given, n, world, variant, rerecord, flagged, end, history>>
    BY <1>9 DEF Recover
  <2>3. ResultType'
    BY <2>1 DEF ResultType
  <2>4. MissedType'
    <3>1. res'.missed = res.missed
      BY <2>1 DEF ResultType
    <3> QED BY <1>0, <2>2, <3>1 DEF MissedType
  <2>5. TicketType'
    <3>1. Stopped \in Ticket
      BY DEF Stopped, Ticket
    <3> QED BY <2>1, <3>1 DEF TicketType
  <2>6. FlagType'
    BY <1>0, <2>1, <2>2 DEF FlagType
  <2>7. LogType'
    BY <1>0, <2>1 DEF LogType
  <2>8. ChainType' /\ PlaceType' /\ WorldType' /\ LocatorType' /\ SeenType'
    BY <1>0, <2>2 DEF ChainType, PlaceType, Pcs, WorldType, LocatorType, SeenType
  <2> QED BY <1>1, <2>3, <2>4, <2>5, <2>6, <2>7, <2>8
\* From the drain on, the result and the ticket stay until the next run.
<1>10. ASSUME UNCHANGED <<want, demoted, given, world, log, history>>,
              UNCHANGED <<res, ticket>> \/ (res' = NoRun /\ ticket' = None),
              chain' \in Seq(Entry), DOMAIN chain \subseteq DOMAIN chain', variant' \in Cand \cup {None},
              rerecord' \in BOOLEAN, flagged' \in BOOLEAN, pc' \in Pcs, n' \in 0..Converge, end' \in Ends
       PROVE  TypeOK' /\ ResultType' /\ TicketType'
  <2>1. ResultType' /\ TicketType'
    BY <1>2, <1>10 DEF ResultType, TicketType
  <2>2. ChainType' /\ MissedType'
    <3>1. res'.missed = res.missed \/ res'.missed = {}
      BY <1>10 DEF NoRun
    <3> QED BY <1>0, <1>10, <3>1 DEF ChainType, MissedType
  <2>3. FlagType' /\ PlaceType' /\ WorldType' /\ LocatorType' /\ LogType' /\ SeenType'
    BY <1>0, <1>10 DEF FlagType, PlaceType, WorldType, LocatorType, LogType, SeenType
  <2> QED BY <1>1, <2>1, <2>2, <2>3
<1>11. CASE PromoteFallback
  <2>1. chain' \in Seq(Entry) /\ DOMAIN chain' = DOMAIN chain
    <3>1. CASE Promotable(ticket.at)
      <4>1. ticket.at \in DOMAIN chain /\ chain' = ToFront(ticket.at)
        BY <1>11, <3>1 DEF PromoteFallback, Promotable
      <4> QED BY <1>0, <4>1, ToFrontIs DEF ChainType
    <3>2. CASE ~Promotable(ticket.at)
      BY <1>0, <1>11, <3>2 DEF PromoteFallback, ChainType
    <3> QED BY <3>1, <3>2
  <2> QED BY <1>0, <1>10, <1>11, <2>1 DEF PromoteFallback, ToFold, FlagType, PlaceType, LocatorType, Pcs
<1>12. CASE PatchSegment
  <2>1. variant' \in Cand \cup {None}
    BY <1>12 DEF PatchSegment, ResultType
  <2> QED BY <1>0, <1>10, <1>12, <2>1 DEF PatchSegment, ToFold, ChainType, FlagType, PlaceType, Pcs
<1>13. CASE AskRerecord \/ Skip
  <2>1. rerecord' \in BOOLEAN
    BY <1>0, <1>13 DEF AskRerecord, Skip, FlagType
  <2> QED BY <1>0, <1>10, <1>13, <2>1 DEF AskRerecord, Skip, ToFold, ChainType, LocatorType, FlagType, PlaceType, Pcs
<1>14. CASE FoldVariant
  <2>1. chain' \in Seq(Entry) /\ DOMAIN chain \subseteq DOMAIN chain'
    <3>1. CASE variant \in {None, chain[1].c}
      BY <1>0, <1>14, <3>1 DEF FoldVariant, ChainType
    <3>2. CASE variant \notin {None, chain[1].c}
      <4>1. chain' = <<[c |-> variant, hit |-> 0, miss |-> 0]>> \o chain
        BY <1>14, <3>2 DEF FoldVariant
      <4>2. [c |-> variant, hit |-> 0, miss |-> 0] \in Entry
        BY <1>0, <3>2 DEF LocatorType, Entry
      <4> DEFINE e == [c |-> variant, hit |-> 0, miss |-> 0]
      <4> HIDE DEF e
      <4>3. e \in Entry /\ chain' = <<e>> \o chain
        BY <4>1, <4>2 DEF e
      <4> QED BY <1>0, <4>3 DEF ChainType
    <3> QED BY <3>1, <3>2
  <2> QED BY <1>0, <1>10, <1>14, <2>1 DEF FoldVariant, FlagType, PlaceType, Pcs
<1>15. CASE FoldEvidence
  <2>1. Folded \in Seq(Entry) /\ Folded # <<>> /\ DOMAIN Folded = DOMAIN chain
    BY <1>0, FoldedIs DEF ChainType
  <2>2. Ordered(Folded) \in Seq(Entry) /\ Len(Ordered(Folded)) = Len(Folded)
    BY <2>1, OrderedIs
  <2>3. chain' \in Seq(Entry) /\ DOMAIN chain \subseteq DOMAIN chain'
    <3>1. chain' = Ordered(Folded)
      BY <1>15 DEF FoldEvidence
    <3> QED BY <2>1, <2>2, <3>1
  <2> QED BY <1>0, <1>10, <1>15, <2>3 DEF FoldEvidence, FlagType, PlaceType, LocatorType, Pcs
<1>16. CASE Gate
  <2>1. pc' \in {"run", "done"} /\ n' \in 0..Converge /\ end' \in Ends
    BY <1>0, <1>16, KindsAssumption DEF Gate, Passed, NextRun, Verdict, PlaceType, Ends
  <2>2. flagged' \in BOOLEAN
    BY <1>16 DEF Gate
  <2>3. /\ UNCHANGED <<procedure, given, world, variant, rerecord, log, history>>
        /\ UNCHANGED <<res, ticket>> \/ (res' = NoRun /\ ticket' = None)
    BY <1>16 DEF Gate, Passed, NextRun, Verdict
  <2> QED BY <1>0, <1>10, <2>1, <2>2, <2>3 DEF ChainType, LocatorType, FlagType, Pcs
<1> QED BY <1>4, <1>5, <1>6, <1>7, <1>8, <1>9, <1>11, <1>12, <1>13, <1>14, <1>15, <1>16 DEF Next, Run, Drain
-----------------------------------------------------------------------------
(* The steps.                                                              *)

\* Where the next run, or the drain, begins.
LEMMA Turning ==
    ASSUME Next
    PROVE  /\ pc \in Pcs \ {"done"}
           /\ pc' = "bank" => Hit \/ Dead
           /\ pc' = "gate" => FoldEvidence
           /\ end' # end => Gate
BY DEF Pcs, Next, Run, Drain, Reach, CoveredByOther, StopsBefore, Hit, Dead, Bank, Recover, PromoteFallback, PatchSegment,
       AskRerecord, Skip, Drains, ToFold, FoldVariant, FoldEvidence, Gate, Passed, NextRun, Verdict

LEMMA SameFill ==
    ASSUME UNCHANGED <<chain, unfilled>>
    PROVE  Fill' = Fill
BY DEF Fill, Kept, Listed

LEMMA ResolutionStep ==
    ASSUME Next
    PROVE  Resolution'
<1> SUFFICES ASSUME pc' = "bank" PROVE Resolution'
  BY DEF Resolution
<1> USE DEF procedure, world
<1>1. CASE Hit
  <2>1. Fill' = Fill
    BY <1>1, SameFill DEF Hit
  <2>2. PICK i \in Answering(Fill), ok \in BOOLEAN :
          res' = [NoRun EXCEPT !.answer = Fill[i].c, !.at = i, !.missed = Before(Fill, i), !.ok = ok]
    BY <1>1 DEF Hit
  <2>3. res'.answer = Fill[i].c /\ res'.at = i /\ res'.missed = Before(Fill, i)
    BY <2>2 DEF NoRun
  <2>4. i \in DOMAIN Fill /\ Before(Fill, i) \subseteq DOMAIN Fill
    BY DEF Answering, Before
  <2>5. Before(Fill, i)' = Before(Fill, i)
    BY <2>1 DEF Before, Less, Turn
  <2>6. i # 0
    <3>1. DOMAIN Fill = 1..Cardinality(Kept)
      BY DEF Fill, Listed
    <3> QED BY <2>4, <3>1
  <2> QED BY <2>1, <2>3, <2>4, <2>5, <2>6 DEF Resolution, Before
<1>2. CASE Dead
  <2>1. Fill' = Fill
    BY <1>2, SameFill DEF Dead
  <2>2. res'.at = 0 /\ res'.missed = DOMAIN Fill
    BY <1>2 DEF Dead, NoRun
  <2> QED BY <2>1, <2>2 DEF Resolution
<1> QED BY <1>1, <1>2, Turning

\* Only the gate begins a run.
LEMMA FreshStep ==
    ASSUME Next
    PROVE  Fresh'
BY DEF Fresh, Next, Run, Drain, Reach, CoveredByOther, StopsBefore, Hit, Dead, Bank, Recover, PromoteFallback, PatchSegment,
       AskRerecord, Skip, Drains, ToFold, FoldVariant, FoldEvidence, Gate, Passed, NextRun, Verdict

\* What answers first leads; a path is put behind the names when one of them did.
LEMMA NamesLeadStep ==
    ASSUME TypeOK, ResultType, TicketType, Resolution, Next
    PROVE  NamesLead'
<1> SUFFICES ASSUME pc' = "gate", chain'[1].c \notin Named,
                    NEW i \in DOMAIN chain', chain'[i].c \in Named, chain'[i].hit # 0
             PROVE  FALSE
  BY DEF NamesLead
<1>1. chain' = Ordered(Folded)
  BY Turning DEF FoldEvidence
<1>2. Folded \in Seq(Entry) /\ Folded # <<>>
  BY FoldedIs DEF TypeOK
<1>3. PICK j \in DOMAIN Folded : chain'[i] = Folded[j]
  BY <1>1, <1>2, OrderedIs
<1>4. PICK f \in DOMAIN Folded : chain'[1] = Folded[f] /\ \A k \in DOMAIN Folded : ~Less(Place(Folded, k), Place(Folded, f))
  BY <1>1, <1>2, OrderedIs
<1>5. Folded[j].c \in Named /\ Folded[j].hit > 0
  BY <1>2, <1>3, EntryAt
<1>6. Anchored(Folded)
  BY <1>5 DEF Anchored
<1>7. Clamped(Folded[j], Anchored(Folded)) = 0
  BY <1>5 DEF Clamped, EvidenceRank
<1>8. Clamped(Folded[f], Anchored(Folded)) \in 1..2
  BY <1>4, <1>6 DEF Clamped, EvidenceRank
<1>9. ClassRank(Folded[j]) \in Int /\ ClassRank(Folded[f]) \in Int /\ j \in Int /\ f \in Int
  <2>1. Rank[Folded[j].c] \in Nat /\ Rank[Folded[f].c] \in Nat /\ j \in Nat /\ f \in Nat
    BY <1>2, EntryAt, KindsAssumption
  <2> QED BY <2>1 DEF ClassRank
<1>10. Less(Place(Folded, j), Place(Folded, f))
  <2> DEFINE a == Clamped(Folded[j], Anchored(Folded)) x == Clamped(Folded[f], Anchored(Folded))
             b == ClassRank(Folded[j]) y == ClassRank(Folded[f])
  <2>1. a \in Int /\ x \in Int /\ b \in Int /\ y \in Int /\ a < x
    BY <1>7, <1>8, <1>9
  <2>2. Place(Folded, j) = <<a, b, j>> /\ Place(Folded, f) = <<x, y, f>>
    BY DEF Place
  <2> HIDE DEF a, b, x, y
  <2> QED BY <1>9, <2>1, <2>2, LessIs
<1> QED BY <1>4, <1>10

LEMMA LoggedStep ==
    ASSUME TypeOK, Logged, Next
    PROVE  Logged'
<1>1. /\ log \in Seq({"replayed", "helped", "recovered"}) /\ Len(log) \in Nat /\ DOMAIN log = 1..Len(log)
      /\ n \in Nat /\ n \in 0..Converge /\ flagged \in BOOLEAN
  BY KindsAssumption DEF TypeOK
<1>2. ASSUME UNCHANGED <<log, n, end>>, flagged' = flagged,
             pc \in {"run", "resolve", "bank"}, pc' \in {"resolve", "bank", "recover"}
      PROVE  Logged'
  BY <1>2 DEF Logged
<1>3. ASSUME UNCHANGED <<n, end>>, flagged' = flagged, pc \in {"run", "bank", "recover"}, pc' = "drain",
             NEW how \in {"replayed", "helped", "recovered"}, log' = Append(log, how)
      PROVE  Logged'
  <2>1. Len(log) = n
    BY <1>3 DEF Logged
  <2>2. Len(log') = n + 1 /\ DOMAIN log' = 1..n + 1 /\ log'[n + 1] = how /\ \A k \in 1..n : log'[k] = log[k]
    BY <1>1, <1>3, <2>1
  <2>3. \A k \in DOMAIN log' : k > 1 /\ k <= n /\ log'[k] = "recovered" => flagged
    BY <1>1, <2>1, <2>2 DEF Logged
  <2>4. end = "none"
    BY <1>3 DEF Logged
  <2> QED BY <1>3, <2>2, <2>3, <2>4 DEF Logged
<1>4. ASSUME UNCHANGED <<log, n, end>>, flagged' = flagged,
             pc \in {"drain", "fold", "evidence"}, pc' \in {"fold", "evidence", "gate"}
      PROVE  Logged'
  BY <1>4 DEF Logged
<1>5. CASE Reach \/ Hit \/ Dead \/ StopsBefore
  <2>1. UNCHANGED <<log, n, end>> /\ flagged' = flagged /\ pc \in {"run", "resolve"} /\ pc' \in {"resolve", "bank", "recover"}
    BY <1>5 DEF Reach, Hit, Dead, StopsBefore
  <2> QED BY <1>2, <2>1
<1>6. CASE CoveredByOther
  BY <1>3, <1>6 DEF CoveredByOther
<1>7. CASE Bank
  <2>1. UNCHANGED <<n, end, flagged>> /\ pc = "bank"
    BY <1>7 DEF Bank
  <2>2. CASE res.ok
    BY <1>3, <1>7, <2>1, <2>2 DEF Bank
  <2>3. CASE ~res.ok
    BY <1>2, <1>7, <2>1, <2>3 DEF Bank
  <2> QED BY <2>2, <2>3
<1>8. CASE Recover
  BY <1>3, <1>8 DEF Recover
<1>9. CASE Drain \/ FoldVariant \/ FoldEvidence
  BY <1>4, <1>9 DEF Drain, PromoteFallback, PatchSegment, AskRerecord, Skip, Drains, ToFold, FoldVariant, FoldEvidence
<1>10. CASE Gate
  <2>1. pc = "gate" /\ UNCHANGED log /\ (flagged => flagged') /\ end = "none" /\ Len(log) = n + 1
    BY <1>10 DEF Gate, Logged
  <2>2. CASE pc' = "run"
    <3>1. n' = n + 1 /\ UNCHANGED end
      BY <1>10, <2>2 DEF Gate, Passed, NextRun, Verdict
    <3>2. n = 0 \/ Clean \/ flagged'
      BY <1>10, <2>2 DEF Gate, Verdict
    <3>3. ASSUME NEW k \in DOMAIN log, k > 1, k <= n + 1, log[k] = "recovered" PROVE flagged'
      <4>1. k \in Nat
        BY <1>1
      <4>2. CASE k <= n
        BY <2>1, <3>3, <4>2 DEF Logged
      <4>3. CASE k = n + 1
        <5>1. n # 0 /\ log[Len(log)] = "recovered"
          BY <1>1, <2>1, <3>3, <4>3
        <5> QED BY <3>2, <5>1 DEF Clean
      <4> QED BY <1>1, <3>3, <4>1, <4>2, <4>3
    <3> QED BY <1>1, <2>1, <2>2, <3>1, <3>3 DEF Logged
  <2>3. CASE pc' # "run"
    <3>1. pc' = "done" /\ n' = n
      BY <1>10, <2>3 DEF Gate, Passed, NextRun, Verdict
    <3> QED BY <2>1, <3>1 DEF Logged
  <2> QED BY <2>2, <2>3
<1> QED BY <1>5, <1>6, <1>7, <1>8, <1>9, <1>10 DEF Next, Run

\* The file is written at the gate, over a run that was clean.
LEMMA WrittenStep ==
    ASSUME TypeOK, Logged, Evidence, Next
    PROVE  WrittenMeans'
<1> SUFFICES ASSUME end' = "written" PROVE WrittenMeans'
  BY DEF WrittenMeans
<1>1. pc # "done" /\ end = "none"
  BY Turning DEF Logged
<1>2. Gate
  BY <1>1, Turning
<1>3. /\ log \in Seq({"replayed", "helped", "recovered"}) /\ Len(log) \in Nat /\ DOMAIN log = 1..Len(log)
      /\ n \in Nat /\ n <= Converge /\ Converge \in Nat
  BY KindsAssumption DEF TypeOK
<1>4. UNCHANGED <<chain, want, demoted, looped, log, misses, shifted>>
  BY <1>2 DEF Gate, procedure, given, history
<1>5. PICK readOnly \in BOOLEAN :
        /\ flagged' = (flagged \/ Flags(readOnly)) /\ Passed(flagged')
        /\ n = 0 \/ Clean \/ flagged'
  BY <1>1, <1>2 DEF Gate, Verdict
<1>6. ~(n < Converge) /\ want /\ ~flagged' /\ UNCHANGED ticket
  BY <1>1, <1>5 DEF Passed, NextRun, Verdict
<1>7. ~demoted /\ ~flagged /\ (n = 0 \/ Clean)
  BY <1>5, <1>6 DEF Flags
<1>8. Len(log) = n + 1
  BY <1>2 DEF Gate, Logged
<1>9. ASSUME NEW k \in DOMAIN log, k > 1 PROVE log[k] # "recovered"
  <2>1. CASE k = n + 1
    BY <1>3, <1>7, <1>8, <1>9, <2>1 DEF Clean
  <2>2. CASE k <= n
    BY <1>7, <1>9, <2>2 DEF Logged
  <2> QED BY <1>3, <1>8, <2>1, <2>2
<1>10. ASSUME Converge > 0, ticket # None
       PROVE  \E i \in DOMAIN chain :
                 /\ chain[i].c = ticket.missed /\ Retired(chain[i])
                 /\ ~shifted /\ ~looped /\ ticket.missed \in Named => misses[ticket.missed] >= 2
  <2>1. ~News
    BY <1>3, <1>6, <1>7, <1>10 DEF Clean
  <2>2. Cardinality(Where(chain, ticket.missed)) = 1 /\ \A i \in Where(chain, ticket.missed) : Retired(chain[i])
    BY <1>10, <2>1 DEF News
  <2>3. Where(chain, ticket.missed) # {}
    BY <2>2, FS_EmptySet
  <2>4. PICK i \in DOMAIN chain : chain[i].c = ticket.missed /\ Retired(chain[i])
    BY <2>2, <2>3 DEF Where
  <2>5. ASSUME ~shifted, ~looped, ticket.missed \in Named PROVE misses[ticket.missed] >= 2
    <3>1. chain[i].miss <= misses[ticket.missed] /\ chain[i].miss >= 2
      BY <2>4, <2>5 DEF Evidence, EvidenceIsTrue, Retired
    <3>2. chain[i].miss \in Nat /\ misses[ticket.missed] \in Nat
      BY <2>5, EntryAt DEF TypeOK, Named
    <3> QED BY <3>1, <3>2
  <2> QED BY <2>4, <2>5
<1> QED BY <1>4, <1>6, <1>7, <1>9, <1>10 DEF WrittenMeans, Retired
-----------------------------------------------------------------------------
(* The account of the evidence.                                            *)

Seen(e) == e.c \in Named => e.hit <= hits[e.c] /\ e.miss <= misses[e.c]

\* A step that keeps the account and only moves, or drops, entries.
LEMMA Rearranged ==
    ASSUME Evidence, UNCHANGED <<looped, hits, misses, shifted>>,
           \A k \in DOMAIN chain' : \E j \in DOMAIN chain : chain'[k] = chain[j],
           pc' # "bank",
           \/ ticket' = None \/ ticket'.missed = None
           \/ pc' \notin {"recover", "drain", "fold", "evidence"}
           \/ pc \in {"recover", "drain", "fold", "evidence"} /\ ticket' = ticket
    PROVE  Evidence'
<1> SUFFICES ASSUME ~shifted, ~looped PROVE EvidenceIsTrue' /\ Owed'
  BY DEF Evidence, EvidenceIsTrue, Pending
<1>1. \A i \in DOMAIN chain : Seen(chain[i])
  BY DEF Evidence, EvidenceIsTrue, Seen
<1>2. EvidenceIsTrue'
  <2> SUFFICES ASSUME NEW k \in DOMAIN chain', chain'[k].c \in Named
               PROVE  chain'[k].hit <= hits[chain'[k].c] /\ chain'[k].miss <= misses[chain'[k].c]
    BY DEF EvidenceIsTrue
  <2>1. PICK j \in DOMAIN chain : chain'[k] = chain[j]
    OBVIOUS
  <2> QED BY <1>1, <2>1 DEF Seen
<1>3. Owed'
  <2> SUFFICES ASSUME pc' \in {"recover", "drain", "fold", "evidence"}, ticket' # None,
                      ticket'.missed \in Named, ~ticket'.banked, ticket'.used \in Positional \cup {None}
               PROVE  Uncounted(ticket.missed)'
    BY DEF Owed
  <2>1. None \notin Named
    BY KindsAssumption DEF Named
  <2>2. Uncounted(ticket.missed) /\ ticket' = ticket
    BY <2>1 DEF Evidence, Owed
  <2>3. ASSUME NEW k \in DOMAIN chain', chain'[k].c = ticket.missed PROVE chain'[k].miss < misses[ticket.missed]
    <3>1. PICK j \in DOMAIN chain : chain'[k] = chain[j]
      OBVIOUS
    <3> QED BY <2>2, <2>3, <3>1 DEF Uncounted
  <2> QED BY <2>2, <2>3 DEF Uncounted
<1> QED BY <1>2, <1>3

\* A resolution counts a miss for each locator it tried in vain, and no entry has it yet.
LEMMA Charged ==
    ASSUME ChainType, SeenType, EvidenceIsTrue, ~shifted, ~looped, NEW missed \in SUBSET DOMAIN Fill, Tried(missed),
           UNCHANGED <<chain, unfilled>>
    PROVE  /\ \A c \in Cand : misses'[c] >= misses[c]
           /\ \A j \in missed : Fill[j].c \in Named => Uncounted(Fill[j].c)'
<1>1. \A c \in Cand : misses[c] \in Nat
  BY DEF SeenType
<1>2. \A c \in Cand : misses'[c] = misses[c] + (IF \E i \in missed : Fill[i].c = c THEN 1 ELSE 0)
  BY DEF Tried
<1>3. \A c \in Cand : misses'[c] >= misses[c]
  BY <1>1, <1>2
<1>4. ASSUME NEW j \in missed, Fill[j].c \in Named PROVE Uncounted(Fill[j].c)'
  <2>1. Fill' = Fill
    BY SameFill
  <2> DEFINE d == Fill[j].c
  <2>2. d \in Named /\ d \in Cand /\ d' = d
    BY <1>4, <2>1 DEF Named
  <2>3. misses'[d] = misses[d] + 1 /\ misses[d] \in Nat
    BY <1>1, <1>2, <2>2
  <2>4. \A i \in DOMAIN chain : chain[i].c = d => chain[i].miss <= misses[d]
    BY <2>2 DEF EvidenceIsTrue
  <2>5. \A i \in DOMAIN chain : chain[i].miss \in Nat
    BY EntryAt DEF ChainType
  <2> HIDE DEF d
  <2>6. misses'[d] > 0 /\ \A i \in DOMAIN chain : chain[i].c = d => chain[i].miss < misses'[d]
    BY <2>3, <2>4, <2>5
  <2> QED BY <2>1, <2>2, <2>6 DEF Uncounted, d
<1> QED BY <1>3, <1>4

LEMMA EvidenceResolve ==
    ASSUME TypeOK, ResultType, Evidence, Hit \/ Dead
    PROVE  Evidence'
<1> USE DEF procedure, given, world
<1>1. ChainType /\ SeenType /\ pc' = "bank" /\ UNCHANGED <<chain, unfilled, looped, shifted>>
  BY TypeParts DEF Hit, Dead
<1> SUFFICES ASSUME ~shifted, ~looped PROVE EvidenceIsTrue' /\ Pending'
  BY <1>1 DEF Evidence, Owed
<1>2. EvidenceIsTrue /\ Fill' = Fill
  BY <1>1, SameFill DEF Evidence
<1>3. \A c \in Cand : hits[c] \in Nat /\ misses[c] \in Nat
  BY <1>1 DEF SeenType
<1>4. PICK missed \in SUBSET DOMAIN Fill :
        /\ Tried(missed) /\ res'.missed = missed
        /\ \/ UNCHANGED hits /\ res'.at = 0
           \/ res'.answer \in Cand /\ hits' = [hits EXCEPT ![res'.answer] = @ + 1]
  <2>1. CASE Hit
    <3>1. PICK i \in Answering(Fill), ok \in BOOLEAN :
            /\ res' = [NoRun EXCEPT !.answer = Fill[i].c, !.at = i, !.missed = Before(Fill, i), !.ok = ok]
            /\ hits' = [hits EXCEPT ![Fill[i].c] = @ + 1] /\ Tried(Before(Fill, i))
      BY <2>1 DEF Hit
    <3>2. res'.answer = Fill[i].c /\ res'.missed = Before(Fill, i)
      BY <3>1 DEF NoRun
    <3>3. Before(Fill, i) \in SUBSET DOMAIN Fill /\ i \in DOMAIN Fill
      BY DEF Before, Answering
    <3>4. Fill[i].c \in Cand
      BY <1>1, <3>3, FillIs DEF ChainType
    <3> QED BY <3>1, <3>2, <3>3, <3>4
  <2>2. CASE Dead
    <3>1. Tried(DOMAIN Fill) /\ UNCHANGED hits /\ res'.missed = DOMAIN Fill /\ res'.at = 0
      BY <2>2 DEF Dead, NoRun
    <3> QED BY <3>1
  <2> QED BY <2>1, <2>2
<1>5. /\ \A c \in Cand : misses'[c] >= misses[c]
      /\ \A j \in missed : Fill[j].c \in Named => Uncounted(Fill[j].c)'
  BY <1>1, <1>2, <1>4, Charged
<1>6. \A c \in Cand : hits'[c] >= hits[c]
  BY <1>1, <1>3, <1>4 DEF SeenType
<1>7. \A c \in Cand : hits'[c] \in Nat /\ misses'[c] \in Int
  BY <1>1, <1>3, <1>4 DEF SeenType, Tried
<1>8. EvidenceIsTrue'
  <2> SUFFICES ASSUME NEW k \in DOMAIN chain, chain[k].c \in Named
               PROVE  chain[k].hit <= hits'[chain[k].c] /\ chain[k].miss <= misses'[chain[k].c]
    BY <1>1 DEF EvidenceIsTrue
  <2>1. chain[k].hit <= hits[chain[k].c] /\ chain[k].miss <= misses[chain[k].c]
    BY <1>2 DEF EvidenceIsTrue
  <2>2. chain[k].c \in Cand /\ chain[k].hit \in Nat /\ chain[k].miss \in Nat
    BY <1>1, EntryAt DEF ChainType
  <2> QED BY <1>3, <1>5, <1>6, <1>7, <2>1, <2>2
<1>9. Pending'
  <2>1. ASSUME res'.at # 0, res'.answer \in Named, NEW i \in DOMAIN chain, chain[i].c = res'.answer
        PROVE  chain[i].hit < hits'[res'.answer]
    <3>1. hits'[res'.answer] = hits[res'.answer] + 1 /\ res'.answer \in Cand
      BY <1>1, <1>4, <2>1 DEF SeenType
    <3>2. chain[i].hit <= hits[res'.answer]
      BY <1>2, <2>1 DEF EvidenceIsTrue
    <3>3. chain[i].hit \in Nat
      BY <1>1, EntryAt DEF ChainType
    <3> QED BY <1>3, <3>1, <3>2, <3>3
  <2>2. \A j \in res'.missed : Fill'[j].c \in Named => Uncounted(Fill[j].c)'
    BY <1>2, <1>4, <1>5
  <2> QED BY <1>1, <2>1, <2>2 DEF Pending
<1> QED BY <1>8, <1>9

\* The ticket's locator, if it is a name a path answered for, was tried in vain.
LEMMA TicketMissed ==
    ASSUME TypeOK, ResultType, Resolution, pc = "bank", DriftTicket # None, DriftTicket.missed \in Named,
           DriftTicket.used \in Positional \cup {None}
    PROVE  /\ DriftTicket.missed = Fill[1].c /\ 1 \in res.missed
           /\ HitAt = {}
           /\ DriftTicket.banked = (res.ok /\ HitAt = {} /\ 1 \in MissedAt)
<1>1. /\ res.missed # {} /\ (res.at > 1 \/ res.at = 0)
      /\ DriftTicket = [missed |-> Fill[1].c, used |-> res.answer, at |-> res.at, healed |-> res.healed,
                        banked |-> res.ok /\ HitAt = {} /\ 1 \in MissedAt]
  BY DEF DriftTicket
<1>2. Fill[1].c \in Named /\ res.answer \in Positional \cup {None}
  BY <1>1
<1>3. /\ Fill \in Seq(Entry) /\ DOMAIN Fill \subseteq Nat
      /\ \A i \in DOMAIN Fill : Fill[i].c \in Cand
  BY FillIs DEF TypeOK
<1>4. 1 \in DOMAIN Fill
  <2>1. DOMAIN Fill # {}
    BY <1>1 DEF Resolution
  <2> QED BY <2>1, FillIs DEF TypeOK
<1>5. CASE res.at = 0
  BY <1>1, <1>4, <1>5 DEF Resolution, HitAt
<1>6. CASE res.at # 0
  <2>1. res.at \in DOMAIN Fill /\ res.answer = Fill[res.at].c /\ res.missed = Before(Fill, res.at)
    BY <1>6 DEF Resolution
  <2>2. Fill[res.at].c \in Cand /\ Fill[res.at].c \notin Named
    <3>1. Fill[res.at].c \in Cand
      BY <1>3, <2>1
    <3> QED BY <1>2, <2>1, <3>1, KindsAssumption
  <2>3. HitAt = {}
    BY <2>2 DEF HitAt, Named1
  <2>4. Rank[Fill[1].c] < 2 /\ ~(Rank[Fill[res.at].c] < 2) /\ Rank[Fill[1].c] \in Nat /\ Rank[Fill[res.at].c] \in Nat
    BY <1>2, <2>2, KindsAssumption DEF Named
  <2>5. Less(Turn(Fill, 1), Turn(Fill, res.at))
    <3> DEFINE a == Rank[Fill[1].c] x == Rank[Fill[res.at].c]
               b == IF Retired(Fill[1]) THEN 1 ELSE 0 y == IF Retired(Fill[res.at]) THEN 1 ELSE 0
    <3>1. a \in Int /\ x \in Int /\ b \in Int /\ y \in Int /\ a < x /\ res.at \in Int
      BY <1>3, <2>1, <2>4
    <3>2. Turn(Fill, 1) = <<a, b, 1>> /\ Turn(Fill, res.at) = <<x, y, res.at>>
      BY DEF Turn
    <3> HIDE DEF a, b, x, y
    <3> QED BY <3>1, <3>2, LessIs
  <2> QED BY <1>1, <1>4, <2>1, <2>3, <2>5 DEF Before
<1> QED BY <1>5, <1>6

\* The replay puts a hit or a miss down at the entry it is about, once; the
\* miss of a ticket whose chain it says nothing about stays owed.
LEMMA EvidenceBank ==
    ASSUME TypeOK, ResultType, Resolution, Evidence, Bank
    PROVE  Evidence'
<1> USE DEF given
<1>1. /\ ChainType /\ SeenType /\ pc = "bank" /\ UNCHANGED <<looped, hits, misses>>
      /\ pc' = (IF res.ok THEN "drain" ELSE "recover") /\ ticket' = DriftTicket
      /\ shifted' = (shifted \/ (res.ok /\ \E i \in HitAt \cup MissedAt : chain[i].c # Fill[i].c))
  BY TypeParts DEF Bank
<1> SUFFICES ASSUME ~shifted', ~looped PROVE EvidenceIsTrue' /\ Owed'
  BY <1>1 DEF Evidence, Pending
<1>2. EvidenceIsTrue /\ Pending /\ ~shifted
  BY <1>1 DEF Evidence
<1>3. \A c \in Cand : hits[c] \in Nat /\ misses[c] \in Nat
  BY <1>1 DEF SeenType
<1>4. \A i \in DOMAIN chain : chain[i] \in Entry /\ chain[i].c \in Cand /\ chain[i].hit \in Nat /\ chain[i].miss \in Nat
  BY <1>1, EntryAt DEF ChainType
<1>5. \A i \in DOMAIN chain : chain[i].c \in Named => chain[i].hit <= hits[chain[i].c] /\ chain[i].miss <= misses[chain[i].c]
  BY <1>2 DEF EvidenceIsTrue
<1>6. CASE ~res.ok
  <2>1. chain' = chain
    BY <1>6 DEF Bank
  <2>2. EvidenceIsTrue'
    BY <1>1, <1>5, <2>1 DEF EvidenceIsTrue
  <2>3. Owed'
    <3> SUFFICES ASSUME DriftTicket # None, DriftTicket.missed \in Named, DriftTicket.used \in Positional \cup {None}
                 PROVE  Uncounted(DriftTicket.missed)
      BY <1>1, <2>1 DEF Owed, Uncounted
    <3>1. DriftTicket.missed = Fill[1].c /\ 1 \in res.missed
      BY <1>1, TicketMissed
    <3> QED BY <1>1, <1>2, <3>1 DEF Pending
  <2> QED BY <2>2, <2>3
<1>7. CASE res.ok
  <2>1. chain' = Banked(1)
    BY <1>7 DEF Bank
  <2>2. \A i \in HitAt \cup MissedAt : chain[i].c = Fill[i].c
    BY <1>1, <1>7
  <2>3. /\ HitAt \subseteq {res.at} /\ (HitAt # {} => res.at # 0 /\ Fill[res.at].c \in Named)
        /\ MissedAt \subseteq res.missed
    BY DEF HitAt, MissedAt, Named1
  <2>4. ASSUME NEW i \in DOMAIN chain
        PROVE  /\ chain'[i].c = chain[i].c
               /\ chain'[i].hit = chain[i].hit + (IF i \in HitAt THEN 1 ELSE 0)
               /\ chain'[i].miss = chain[i].miss + (IF i \in MissedAt THEN 1 ELSE 0)
    <3> DEFINE h == IF i \in HitAt THEN 1 ELSE 0 m == IF i \in MissedAt THEN 1 ELSE 0
    <3>1. chain'[i] = Bump(chain[i], h, m) /\ h \in Nat /\ m \in Nat
      BY <2>1 DEF Banked
    <3> HIDE DEF h, m
    <3>2. chain'[i].c = chain[i].c /\ chain'[i].hit = chain[i].hit + h /\ chain'[i].miss = chain[i].miss + m
      BY <1>4, <3>1, BumpIs
    <3> QED BY <3>2 DEF h, m
  <2>5. DOMAIN chain' = DOMAIN chain
    BY <2>1 DEF Banked
  <2>6. ASSUME NEW i \in DOMAIN chain, chain[i].c \in Named
        PROVE  chain'[i].hit <= hits[chain[i].c] /\ chain'[i].miss <= misses[chain[i].c]
    <3>1. chain'[i].hit <= hits[chain[i].c]
      <4>1. CASE i \in HitAt
        <5>1. i = res.at /\ res.at # 0 /\ Fill[res.at].c \in Named
          BY <2>3, <4>1
        <5>2. chain[i].c = res.answer
          BY <1>1, <2>2, <4>1, <5>1 DEF Resolution
        <5>3. chain[i].hit < hits[chain[i].c]
          BY <1>1, <1>2, <2>6, <5>1, <5>2 DEF Pending
        <5> QED BY <1>3, <1>4, <2>4, <4>1, <5>3
      <4>2. CASE i \notin HitAt
        BY <1>3, <1>4, <1>5, <2>4, <2>6, <4>2
      <4> QED BY <4>1, <4>2
    <3>2. chain'[i].miss <= misses[chain[i].c]
      <4>1. CASE i \in MissedAt
        <5>1. i \in res.missed /\ chain[i].c = Fill[i].c
          BY <2>2, <2>3, <4>1
        <5>2. Uncounted(chain[i].c)
          BY <1>1, <1>2, <2>6, <5>1 DEF Pending
        <5>3. chain[i].miss < misses[chain[i].c]
          BY <5>2 DEF Uncounted
        <5> QED BY <1>3, <1>4, <2>4, <4>1, <5>3
      <4>2. CASE i \notin MissedAt
        BY <1>3, <1>4, <1>5, <2>4, <2>6, <4>2
      <4> QED BY <4>1, <4>2
    <3> QED BY <3>1, <3>2
  <2>7. EvidenceIsTrue'
    BY <1>1, <2>4, <2>5, <2>6 DEF EvidenceIsTrue
  <2>8. Owed'
    <3> SUFFICES ASSUME DriftTicket # None, DriftTicket.missed \in Named, ~DriftTicket.banked,
                        DriftTicket.used \in Positional \cup {None}
                 PROVE  Uncounted(ticket.missed)'
      BY <1>1 DEF Owed
    <3>1. /\ DriftTicket.missed = Fill[1].c /\ 1 \in res.missed /\ 1 \notin MissedAt
      BY <1>1, <1>7, TicketMissed
    <3> DEFINE d == Fill[1].c
    <3>2. Uncounted(d) /\ d \in Named
      BY <1>1, <1>2, <3>1 DEF Pending
    <3>3. ASSUME NEW i \in DOMAIN chain, chain[i].c = d PROVE i \notin MissedAt
      <4> SUFFICES ASSUME i \in MissedAt PROVE FALSE
        OBVIOUS
      <4>1. Fill[i].c = Fill[1].c
        BY <2>2, <3>3
      <4> QED BY <3>1, <4>1, TicketMissed, <1>1 DEF MissedAt, Named1, HitAt
    <3>4. ticket'.missed = d
      BY <1>1, <3>1
    <3> HIDE DEF d
    <3>5. ASSUME NEW i \in DOMAIN chain, chain'[i].c = d PROVE chain'[i].miss < misses[d]
      <4>1. chain[i].c = d
        BY <2>4, <3>5
      <4>2. chain'[i].miss = chain[i].miss
        BY <1>4, <2>4, <3>3, <4>1
      <4> QED BY <3>2, <4>1, <4>2 DEF Uncounted
    <3> QED BY <1>1, <2>5, <3>2, <3>4, <3>5 DEF Uncounted
  <2> QED BY <2>7, <2>8
<1> QED BY <1>6, <1>7

\* The ticket pays what the replay owed, at the one entry it names.
LEMMA EvidenceFolded ==
    ASSUME TypeOK, ResultType, Evidence, FoldEvidence
    PROVE  Evidence'
<1> USE DEF given, history
<1>1. /\ ChainType /\ SeenType /\ pc = "evidence" /\ pc' = "gate" /\ chain' = Ordered(Folded)
      /\ UNCHANGED <<looped, hits, misses, shifted>>
  BY TypeParts DEF FoldEvidence
<1> SUFFICES ASSUME ~shifted, ~looped, NEW k \in DOMAIN chain', chain'[k].c \in Named
             PROVE  chain'[k].hit <= hits[chain'[k].c] /\ chain'[k].miss <= misses[chain'[k].c]
  BY <1>1 DEF Evidence, EvidenceIsTrue, Pending, Owed
<1>2. Folded \in Seq(Entry) /\ Folded # <<>> /\ DOMAIN Folded = DOMAIN chain
  BY <1>1, FoldedIs DEF ChainType
<1>3. PICK i \in DOMAIN chain : chain'[k] = Folded[i]
  BY <1>1, <1>2, OrderedIs
<1>4. chain[i] \in Entry /\ chain[i].hit \in Nat /\ chain[i].miss \in Nat
  BY <1>1, EntryAt DEF ChainType
<1>5. Folded[i] = IF Proves /\ Where(chain, ticket.missed) = {i} THEN Bump(chain[i], 0, 1) ELSE chain[i]
  BY DEF Folded
<1>6. CASE ~(Proves /\ Where(chain, ticket.missed) = {i})
  <2>1. chain'[k] = chain[i]
    BY <1>3, <1>5, <1>6, Zenon
  <2> QED BY <2>1 DEF Evidence, EvidenceIsTrue
<1>7. CASE Proves /\ Where(chain, ticket.missed) = {i}
  <2>1. chain'[k] = Bump(chain[i], 0, 1)
    BY <1>3, <1>5, <1>7, Zenon
  <2>2. chain'[k].c = chain[i].c /\ chain'[k].hit = chain[i].hit /\ chain'[k].miss = chain[i].miss + 1
    BY <1>4, <2>1, BumpedOnce
  <2>3. chain[i].c = ticket.missed
    BY <1>7 DEF Where
  <2>4. Uncounted(chain[i].c)
    BY <1>1, <1>7, <2>2, <2>3 DEF Evidence, Owed, Proves
  <2>5. chain[i].miss < misses[chain[i].c] /\ misses[chain[i].c] \in Nat
    BY <1>1, <2>2, <2>4 DEF Uncounted, SeenType, Named
  <2>6. chain[i].hit <= hits[chain[i].c]
    BY <2>2 DEF Evidence, EvidenceIsTrue
  <2> QED BY <1>4, <2>2, <2>5, <2>6
<1> QED BY <1>6, <1>7

LEMMA EvidenceVariant ==
    ASSUME TypeOK, ResultType, Evidence, FoldVariant
    PROVE  Evidence'
<1> USE DEF given, history
<1>1. /\ ChainType /\ SeenType /\ pc = "fold" /\ pc' = "evidence" /\ UNCHANGED <<looped, hits, misses, shifted, ticket>>
  BY TypeParts DEF FoldVariant
<1>2. CASE variant \in {None, chain[1].c}
  BY <1>1, <1>2, Rearranged DEF FoldVariant
<1>3. CASE variant \notin {None, chain[1].c}
  <2> DEFINE e == [c |-> variant, hit |-> 0, miss |-> 0]
  <2>1. variant \in Cand /\ e \in Entry /\ e.c = variant /\ e.hit = 0 /\ e.miss = 0
    BY <1>3 DEF TypeOK, Entry
  <2>2. chain' = <<e>> \o chain
    BY <1>3 DEF FoldVariant
  <2> HIDE DEF e
  <2>3. \A k \in DOMAIN chain' : chain'[k] = e \/ \E j \in DOMAIN chain : chain'[k] = chain[j]
    <3>1. chain \in Seq(Entry) /\ Len(chain) \in Nat /\ DOMAIN chain = 1..Len(chain)
      BY <1>1 DEF ChainType
    <3>2. <<e>> \in Seq(Entry) /\ Len(<<e>>) = 1 /\ <<e>>[1] = e
      BY <2>1
    <3> DEFINE h == <<e>>
    <3> HIDE DEF h
    <3>3. /\ chain' = h \o chain /\ h \in Seq(Entry) /\ Len(h) = 1 /\ h[1] = e
      BY <2>2, <3>2 DEF h
    <3>4. /\ chain' \in Seq(Entry) /\ Len(chain') = 1 + Len(chain)
          /\ \A k \in 1..1 + Len(chain) : chain'[k] = IF k <= 1 THEN h[k] ELSE chain[k - 1]
      <4>1. /\ h \o chain \in Seq(Entry) /\ Len(h \o chain) = Len(h) + Len(chain)
            /\ \A k \in 1..Len(h) + Len(chain) : (h \o chain)[k] = IF k <= Len(h) THEN h[k] ELSE chain[k - Len(h)]
        BY <3>1, <3>3, Concat
      <4> QED BY <3>3, <4>1
    <3>5. DOMAIN chain' = 1..1 + Len(chain)
      BY <3>4
    <3>6. ASSUME NEW k \in 1..1 + Len(chain) PROVE chain'[k] = e \/ \E j \in DOMAIN chain : chain'[k] = chain[j]
      <4>1. CASE k = 1
        BY <3>1, <3>3, <3>4, <4>1
      <4>2. CASE k # 1
        <5>1. chain'[k] = chain[k - 1] /\ k - 1 \in DOMAIN chain
          BY <3>1, <3>4, <4>2
        <5> QED BY <5>1
      <4> QED BY <4>1, <4>2
    <3> QED BY <3>5, <3>6
  <2> SUFFICES ASSUME ~shifted, ~looped PROVE EvidenceIsTrue' /\ Owed'
    BY <1>1 DEF Evidence, EvidenceIsTrue, Pending
  <2>4. EvidenceIsTrue'
    <3> SUFFICES ASSUME NEW k \in DOMAIN chain', chain'[k].c \in Named
                 PROVE  chain'[k].hit <= hits[chain'[k].c] /\ chain'[k].miss <= misses[chain'[k].c]
      BY <1>1 DEF EvidenceIsTrue
    <3>1. hits[variant] \in Nat /\ misses[variant] \in Nat
      BY <1>1, <2>1 DEF SeenType
    <3> QED BY <2>1, <2>3, <3>1 DEF Evidence, EvidenceIsTrue
  <2>5. Owed'
    <3> SUFFICES ASSUME ticket # None, ticket.missed \in Named, ~ticket.banked, ticket.used \in Positional \cup {None}
                 PROVE  Uncounted(ticket.missed)'
      BY <1>1 DEF Owed
    <3>1. Uncounted(ticket.missed)
      BY <1>1 DEF Evidence, Owed
    <3> QED BY <1>1, <2>1, <2>3, <3>1 DEF Uncounted
  <2> QED BY <2>4, <2>5
<1> QED BY <1>2, <1>3

LEMMA EvidenceStep ==
    ASSUME TypeOK, ResultType, TicketType, Fresh, Resolution, Evidence, Next
    PROVE  Evidence'
<1> USE DEF procedure, given, world, history
<1>0. chain \in Seq(Entry)
  BY DEF TypeOK
<1>1. CASE Reach \/ CoveredByOther \/ StopsBefore
  <2>1. /\ pc = "run" /\ pc' \in {"resolve", "drain", "recover"}
        /\ UNCHANGED <<chain, looped, hits, misses, shifted, ticket>>
    BY <1>1 DEF Reach, CoveredByOther, StopsBefore
  <2>2. ticket' = None
    BY <2>1 DEF Fresh
  <2> QED BY <2>1, <2>2, Rearranged
<1>2. CASE Recover
  <2>1. ticket' = ticket \/ ticket' = None \/ ticket'.missed = None
    BY <1>2 DEF Recover, Stopped
  <2> QED BY <1>2, <2>1, Rearranged DEF Recover
<1>3. CASE PromoteFallback
  <2>1. \A k \in DOMAIN chain' : \E j \in DOMAIN chain : chain'[k] = chain[j]
    <3>1. CASE Promotable(ticket.at)
      <4>1. ticket.at \in DOMAIN chain /\ chain' = ToFront(ticket.at)
        BY <1>3, <3>1 DEF PromoteFallback, Promotable
      <4> QED BY <1>0, <4>1, ToFrontIs
    <3>2. CASE ~Promotable(ticket.at)
      BY <1>3, <3>2 DEF PromoteFallback
    <3> QED BY <3>1, <3>2
  <2> QED BY <1>3, <2>1, Rearranged DEF PromoteFallback, Drains, ToFold
<1>4. CASE PatchSegment \/ AskRerecord \/ Skip
  <2>1. pc = "drain" /\ pc' = "fold" /\ UNCHANGED <<chain, looped, hits, misses, shifted, ticket>>
    BY <1>4 DEF PatchSegment, AskRerecord, Skip, Drains, ToFold
  <2> QED BY <2>1, Rearranged
<1>5. CASE Gate
  <2>1. pc' \in {"run", "done"} /\ UNCHANGED <<chain, looped, hits, misses, shifted>>
    BY <1>5 DEF Gate, Passed, NextRun, Verdict
  <2> QED BY <2>1, Rearranged
<1> QED BY <1>1, <1>2, <1>3, <1>4, <1>5, EvidenceResolve, EvidenceBank, EvidenceVariant, EvidenceFolded DEF Next, Run, Drain
-----------------------------------------------------------------------------
(* The invariant holds in every state.                                     *)

LEMMA InvStep == RepairInv /\ [Next]_vars => RepairInv'
<1> SUFFICES ASSUME RepairInv, [Next]_vars PROVE RepairInv'
  OBVIOUS
<1>1. CASE Next
  BY <1>1, TypeStep, FreshStep, ResolutionStep, EvidenceStep, NamesLeadStep, LoggedStep, WrittenStep DEF RepairInv
<1>2. CASE UNCHANGED vars
  <2> USE <1>2 DEF vars, procedure, given, world, history
  <2>1. TypeOK' /\ ResultType' /\ TicketType'
    BY DEF RepairInv, TypeOK, ResultType, TicketType
  <2>2. Fill' = Fill
    BY SameFill
  <2>3. Fresh' /\ Resolution' /\ NamesLead' /\ Logged' /\ WrittenMeans'
    BY <2>2 DEF RepairInv, Fresh, Resolution, Before, Less, Turn, NamesLead, Logged, WrittenMeans
  <2>4. Evidence'
    BY <2>2 DEF RepairInv, Evidence, EvidenceIsTrue, Pending, Owed, Uncounted
  <2> QED BY <2>1, <2>3, <2>4 DEF RepairInv
<1> QED BY <1>1, <1>2

\* A repair charges a name with no run it was not tried in vain in, lets no
\* path lead a name that answered, and writes the file only over a step that
\* kept its expectation, came to tier A in every run that had to be clean, and
\* was last forgiven a retired locator at most: RepairOK, for every chain and
\* every --converge.
THEOREM RepairIsRight == Spec => []RepairOK
<1>1. RepairInv => RepairOK
  <2>1. RepairInv => EvidenceIsTrue
    BY DEF RepairInv, Evidence, EvidenceIsTrue
  <2> QED BY <2>1 DEF RepairInv, RepairOK
<1> QED BY <1>1, InitialInv, InvStep, PTL DEF Spec
-----------------------------------------------------------------------------
(* The loop of spec --converge, whose re-recordings are checked by such runs. *)

Demoted == {p \in Proc : store[p] = "demoted"}
Replaced(s) == was[s][Len(was[s])]

\* Where the loop is: a re-record is of a step, in a round, with a refusal to
\* spare; what is looked at was compiled.
Progress ==
    /\ phase \in {"stage", "run"} => round <= MaxRounds /\ job \in Steps /\ refused[job] < 2
    /\ status # NoProc => phase = "done"
    /\ phase \in {"reset", "check", "stage", "run", "done"} => compiled = version
    /\ phase = "compile" /\ round > 1 /\ ~lastOk => compiled = version

\* A spec that is checked has a procedure in use for every step, and what was
\* left out and could be placed among them; and it is checked after the reset.
Checked ==
    /\ phase \in {"reset", "check"} => Missing = {} /\ Demotions = {} /\ Recoverable = {}
    /\ phase = "check" => (hasReset => app = "clean")
    /\ ConvergedMeans

\* What is out of use in the user's store.
Kindly ==
    kind = "flow" =>
        /\ phase \in {"compile", "reset", "check", "stage", "done"} => Demoted = gone
        /\ phase = "run" => Demoted = gone \cup retired /\ retired \cap gone = {}

\* What is pinned is there.
PinsHold ==
    kind = "flow" =>
        /\ \A s \in Steps : file[s] # NoProc => store[file[s]] # "absent"
        /\ phase = "run" => staged = file

\* While a step is re-recorded what it was pinned to is out of use, what it is
\* pinned to is not.
Swapped ==
    phase = "run" =>
        /\ staged[job] # NoProc => store[staged[job]] = "live"
        /\ was[job] # <<>>
        /\ Replaced(job) # NoProc => store[Replaced(job)] = "demoted"

\* A bundle is what it was.
Bundled ==
    kind = "bundle" =>
        /\ \A s \in Steps : \A i \in DOMAIN was[s] : was[s][i] = file[s]
        /\ phase = "run" => \A s \in Steps \ {job} : staged[s] = file[s]

\* What has a pin is a step of the flow.
InFlow ==
    /\ \A s \in Steps : file[s] # NoProc => s \in steps
    /\ phase = "run" => \A s \in Steps \ {job} : staged[s] # NoProc => s \in steps
    /\ phase = "run" /\ kind = "flow" => job \in steps

ConvergeInv == ConvergeTypeOK /\ Progress /\ Checked /\ Kindly /\ PinsHold /\ Swapped /\ Bundled /\ InFlow

LEMMA InitInv == ConvergeInit => ConvergeInv
<1> SUFFICES ASSUME ConvergeInit PROVE ConvergeInv
  OBVIOUS
<1> USE StepsAssumption, ProcAssumption, BoundsAssumption
<1>1. file \in Pins
  BY DEF ConvergeInit, Pins
<1>2. store \in Stores /\ Demoted = {}
  BY DEF ConvergeInit, Stores, Imported, Demoted
<1>9. InFlow
  BY DEF ConvergeInit, InFlow
<1>3. ConvergeTypeOK
  <2>1. was \in [Steps -> Seq(Proc \cup {NoProc})] /\ refused \in [Steps -> 0..2]
    BY DEF ConvergeInit
  <2>2. compiled \in -1..version /\ good \in Pins \cup {NoProc} /\ version \in Nat /\ round \in 1..MaxRounds + 1
    BY DEF ConvergeInit
  <2>5. steps \subseteq Steps /\ carried \subseteq Proc
    BY DEF ConvergeInit
  <2>3. runs \in 0..(IF RerecordRuns > 3 THEN RerecordRuns ELSE 3)
    BY DEF ConvergeInit
  <2>4. staged \in Pins /\ omitted \subseteq Lost /\ retired \subseteq Proc /\ gone \subseteq Proc
    BY <1>1 DEF ConvergeInit
  <2> QED BY <1>1, <1>2, <2>1, <2>2, <2>3, <2>4, <2>5 DEF ConvergeInit, ConvergeTypeOK
<1>4. \A s \in Steps : file[s] # NoProc => store[file[s]] # "absent"
  BY <1>1 DEF ConvergeInit, Imported, Pinned, Pins
<1>5. \A s \in Steps : was[s] = <<>>
  BY DEF ConvergeInit
<1>6. Progress /\ Checked
  BY DEF ConvergeInit, Progress, Checked, ConvergedMeans, Statuses
<1>7. Kindly /\ PinsHold /\ Swapped
  BY <1>2, <1>4 DEF ConvergeInit, Kindly, PinsHold, Swapped
<1>8. Bundled
  BY <1>5 DEF ConvergeInit, Bundled
<1> QED BY <1>3, <1>6, <1>7, <1>8, <1>9 DEF ConvergeInv

\* A re-record is made of a step, in a round, with a refusal to spare.
LEMMA RerecordStarts ==
  ASSUME ConvergeTypeOK, NEW s \in Steps, Rerecord(s)
  PROVE  /\ job' \in Steps \cup {NoProc} /\ runs' \in 0..(IF RerecordRuns > 3 THEN RerecordRuns ELSE 3)
         /\ status' \in Statuses \cup {NoProc}
         /\ \/ phase' = "done" /\ status' \in {"unavailable", "stuck-repin"}
            \/ phase' = "stage" /\ UNCHANGED status /\ job' \in Steps /\ refused[job'] < 2
  BY BoundsAssumption DEF Rerecord, RefusedTwice, Done, ConvergeTypeOK, Statuses

LEMMA DoneEnds ==
  ASSUME ConvergeTypeOK, NEW what \in Statuses, Done(what)
  PROVE  /\ job' \in Steps \cup {NoProc} /\ runs' \in 0..(IF RerecordRuns > 3 THEN RerecordRuns ELSE 3)
         /\ status' = what /\ phase' = "done"
  BY DEF Done, ConvergeTypeOK

\* What only moves the loop on leaves the procedures as they are.
LEMMA StoreKept ==
  ASSUME ConvergeInv, UNCHANGED <<flowGiven, file, steps, store, retired, staged, gone, was>>,
         phase' \notin {"run"}, phase \in {"compile", "reset", "check", "run"},
         phase = "run" => phase' = "exited"
  PROVE  Kindly' /\ PinsHold' /\ Swapped' /\ Bundled' /\ InFlow'
<1> USE DEF flowGiven
<1>1. Kindly'
  BY DEF ConvergeInv, Kindly, Demoted
<1>2. PinsHold'
  BY DEF ConvergeInv, PinsHold
<1>3. Swapped'
  BY DEF Swapped
<1>4. Bundled'
  BY DEF ConvergeInv, Bundled
<1>5. InFlow'
  BY DEF ConvergeInv, InFlow
<1> QED BY <1>1, <1>2, <1>3, <1>4, <1>5

\* What is asked of a spec that is checked does not change with what only moves
\* the loop on.
LEMMA CheckedSame ==
  ASSUME UNCHANGED <<flowGiven, recording>>
  PROVE  Missing' = Missing /\ Demotions' = Demotions /\ Recoverable' = Recoverable
  BY DEF flowGiven, recording, Missing, Demotions, OutOfUse, Recoverable

\* What is asked of it is what converged means.
LEMMA Whole ==
  ASSUME ConvergeTypeOK, InFlow, Missing = {}, Demotions = {}, Recoverable = {}
  PROVE  /\ \A s \in steps : file[s] # NoProc /\ (allowDemoted \/ ~OutOfUse(s))
         /\ omitted \cap placed \subseteq steps
<1>1. \A s \in steps : file[s] # NoProc
  BY DEF Missing
<1>2. \A s \in steps : allowDemoted \/ ~OutOfUse(s)
  BY <1>1 DEF Demotions
<1>3. omitted \cap placed \subseteq steps
  BY StepsAssumption DEF Recoverable, InFlow, ConvergeTypeOK
<1> QED BY <1>1, <1>2, <1>3

LEMMA CompileStep == ConvergeInv /\ (Compile \/ Exhausted) => ConvergeInv'
<1> SUFFICES ASSUME ConvergeInv, Compile \/ Exhausted PROVE ConvergeInv'
  OBVIOUS
<1> USE StepsAssumption, ProcAssumption, BoundsAssumption DEF flowGiven, recording, attempt, convergeHistory
<1>t. ConvergeTypeOK
  BY DEF ConvergeInv
<1>1. CASE Compile
  <2>1. \/ \E what \in {"stuck", "exhausted"} : Done(what)
        \/ ~Final /\ \E s \in Steps : Rerecord(s)
        \/ /\ Missing = {} /\ Demotions = {} /\ Recoverable = {}
           /\ phase' = "reset" /\ UNCHANGED <<status, job, runs>>
    BY <1>1 DEF Compile, Refusal, LeftOut
  <2>2. job' \in Steps \cup {NoProc} /\ runs' \in 0..(IF RerecordRuns > 3 THEN RerecordRuns ELSE 3) /\ status' \in Statuses \cup {NoProc}
    BY <2>1, <1>t, DoneEnds, RerecordStarts DEF ConvergeTypeOK, Statuses
  <2>3. \/ phase' = "done" /\ status' \in Statuses \ {"converged"}
        \/ phase' = "stage" /\ ~Final /\ UNCHANGED status /\ job' \in Steps /\ refused[job'] < 2
        \/ phase' = "reset" /\ Missing = {} /\ Demotions = {} /\ Recoverable = {} /\ UNCHANGED status
    BY <2>1, <1>t, DoneEnds, RerecordStarts DEF Statuses
  <2>4. compiled' = version /\ UNCHANGED <<flowGiven, recording, round, refused, lastOk, staged, retired, last, app, version, good, gone, was>> /\ phase = "compile"
    BY <1>1 DEF Compile
  <2>5. ConvergeTypeOK'
    BY <2>2, <2>3, <2>4, <1>t DEF ConvergeTypeOK, Pins, Stores
  <2>6. Progress'
    BY <2>3, <2>4, <1>t DEF ConvergeInv, Progress, Final, ConvergeTypeOK
  <2>9. status' # "converged"
    BY <2>3, <2>4, ProcAssumption DEF ConvergeInv, Progress, Statuses
  <2>7. Checked'
    BY <2>3, <2>4, <2>9, CheckedSame DEF Checked, ConvergedMeans
  <2>8. Kindly' /\ PinsHold' /\ Swapped' /\ Bundled' /\ InFlow'
    BY <2>3, <2>4, StoreKept
  <2> QED BY <2>5, <2>6, <2>7, <2>8 DEF ConvergeInv
<1>2. CASE Exhausted
  <2>1. phase = "compile" /\ phase' = "done" /\ status' = "exhausted" /\ UNCHANGED <<flowGiven, recording, round, refused, lastOk, attempt, app, convergeHistory>>
    BY <1>2 DEF Exhausted, Done
  <2>2. ConvergeTypeOK'
    BY <2>1, <1>t DEF ConvergeTypeOK, Pins, Stores, Statuses
  <2>3. round > 1 /\ ~lastOk
    BY <1>2, <1>t DEF Exhausted, Over, Final, ConvergeTypeOK
  <2>4. Progress' /\ Checked'
    BY <2>1, <2>3 DEF ConvergeInv, Progress, Checked, ConvergedMeans
  <2>5. Kindly' /\ PinsHold' /\ Swapped' /\ Bundled' /\ InFlow'
    BY <2>1, StoreKept
  <2> QED BY <2>2, <2>4, <2>5 DEF ConvergeInv
<1> QED BY <1>1, <1>2

LEMMA CheckStep == ConvergeInv /\ (Reset \/ Check \/ RunFails) => ConvergeInv'
<1> SUFFICES ASSUME ConvergeInv, Reset \/ Check \/ RunFails PROVE ConvergeInv'
  OBVIOUS
<1> USE StepsAssumption, ProcAssumption, BoundsAssumption DEF flowGiven, recording, attempt, convergeHistory
<1>t. ConvergeTypeOK
  BY DEF ConvergeInv
<1>1. CASE Reset \/ RunFails
  <2>1. /\ phase' \in {"check", "exited"} /\ UNCHANGED <<flowGiven, recording, round, status, refused, lastOk, attempt, convergeHistory>>
        /\ phase \in {"reset", "run"} /\ (phase = "run" => phase' = "exited")
        /\ app' \in {"clean", app} /\ (phase' = "check" /\ hasReset => app' = "clean")
    BY <1>1 DEF Reset, RunFails
  <2>2. ConvergeTypeOK'
    BY <2>1, <1>t DEF ConvergeTypeOK, Pins, Stores
  <2>3. status = NoProc
    BY <2>1 DEF ConvergeInv, Progress
  <2>6. Progress'
    BY <2>1, <2>3 DEF ConvergeInv, Progress
  <2>4. Progress' /\ Checked'
    BY <2>1, <2>3, <2>6, CheckedSame DEF ConvergeInv, Progress, Checked, ConvergedMeans, Statuses
  <2>5. Kindly' /\ PinsHold' /\ Swapped' /\ Bundled' /\ InFlow'
    BY <2>1, StoreKept
  <2> QED BY <2>2, <2>4, <2>5 DEF ConvergeInv
<1>2. CASE Check
  <2>1. /\ phase = "check" /\ app' = "used"
        /\ UNCHANGED <<flowGiven, recording, round, refused, lastOk, staged, retired, last, version, compiled, gone, was>>
    BY <1>2 DEF Check
  <2>2. compiled = version /\ Missing = {} /\ Demotions = {} /\ Recoverable = {} /\ (hasReset => app = "clean") /\ status = NoProc
    BY <2>1 DEF ConvergeInv, Progress, Checked
  <2>3. \/ \E what \in Statuses \ {"converged"} : Done(what)
        \/ Done("converged") /\ good' = file
        \/ ~Final /\ \E s \in Steps : Rerecord(s)
    BY <1>2, <2>2, <1>t DEF Check, NamesStep, CleanCheck, Statuses, ConvergeTypeOK
  <2>4. good' \in {good, file}
    BY <1>2 DEF Check
  <2>5. job' \in Steps \cup {NoProc} /\ runs' \in 0..(IF RerecordRuns > 3 THEN RerecordRuns ELSE 3) /\ status' \in Statuses \cup {NoProc}
    BY <2>3, <1>t, DoneEnds, RerecordStarts DEF Statuses
  <2>6. \/ phase' = "done" /\ status' \in Statuses \ {"converged"}
        \/ phase' = "done" /\ status' = "converged" /\ good' = file
        \/ phase' = "stage" /\ ~Final /\ UNCHANGED status /\ job' \in Steps /\ refused[job'] < 2
        \/ phase' = "done" /\ status' \in {"unavailable", "stuck-repin"}
    BY <2>3, <1>t, DoneEnds, RerecordStarts DEF Statuses
  <2>7. ConvergeTypeOK'
    BY <2>1, <2>4, <2>5, <2>6, <1>t DEF ConvergeTypeOK, Pins, Stores
  <2>8. Progress'
    BY <2>1, <2>2, <2>6, <1>t DEF Progress, Final, ConvergeTypeOK
  <2>9. Checked'
    <3>1. phase' \notin {"reset", "check"}
      BY <2>6
    <3>2. CASE status' = "converged"
      <4>1. good' = file' /\ compiled' = version'
        BY <2>1, <2>2, <2>6, <3>2, ProcAssumption DEF Statuses
      <4>2. (\A s \in steps : file[s] # NoProc /\ (allowDemoted \/ ~OutOfUse(s))) /\ omitted \cap placed \subseteq steps
        BY <1>t, <2>2, Whole DEF ConvergeInv
      <4>3. (\A s \in steps' : file'[s] # NoProc /\ (allowDemoted' \/ ~OutOfUse(s)')) /\ omitted' \cap placed' \subseteq steps'
        BY <2>1, <4>2 DEF OutOfUse
      <4> QED BY <3>1, <4>1, <4>3 DEF Checked, ConvergedMeans
    <3>3. CASE status' # "converged"
      BY <3>1, <3>3 DEF Checked, ConvergedMeans
    <3> QED BY <3>2, <3>3
  <2>10. Kindly' /\ PinsHold' /\ Swapped' /\ Bundled' /\ InFlow'
    BY <2>1, <2>6, StoreKept
  <2> QED BY <2>7, <2>8, <2>9, <2>10 DEF ConvergeInv
<1> QED BY <1>1, <1>2

\* While a step is re-recorded nothing is checked and nothing is settled.
LEMMA NotChecked ==
  ASSUME phase' \notin {"reset", "check"}, status' = NoProc
  PROVE  Checked'
  BY ProcAssumption DEF Checked, ConvergedMeans, Statuses

\* The step's procedure goes out of use, and with it nothing else.
LEMMA StageStep == ConvergeInv /\ Stage => ConvergeInv'
<1> SUFFICES ASSUME ConvergeInv, Stage PROVE ConvergeInv'
  OBVIOUS
<1> USE StepsAssumption, ProcAssumption DEF flowGiven, Retires
<1> DEFINE from == IF kind = "flow" THEN store ELSE Imported
           pins == [file EXCEPT ![job] = NoProc]
<1>1. /\ ConvergeTypeOK /\ phase = "stage" /\ job \in Steps /\ round <= MaxRounds /\ refused[job] < 2 /\ status = NoProc /\ compiled = version
  BY DEF ConvergeInv, Progress, Stage
<1>2. /\ staged' = pins /\ file' = IF kind = "flow" THEN pins ELSE file
      /\ retired' = {p \in Retires(job) : from[p] = "live"}
      /\ store' = [p \in Proc |-> IF p \in Retires(job) /\ from[p] = "live" THEN "demoted" ELSE from[p]]
      /\ was' = [was EXCEPT ![job] = Append(@, file[job])] /\ phase' = "run" /\ last' = "unreached"
      /\ steps' = IF kind = "flow" THEN steps \cup {job} ELSE steps
      /\ UNCHANGED <<flowGiven, omitted, carried, round, status, refused, lastOk, job, runs, app, version, compiled, good, gone>>
  BY DEF Stage
<1>3. from \in Stores /\ pins \in Pins /\ Retires(job) \subseteq Proc
  BY <1>1 DEF ConvergeTypeOK, Stores, Imported, Pins
<1>4. was[job] \in Seq(Proc \cup {NoProc}) /\ file[job] \in Proc \cup {NoProc}
  BY <1>1 DEF ConvergeTypeOK, Pins
<1>5. was'[job] = Append(was[job], file[job]) /\ \A s \in Steps \ {job} : was'[s] = was[s]
  BY <1>1, <1>2 DEF ConvergeTypeOK
<1>6. ConvergeTypeOK'
  <2>1. was' \in [Steps -> Seq(Proc \cup {NoProc})]
    BY <1>1, <1>2, <1>4 DEF ConvergeTypeOK
  <2>2. file' \in Pins /\ staged' \in Pins /\ store' \in Stores /\ retired' \subseteq Proc
    BY <1>1, <1>2, <1>3 DEF ConvergeTypeOK, Stores
  <2> QED BY <1>1, <1>2, <2>1, <2>2 DEF ConvergeTypeOK
<1>7. Progress' /\ Checked'
  <2>1. Progress'
    BY <1>1, <1>2 DEF Progress
  <2> QED BY <1>1, <1>2, <2>1, NotChecked
<1>8. Kindly'
  <2>1. kind = "flow" => Demoted = gone /\ from = store
    BY <1>1 DEF ConvergeInv, Kindly
  <2>2. kind = "flow" => Demoted' = gone' \cup retired' /\ retired' \cap gone' = {}
    BY <1>1, <1>2, <1>3, <2>1 DEF Demoted, ConvergeTypeOK, Stores
  <2> QED BY <1>2, <2>2 DEF Kindly
<1>9. PinsHold'
  BY <1>1, <1>2, <1>3 DEF ConvergeInv, PinsHold, ConvergeTypeOK, Pins, Stores
<1>10. Swapped'
  <2>1. staged'[job] = NoProc
    BY <1>1, <1>2 DEF ConvergeTypeOK, Pins
  <2>2. was'[job] # <<>> /\ Replaced(job)' = file[job]
    BY <1>2, <1>4, <1>5 DEF Replaced
  <2>3. CASE file[job] # NoProc
    <3>1. file[job] \in Proc /\ Retires(job) = {file[job]}
      BY <1>4, <2>3
    <3>2. from[file[job]] # "absent"
      BY <1>1, <2>3, <3>1 DEF ConvergeInv, PinsHold, Imported, Pinned
    <3>3. store'[file[job]] = "demoted"
      BY <1>2, <1>3, <3>1, <3>2 DEF Stores
    <3> QED BY <1>2, <2>1, <2>2, <3>3 DEF Swapped
  <2>4. CASE file[job] = NoProc
    BY <1>2, <2>1, <2>2, <2>4 DEF Swapped
  <2> QED BY <2>3, <2>4
<1>11. Bundled'
  <2>1. ASSUME kind = "bundle", NEW s \in Steps, NEW i \in DOMAIN was'[s] PROVE was'[s][i] = file'[s]
    <3>1. file' = file /\ \A k \in DOMAIN was[s] : was[s][k] = file[s]
      BY <1>2, <2>1 DEF ConvergeInv, Bundled
    <3>2. CASE s = job
      BY <1>4, <1>5, <2>1, <3>1, <3>2
    <3>3. CASE s # job
      BY <1>5, <2>1, <3>1, <3>3
    <3> QED BY <3>2, <3>3
  <2>2. kind = "bundle" => \A s \in Steps \ {job} : staged'[s] = file'[s]
    BY <1>1, <1>2 DEF ConvergeTypeOK, Pins
  <2> QED BY <1>2, <2>1, <2>2 DEF Bundled
<1>12. InFlow'
  BY <1>1, <1>2 DEF ConvergeInv, InFlow, ConvergeTypeOK, Pins
<1> QED BY <1>6, <1>7, <1>8, <1>9, <1>10, <1>11, <1>12 DEF ConvergeInv

\* A run pins the step to what is in use or new.
LEMMA RunStep == ConvergeInv /\ RunStaged => ConvergeInv'
<1> SUFFICES ASSUME ConvergeInv, RunStaged PROVE ConvergeInv'
  OBVIOUS
<1> USE StepsAssumption, ProcAssumption DEF flowGiven
<1>1. /\ ConvergeTypeOK /\ phase = "run" /\ job \in Steps /\ round <= MaxRounds /\ refused[job] < 2 /\ status = NoProc /\ compiled = version
      /\ runs > 0
  BY DEF ConvergeInv, Progress, RunStaged
<1>2. /\ runs' = runs - 1 /\ app' = "used" /\ file' = IF kind = "flow" THEN staged' ELSE file
      /\ last' \in {"unreached", "failed", "model", "tierA"}
      /\ UNCHANGED <<flowGiven, steps, omitted, carried, phase, round, status, refused, lastOk, job, retired, version, compiled, good, gone, was>>
  BY DEF RunStaged, convergeHistory
<1>3. \/ UNCHANGED <<staged, store>>
      \/ \E p \in Proc : store[p] # "demoted" /\ staged' = [staged EXCEPT ![job] = p] /\ store' = [store EXCEPT ![p] = "live"]
  BY DEF RunStaged, Repins
<1>4. /\ staged' \in Pins /\ store' \in Stores /\ Demoted' = Demoted
      /\ (staged[job] # NoProc => store[staged[job]] = "live") => (staged'[job] # NoProc => store'[staged'[job]] = "live")
      /\ \A p \in Proc : /\ store[p] = "demoted" => store'[p] = "demoted"
                         /\ store[p] # "absent" => store'[p] # "absent"
      /\ \A s \in Steps : s # job => staged'[s] = staged[s]
  BY <1>1, <1>3 DEF ConvergeTypeOK, Pins, Stores, Demoted
<1>5. staged[job] # NoProc => store[staged[job]] = "live"
  BY <1>1 DEF ConvergeInv, Swapped
<1>6. ConvergeTypeOK'
  <2>1. runs' \in 0..(IF RerecordRuns > 3 THEN RerecordRuns ELSE 3)
    BY <1>1, <1>2, BoundsAssumption DEF ConvergeTypeOK
  <2>2. file' \in Pins
    BY <1>1, <1>2, <1>4 DEF ConvergeTypeOK
  <2> QED BY <1>1, <1>2, <1>4, <2>1, <2>2 DEF ConvergeTypeOK
<1>7. Progress' /\ Checked'
  <2>1. Progress'
    BY <1>1, <1>2 DEF Progress
  <2> QED BY <1>1, <1>2, <2>1, NotChecked
<1>8. Kindly'
  BY <1>1, <1>2, <1>4 DEF ConvergeInv, Kindly
<1>9. PinsHold'
  <2>1. ASSUME kind = "flow", NEW s \in Steps, file'[s] # NoProc PROVE store'[file'[s]] # "absent"
    <3>1. file' = staged' /\ staged = file
      BY <1>1, <1>2, <2>1 DEF ConvergeInv, PinsHold
    <3>2. CASE s = job
      BY <1>4, <1>5, <2>1, <3>1, <3>2
    <3>3. CASE s # job
      <4>1. file'[s] = file[s] /\ file[s] \in Proc
        BY <1>1, <1>4, <2>1, <3>1, <3>3 DEF ConvergeTypeOK, Pins
      <4>2. store[file[s]] # "absent"
        BY <2>1, <4>1 DEF ConvergeInv, PinsHold
      <4> QED BY <1>4, <4>1, <4>2
    <3> QED BY <3>2, <3>3
  <2> QED BY <1>2, <2>1 DEF PinsHold
<1>10. Swapped'
  <2>1. was[job] # <<>> /\ (Replaced(job) # NoProc => store[Replaced(job)] = "demoted") /\ was[job] \in Seq(Proc \cup {NoProc})
    BY <1>1 DEF ConvergeInv, Swapped, ConvergeTypeOK
  <2>2. Replaced(job) \in Proc \cup {NoProc}
    BY <2>1 DEF Replaced
  <2>3. Replaced(job)' = Replaced(job)
    BY <1>2 DEF Replaced
  <2> QED BY <1>2, <1>4, <1>5, <2>1, <2>2, <2>3 DEF Swapped
<1>11. Bundled'
  BY <1>1, <1>2, <1>4 DEF ConvergeInv, Bundled
<1>12. InFlow'
  <2>1. \A s \in Steps \ {job} : staged'[s] # NoProc => s \in steps
    BY <1>1, <1>4 DEF ConvergeInv, InFlow
  <2>2. kind = "flow" => job \in steps
    BY <1>1 DEF ConvergeInv, InFlow
  <2>3. \A s \in Steps : file'[s] # NoProc => s \in steps
    BY <1>2, <2>1, <2>2 DEF ConvergeInv, InFlow
  <2> QED BY <1>2, <2>1, <2>2, <2>3 DEF InFlow
<1> QED BY <1>6, <1>7, <1>8, <1>9, <1>10, <1>11, <1>12 DEF ConvergeInv

\* The attempt is kept, or what it put out of use is put back.
LEMMA JudgeStep == ConvergeInv /\ Judge => ConvergeInv'
<1> SUFFICES ASSUME ConvergeInv, Judge PROVE ConvergeInv'
  OBVIOUS
<1> USE StepsAssumption, ProcAssumption, BoundsAssumption DEF flowGiven
<1>1. /\ ConvergeTypeOK /\ phase = "run" /\ job \in Steps /\ round <= MaxRounds /\ refused[job] < 2 /\ status = NoProc /\ compiled = version
  BY DEF ConvergeInv, Progress, Judge
<1>2. /\ retired' = {} /\ job' = NoProc /\ phase' = "compile" /\ round' = round + 1 /\ lastOk' = RerecordVerdict
      /\ UNCHANGED <<flowGiven, status, runs, staged, last, app, compiled, good>>
  BY DEF Judge
<1>3. kind = "flow" => Demoted = gone \cup retired /\ retired \cap gone = {} /\ staged = file
  BY <1>1 DEF ConvergeInv, Kindly, PinsHold
<1>4. RerecordVerdict \in BOOLEAN
  BY DEF RerecordVerdict
<1>5. CASE RerecordVerdict
  <2>1. /\ file' = staged /\ steps' = steps \cup {job} /\ carried' \subseteq Proc
        /\ omitted' = omitted \ {job} /\ version' = version + 1 /\ gone' = gone \cup retired
        /\ was' = [was EXCEPT ![job] = <<>>] /\ UNCHANGED <<store, refused>>
    <3>1. staged \in Pins
      BY <1>1 DEF ConvergeTypeOK
    <3>2. Pinned(staged) \subseteq Proc
      BY <3>1 DEF Pinned, Pins
    <3> QED BY <1>5, <3>2 DEF Judge, PinsKept
  <2>2. ConvergeTypeOK'
    BY <1>1, <1>2, <1>4, <2>1 DEF ConvergeTypeOK, Pins
  <2>3. Progress' /\ Checked'
    <3>1. Progress'
      BY <1>1, <1>2, <1>5, <2>1, ProcAssumption DEF Progress
    <3> QED BY <1>1, <1>2, <3>1, NotChecked
  <2>4. Kindly' /\ PinsHold' /\ Swapped'
    BY <1>2, <1>3, <2>1 DEF ConvergeInv, Kindly, Demoted, PinsHold, Swapped
  <2>5. Bundled'
    <3>1. ASSUME kind = "bundle", NEW s \in Steps, NEW i \in DOMAIN was'[s] PROVE was'[s][i] = file'[s]
      <4>1. s # job
        BY <1>1, <2>1, <3>1 DEF ConvergeTypeOK
      <4>2. was'[s] = was[s] /\ file'[s] = file[s]
        BY <1>1, <2>1, <3>1, <4>1 DEF ConvergeInv, Bundled, ConvergeTypeOK
      <4> QED BY <3>1, <4>2 DEF ConvergeInv, Bundled
    <3> QED BY <1>2, <3>1 DEF Bundled
  <2>6. InFlow'
    BY <1>1, <1>2, <2>1 DEF ConvergeInv, InFlow
  <2> QED BY <2>2, <2>3, <2>4, <2>5, <2>6 DEF ConvergeInv
<1>6. CASE ~RerecordVerdict
  <2>1. /\ store' = [p \in Proc |-> IF p \in retired THEN "live" ELSE store[p]]
        /\ refused' = [refused EXCEPT ![job] = @ + 1] /\ UNCHANGED <<file, steps, omitted, carried, version, gone, was>>
    BY <1>6 DEF Judge, GivenUp, Restored
  <2>2. ConvergeTypeOK'
    BY <1>1, <1>2, <1>4, <2>1 DEF ConvergeTypeOK, Pins, Stores
  <2>3. Progress' /\ Checked'
    <3>1. Progress'
      BY <1>1, <1>2, <2>1 DEF Progress
    <3> QED BY <1>1, <1>2, <3>1, NotChecked
  <2>4. Kindly'
    BY <1>1, <1>2, <1>3, <2>1 DEF Kindly, Demoted, ConvergeTypeOK
  <2>5. PinsHold' /\ Swapped' /\ Bundled'
    BY <1>1, <1>2, <2>1 DEF ConvergeInv, PinsHold, Swapped, Bundled, ConvergeTypeOK, Pins, Stores
  <2>6. InFlow'
    BY <1>1, <1>2, <2>1 DEF ConvergeInv, InFlow
  <2> QED BY <2>2, <2>3, <2>4, <2>5, <2>6 DEF ConvergeInv
<1> QED BY <1>5, <1>6

LEMMA ConvergeStep == ConvergeInv /\ [ConvergeNext]_convergeVars => ConvergeInv'
<1>1. ConvergeInv /\ UNCHANGED convergeVars => ConvergeInv'
  BY DEF convergeVars, flowGiven, recording, attempt, convergeHistory, ConvergeInv, ConvergeTypeOK, Progress, Checked, ConvergedMeans, Missing, Demotions, OutOfUse, Recoverable, Kindly, Demoted, PinsHold, Swapped, Replaced, Bundled, InFlow
<1> QED BY <1>1, CompileStep, CheckStep, StageStep, RunStep, JudgeStep DEF ConvergeNext

LEMMA ConvergeInvariant == ConvergeSpec => []ConvergeInv
  BY InitInv, ConvergeStep, PTL DEF ConvergeSpec

\* The loop never ends on a recording it did not compile, and every state has
\* its type.
THEOREM EndsOnCompiled == ConvergeSpec => []ConvergeOK
<1>1. ConvergeInv => ConvergeOK
  BY DEF ConvergeInv, Progress, ConvergeOK, LastIsCompiled
<1> QED BY ConvergeInvariant, <1>1, PTL

\* What is called converged was seen to pass with the pins it has, a procedure
\* for every step and, among the steps, all that was left out and could be
\* placed, however many rounds it took.
THEOREM ConvergedIsSeen == ConvergeSpec => []ConvergedMeans
<1>1. ConvergeInv => ConvergedMeans
  BY DEF ConvergeInv, Checked
<1> QED BY ConvergeInvariant, <1>1, PTL

\* Attempts that fail leave the user's store as they found it.
THEOREM StoreIsAsItWas == ConvergeSpec => []StoreAsItWas
<1>1. ConvergeInv => StoreAsItWas
  BY DEF ConvergeInv, Kindly, Demoted, StoreAsItWas
<1> QED BY ConvergeInvariant, <1>1, PTL

\* A step that is kept has another procedure than the one to be replaced.
THEOREM KeptIsNew == ConvergeSpec => NewProcedure
<1>1. ConvergeInv /\ [ConvergeNext]_convergeVars =>
        [version' # version =>
            \A i \in DOMAIN was[job] : (i = Len(was[job]) \/ kind = "bundle") => staged[job] # was[job][i]]_convergeVars
  <2> SUFFICES ASSUME ConvergeInv, ConvergeNext, version' # version,
                      NEW i \in DOMAIN was[job], i = Len(was[job]) \/ kind = "bundle"
               PROVE  staged[job] # was[job][i]
    BY DEF convergeVars, convergeHistory
  <2>1. Judge /\ RerecordVerdict
    BY DEF ConvergeNext, Compile, Exhausted, Reset, Check, Stage, RunStaged, RunFails, Judge, GivenUp, convergeHistory
  <2>2. phase = "run" /\ job \in Steps /\ ConvergeTypeOK /\ staged[job] # NoProc
    BY <2>1 DEF ConvergeInv, Progress, Judge, RerecordVerdict
  <2>3. store[staged[job]] = "live" /\ was[job] # <<>> /\ (Replaced(job) # NoProc => store[Replaced(job)] = "demoted")
    BY <2>2 DEF ConvergeInv, Swapped
  <2>4. was[job][i] = Replaced(job)
    <3>1. CASE i = Len(was[job])
      BY <3>1 DEF Replaced
    <3>2. CASE kind = "bundle"
      <4>1. was[job] \in Seq(Proc \cup {NoProc}) /\ Len(was[job]) \in DOMAIN was[job]
        BY <2>2, <2>3 DEF ConvergeTypeOK
      <4> QED BY <2>2, <3>2, <4>1 DEF ConvergeInv, Bundled, Replaced
    <3> QED BY <3>1, <3>2
  <2> QED BY <2>2, <2>3, <2>4
<1> QED BY ConvergeInvariant, <1>1, PTL DEF ConvergeSpec, NewProcedure
=============================================================================
