----------------------------- MODULE ListProofs -----------------------------
(***************************************************************************)
(* The rings of simpleOSD_list.h are the lists of Lists, stay consistent,  *)
(* and a loop that deletes stays on its list, for any number of lists and  *)
(* entries.                                                                *)
(*                                                                         *)
(* Pointers that agree do not yet make lists: a ring could hold two heads  *)
(* or none.  The inductive invariant says that there are sequences q, one  *)
(* for each head, whose entries are what the pointers run through, and a   *)
(* loop is at a place of one of them.  Each operation does to q what its   *)
(* name says.  Walk, a recursion along the pointers, is shown to find q.   *)
(***************************************************************************)
EXTENDS ListHead, FiniteSetTheorems, SequenceTheorems, TLAPS

(* __list_add of a node between p and its successor. *)
LEMMA InsertKeepsRings ==
  ASSUME RingsConsistent, NEW x \in Entries, ~Linked(x),
         NEW p \in Nodes, next[p] # NULL, p # x,
         Insert(x, p, next[p])
  PROVE  RingsConsistent'
BY ListAssumption, SMTT(60) DEF RingsConsistent, Insert, Linked, Nodes, Pointers, list_empty

(* __list_del, of an entry in a ring or alone. *)
LEMMA UnlinkKeepsRings ==
  ASSUME RingsConsistent, NEW x \in Entries, next[x] # NULL,
         NEW own \in {NULL, x}, Unlink(x, own)
  PROVE  RingsConsistent'
BY ListAssumption, SMTT(60) DEF RingsConsistent, Unlink, Nodes, Pointers

(* list_splice_init. *)
LEMMA SpliceKeepsRings ==
  ASSUME RingsConsistent, NEW l \in Heads, NEW h \in Heads, list_splice_init(l, h)
  PROVE  RingsConsistent'
BY ListAssumption, SMTT(60) DEF RingsConsistent, list_splice_init, Nodes, Pointers, list_empty

-----------------------------------------------------------------------------
(* The rings as sequences: induction and recursion over an interval first. *)

(* Induction: a set that has 0 and the successors of its elements. *)
LEMMA Induction ==
  ASSUME NEW m \in Nat, NEW S, 0 \in S,
         \A k \in 1 .. m : k - 1 \in S => k \in S
  PROVE  0 .. m \subseteq S
<1> DEFINE T == (0 .. m) \ S
<1> SUFFICES ASSUME T # {} PROVE FALSE
  OBVIOUS
<1>1. T \subseteq Nat
  OBVIOUS
<1>2. PICK x \in T : \A y \in T : ~(<<y, x>> \in OpToRel(<, Nat))
  <2> HIDE DEF T
  <2> QED BY <1>1, NatLessThanWellFounded, WFMin, Zenon
<1>3. ASSUME NEW y \in T PROVE <<y, x>> \in OpToRel(<, Nat) <=> y < x
  BY DEF OpToRel
<1>4. \A y \in T : ~(y < x)
  BY <1>2, <1>3, Zenon
<1>5. x \in 1 .. m /\ x - 1 \in 0 .. m /\ x - 1 < x
  OBVIOUS
<1>6. x - 1 \in S
  BY <1>4, <1>5
<1> QED BY <1>5, <1>6

(* The walk from x along f: what the recursion in Walk defines. *)
LEMMA Iterates ==
  ASSUME NEW m \in Nat, NEW x \in Pointers, NEW f \in [Pointers -> Pointers]
  PROVE  \E g \in [0 .. m -> Pointers] : g[0] = x /\ \A k \in 1 .. m : g[k] = f[g[k - 1]]
<1> DEFINE Good(i, g) == g[0] = x /\ \A k \in 1 .. i : g[k] = f[g[k - 1]]
           S == {i \in 0 .. m : \E g \in [0 .. i -> Pointers] : Good(i, g)}
<1>1. 0 \in S
  <2> DEFINE g == [k \in 0 .. 0 |-> x]
  <2>1. g \in [0 .. 0 -> Pointers] /\ Good(0, g)
    OBVIOUS
  <2>2. 0 \in 0 .. m
    OBVIOUS
  <2> QED BY <2>1, <2>2, Zenon
<1>2. ASSUME NEW i \in 1 .. m, i - 1 \in S PROVE i \in S
  <2>1. PICK g \in [0 .. i - 1 -> Pointers] : Good(i - 1, g)
    BY <1>2
  <2> DEFINE e == [k \in 0 .. i |-> IF k = i THEN f[g[i - 1]] ELSE g[k]]
  <2>2. f[g[i - 1]] \in Pointers
    BY <2>1
  <2>3. e \in [0 .. i -> Pointers]
    BY <2>1, <2>2
  <2>4. e[0] = x
    BY <2>1
  <2>5. ASSUME NEW k \in 1 .. i PROVE e[k] = f[e[k - 1]]
    <3>1. CASE k = i
      BY <3>1
    <3>2. CASE k # i
      <4>1. k \in 1 .. i - 1 /\ k \in 0 .. i /\ k - 1 \in 0 .. i /\ k - 1 # i
        BY <3>2
      <4> QED BY <2>1, <4>1, <3>2
    <3> QED BY <3>1, <3>2
  <2>6. i \in 0 .. m
    OBVIOUS
  <2> HIDE DEF e
  <2> QED BY <2>3, <2>4, <2>5, <2>6, Zenon
<1>3. 0 .. m \subseteq S
  <2> HIDE DEF S
  <2> QED BY <1>1, <1>2, Induction
<1>4. m \in S
  <2>1. m \in 0 .. m
    OBVIOUS
  <2> QED BY <1>3, <2>1, Zenon
<1> QED BY <1>4, Zenon

(* The node at place k of the ring of head h that holds the entries of s:  *)
(* the head is at place 0 and again behind the last entry.                 *)
Spot(s, h, k) == IF k \in 1 .. Len(s) THEN s[k] ELSE h

(***************************************************************************)
(* The pointers nx are those of lists q: along each ring the entries of    *)
(* its list in order, no entry twice, and an entry on no list has NULL or  *)
(* itself as its successor.                                                *)
(***************************************************************************)
Chain(nx, q) ==
  /\ nx \in [Pointers -> Pointers]
  /\ q \in [Heads -> Seq(Entries)]
  /\ \A h \in Heads : \A k \in 0 .. Len(q[h]) : nx[Spot(q[h], h, k)] = Spot(q[h], h, k + 1)
  /\ \A g, h \in Heads : \A i \in 1 .. Len(q[g]), j \in 1 .. Len(q[h]) :
       q[g][i] = q[h][j] => g = h /\ i = j
  /\ \A e \in Entries : nx[e] \in {NULL, e} \/ \E h \in Heads : \E i \in 1 .. Len(q[h]) : q[h][i] = e

(* A list and its places. *)
LEMMA ListFacts ==
  ASSUME NEW nx, NEW q, Chain(nx, q), NEW h \in Heads
  PROVE  /\ Len(q[h]) \in Nat /\ q[h] \in [1 .. Len(q[h]) -> Entries] /\ q[h] \in Seq(Entries)
         /\ \A k \in Int : Spot(q[h], h, k) \in Nodes
<1>1. q[h] \in Seq(Entries)
  BY DEF Chain
<1>2. Len(q[h]) \in Nat /\ q[h] \in [1 .. Len(q[h]) -> Entries]
  BY <1>1, LenProperties
<1> QED BY <1>1, <1>2 DEF Spot, Nodes

(* No list is longer than there are nodes. *)
LEMMA ShortLists ==
  ASSUME NEW nx, NEW q, Chain(nx, q), NEW h \in Heads
  PROVE  Cardinality(Nodes) \in Nat /\ Len(q[h]) <= Cardinality(Nodes)
<1> DEFINE m == Len(q[h])
<1>1. m \in Nat /\ q[h] \in [1 .. m -> Entries]
  BY ListFacts
<1>2. q[h] \in [1 .. m -> Nodes]
  BY <1>1 DEF Nodes
<1>3. \A i, j \in 1 .. m : q[h][i] = q[h][j] => i = j
  BY DEF Chain
<1>4. q[h] \in Injection(1 .. m, Nodes)
  <2> HIDE DEF m
  <2> QED BY <1>2, <1>3 DEF Injection, IsInjective
<1>5. IsFiniteSet(Nodes)
  BY ListAssumption
<1>6. Cardinality(1 .. m) <= Cardinality(Nodes)
  BY <1>4, <1>5, FS_Injection
<1>7. Cardinality(1 .. m) = m
  <2> HIDE DEF m
  <2>1. 1 \in Int /\ m \in Int
    BY <1>1
  <2>2. Cardinality(1 .. m) = IF 1 > m THEN 0 ELSE m - 1 + 1
    BY <2>1, FS_Interval
  <2> QED BY <1>1, <2>2
<1>8. Cardinality(Nodes) \in Nat
  BY <1>5, FS_CardinalityType
<1> QED BY <1>6, <1>7, <1>8

(***************************************************************************)
(* A walk from place k of a ring meets the entries from there to the end.  *)
(***************************************************************************)
LEMMA WalkIs ==
  ASSUME NEW nx, NEW q, Chain(nx, q), NEW h \in Heads, NEW k \in 1 .. Len(q[h]) + 1
  PROVE  Walk(nx, Spot(q[h], h, k), h) = [j \in 1 .. Len(q[h]) + 1 - k |-> q[h][k - 1 + j]]
<1> DEFINE s == q[h]
           x == Spot(s, h, k)
           c == Cardinality(Nodes)
           d == Len(s) + 1 - k
           Sol(g) == g = [i \in 0 .. c |-> IF i = 0 THEN x ELSE nx[g[i - 1]]]
           f == CHOOSE g : Sol(g)
           ends == {i \in DOMAIN f : f[i] = h}
           length == IF ends = {} THEN c ELSE CHOOSE i \in ends : \A l \in ends : i <= l
           S == {i \in 0 .. d : f[i] = Spot(s, h, k + i)}
<1>1. /\ c \in Nat /\ Len(s) \in Nat /\ Len(s) <= c
      /\ s \in [1 .. Len(s) -> Entries] /\ k \in Nat /\ k >= 1 /\ k <= Len(s) + 1
  BY ListFacts, ShortLists
<1>2. d \in Nat /\ d <= c
  BY <1>1
<1>3. Walk(nx, x, h) = [j \in 1 .. length |-> f[j - 1]]
  BY Zenon DEF Walk
<1>4. Sol(f)
  <2>1. x \in Pointers /\ nx \in [Pointers -> Pointers]
    <3>1. k \in Int
      BY <1>1
    <3>2. x \in Nodes
      BY <3>1, ListFacts
    <3> QED BY <3>2 DEF Chain, Pointers
  <2>2. \E g : Sol(g)
    <3>1. c \in Nat
      BY <1>1
    <3> HIDE DEF x, c
    <3>2. PICK g \in [0 .. c -> Pointers] : g[0] = x /\ \A i \in 1 .. c : g[i] = nx[g[i - 1]]
      BY <2>1, <3>1, Iterates, Zenon
    <3>3. g = [i \in 0 .. c |-> IF i = 0 THEN x ELSE nx[g[i - 1]]]
      BY <3>1, <3>2
    <3> QED BY <3>3, Zenon
  <2> HIDE DEF Sol
  <2> QED BY <2>2, Zenon
<1> HIDE DEF f
<1>5. DOMAIN f = 0 .. c /\ f[0] = x /\ \A i \in 1 .. c : f[i] = nx[f[i - 1]]
  BY <1>1, <1>4
<1>6. 0 .. d \subseteq S
  <2>1. 0 \in S
    BY <1>1, <1>2, <1>5
  <2>2. ASSUME NEW i \in 1 .. d, i - 1 \in S PROVE i \in S
    <3>1. f[i] = nx[f[i - 1]] /\ f[i - 1] = Spot(s, h, k + (i - 1))
      BY <1>1, <1>2, <1>5, <2>2
    <3>2. k + (i - 1) \in 0 .. Len(s) /\ k + (i - 1) + 1 = k + i
      BY <1>1, <1>2
    <3>3. nx[Spot(s, h, k + (i - 1))] = Spot(s, h, k + (i - 1) + 1)
      BY <3>2 DEF Chain
    <3>4. f[i] = Spot(s, h, k + i)
      BY <3>1, <3>2, <3>3
    <3>5. i \in 0 .. d
      BY <1>2
    <3> QED BY <3>4, <3>5
  <2> HIDE DEF S, d
  <2> QED BY <1>2, <2>1, <2>2, Induction
<1>7. ASSUME NEW i \in 0 .. d PROVE f[i] = Spot(s, h, k + i)
  BY <1>6
<1>8. ASSUME NEW i \in 0 .. d - 1 PROVE f[i] = s[k + i] /\ f[i] # h
  <2>1. k + i \in 1 .. Len(s) /\ i \in 0 .. d
    BY <1>1, <1>2
  <2>2. f[i] = s[k + i]
    BY <1>7, <2>1 DEF Spot
  <2>3. s[k + i] \in Entries
    BY <1>1, <2>1
  <2> QED BY <2>2, <2>3, ListAssumption
<1>9. f[d] = h /\ d \in ends
  <2>1. f[d] = Spot(s, h, k + d) /\ k + d = Len(s) + 1
    BY <1>1, <1>2, <1>7
  <2>2. Spot(s, h, Len(s) + 1) = h
    BY <1>1 DEF Spot
  <2>3. d \in 0 .. c
    BY <1>1, <1>2
  <2> QED BY <1>5, <2>1, <2>2, <2>3
<1>10. \A l \in ends : d <= l
  <2> SUFFICES ASSUME NEW l \in ends, ~(d <= l) PROVE FALSE
    OBVIOUS
  <2>1. l \in 0 .. d - 1 /\ f[l] = h
    BY <1>1, <1>2, <1>5
  <2> QED BY <1>8, <2>1
<1>11. length = d
  <2>1. ends \subseteq Nat
    BY <1>1, <1>5
  <2> HIDE DEF ends, d
  <2>2. \A i \in ends : (\A l \in ends : i <= l) => i = d
    BY <1>9, <1>10, <2>1, <1>2
  <2> QED BY <1>9, <1>10, <2>2
<1>12. [j \in 1 .. d |-> f[j - 1]] = [j \in 1 .. d |-> s[k - 1 + j]]
  <2>1. ASSUME NEW j \in 1 .. d PROVE f[j - 1] = s[k - 1 + j]
    <3>1. j - 1 \in 0 .. d - 1 /\ k + (j - 1) = k - 1 + j
      BY <1>1, <1>2
    <3> QED BY <1>8, <3>1
  <2> HIDE DEF s, d
  <2> QED BY <2>1
<1> QED BY <1>3, <1>11, <1>12

(* An entry on a list is linked. *)
LEMMA ListedIsLinked ==
  ASSUME NEW nx, NEW q, Chain(nx, q), NEW h \in Heads, NEW i \in 1 .. Len(q[h])
  PROVE  q[h][i] \in Entries /\ nx[q[h][i]] = Spot(q[h], h, i + 1) /\ nx[q[h][i]] \notin {NULL, q[h][i]}
<1>1. Len(q[h]) \in Nat /\ q[h] \in [1 .. Len(q[h]) -> Entries]
  BY ListFacts
<1>2. i \in 0 .. Len(q[h]) /\ Spot(q[h], h, i) = q[h][i]
  BY <1>1 DEF Spot
<1>3. nx[q[h][i]] = Spot(q[h], h, i + 1)
  BY <1>2 DEF Chain
<1>4. q[h][i] \in Entries
  BY <1>1
<1>5. CASE i + 1 \in 1 .. Len(q[h])
  <2>1. Spot(q[h], h, i + 1) = q[h][i + 1] /\ q[h][i + 1] \in Entries
    BY <1>1, <1>5 DEF Spot
  <2>2. q[h][i + 1] # q[h][i]
    <3>1. i + 1 # i
      BY <1>1
    <3> QED BY <1>5, <3>1 DEF Chain
  <2> QED BY <1>3, <1>4, <2>1, <2>2, ListAssumption DEF Nodes
<1>6. CASE i + 1 \notin 1 .. Len(q[h])
  BY <1>3, <1>4, <1>6, ListAssumption DEF Spot, Nodes
<1> QED BY <1>5, <1>6

(* List s with e in front of place p + 1. *)
Put(s, p, e) ==
  [j \in 1 .. Len(s) + 1 |-> IF j <= p THEN s[j] ELSE IF j = p + 1 THEN e ELSE s[j - 1]]

(* A function on 1 .. m is a sequence of that length. *)
LEMMA FunctionIsSeq ==
  ASSUME NEW m \in Nat, NEW S, NEW f \in [1 .. m -> S]
  PROVE  f \in Seq(S) /\ Len(f) = m
<1>1. f \in Seq(S)
  BY SeqDef
<1>2. DOMAIN f = 1 .. Len(f) /\ Len(f) \in Nat
  BY <1>1, LenProperties
<1> QED BY <1>1, <1>2

(***************************************************************************)
(* __list_add between two places of a ring puts the entry there.           *)
(***************************************************************************)
LEMMA InsertChain ==
  ASSUME NEW nx, NEW q, Chain(nx, q), NEW h \in Heads, NEW p \in 0 .. Len(q[h]),
         NEW e \in Entries, nx[e] \in {NULL, e}, NEW nx1,
         nx1 = [nx EXCEPT ![e] = Spot(q[h], h, p + 1), ![Spot(q[h], h, p)] = e]
  PROVE  Chain(nx1, [q EXCEPT ![h] = Put(q[h], p, e)])
<1> DEFINE s == q[h]
           s1 == Put(s, p, e)
           q1 == [q EXCEPT ![h] = s1]
           a == Spot(s, h, p)
           b == Spot(s, h, p + 1)
<1>1. /\ Len(s) \in Nat /\ s \in [1 .. Len(s) -> Entries]
      /\ p \in Nat /\ p <= Len(s) /\ p + 1 \in Int
      /\ a \in Nodes /\ b \in Nodes
  BY ListFacts
<1>2. ASSUME NEW g \in Heads, NEW i \in 1 .. Len(q[g]) PROVE q[g][i] # e /\ q[g][i] \in Entries
  BY ListedIsLinked
<1>3. e \notin Heads /\ e # NULL /\ e \in Pointers
  BY ListAssumption DEF Nodes, Pointers
<1>4. a # e
  BY <1>1, <1>2, <1>3 DEF Spot
<1>5. /\ nx \in [Pointers -> Pointers] /\ nx1 \in [Pointers -> Pointers]
      /\ nx1[e] = b /\ nx1[a] = e
      /\ \A y \in Pointers : y # e /\ y # a => nx1[y] = nx[y]
  BY <1>1, <1>3, <1>4 DEF Chain, Pointers, Nodes
<1>6. s1 \in [1 .. Len(s) + 1 -> Entries]
  BY <1>1 DEF Put
<1>7. s1 \in Seq(Entries) /\ Len(s1) = Len(s) + 1
  <2>1. Len(s) + 1 \in Nat
    BY <1>1
  <2> HIDE DEF s1
  <2> QED BY <1>6, <2>1, FunctionIsSeq
<1>8. q1 \in [Heads -> Seq(Entries)] /\ q1[h] = s1 /\ \A g \in Heads \ {h} : q1[g] = q[g]
  BY <1>7 DEF Chain
<1>9. ASSUME NEW k \in 0 .. Len(s1) PROVE nx1[Spot(s1, h, k)] = Spot(s1, h, k + 1)
  <2>1. CASE k < p
    <3>1. Spot(s1, h, k) = Spot(s, h, k) /\ Spot(s1, h, k + 1) = Spot(s, h, k + 1)
      BY <1>1, <1>7, <2>1 DEF Spot, Put
    <3>2. nx[Spot(s, h, k)] = Spot(s, h, k + 1)
      BY <1>1, <2>1 DEF Chain
    <3>3. Spot(s, h, k) # a
      <4>1. CASE k = 0
        BY <1>1, <2>1, <4>1, ListAssumption DEF Spot
      <4>2. CASE k # 0
        <5>1. k \in 1 .. Len(s) /\ p \in 1 .. Len(s) /\ k # p
          BY <1>1, <2>1, <4>2
        <5>2. s[k] # s[p]
          BY <5>1 DEF Chain
        <5> QED BY <5>1, <5>2 DEF Spot
      <4> QED BY <4>1, <4>2
    <3>4. Spot(s, h, k) # e /\ Spot(s, h, k) \in Pointers
      BY <1>1, <1>2, <1>3 DEF Spot, Nodes, Pointers
    <3> QED BY <1>5, <3>1, <3>2, <3>3, <3>4
  <2>2. CASE k = p
    BY <1>1, <1>5, <1>7, <2>2 DEF Spot, Put
  <2>3. CASE k = p + 1
    <3>1. Spot(s1, h, k) = e
      BY <1>1, <1>7, <2>3 DEF Spot, Put
    <3>2. Spot(s1, h, k + 1) = b
      BY <1>1, <1>7, <2>3 DEF Spot, Put
    <3> QED BY <1>5, <3>1, <3>2
  <2>4. CASE k > p + 1
    <3>1. k - 1 \in 1 .. Len(s) /\ k - 1 # p /\ k - 1 > p
      BY <1>1, <1>7, <2>4
    <3>2. Spot(s1, h, k) = s[k - 1] /\ Spot(s1, h, k + 1) = Spot(s, h, k)
      BY <1>1, <1>7, <2>4 DEF Spot, Put
    <3>3. nx[s[k - 1]] = Spot(s, h, k)
      <4>1. nx[s[k - 1]] = Spot(s, h, k - 1 + 1)
        BY <3>1, ListedIsLinked
      <4> QED BY <4>1, <1>7, <1>1
    <3>4. s[k - 1] # a
      <4>1. CASE p = 0
        BY <1>1, <3>1, <4>1, ListAssumption DEF Spot
      <4>2. CASE p # 0
        <5>1. p \in 1 .. Len(s)
          BY <1>1, <4>2
        <5>2. s[k - 1] # s[p]
          BY <3>1, <5>1 DEF Chain
        <5> QED BY <5>1, <5>2 DEF Spot
      <4> QED BY <4>1, <4>2
    <3>5. s[k - 1] # e /\ s[k - 1] \in Pointers
      BY <1>2, <3>1 DEF Nodes, Pointers
    <3> QED BY <1>5, <3>2, <3>3, <3>4, <3>5
  <2> QED BY <1>1, <1>7, <2>1, <2>2, <2>3, <2>4
<1>10. ASSUME NEW g \in Heads, g # h, NEW k \in 0 .. Len(q[g])
       PROVE  nx1[Spot(q[g], g, k)] = Spot(q[g], g, k + 1)
  <2>1. nx[Spot(q[g], g, k)] = Spot(q[g], g, k + 1)
    BY DEF Chain
  <2>2. Spot(q[g], g, k) # e /\ Spot(q[g], g, k) \in Pointers
    BY <1>2, <1>3 DEF Spot, Nodes, Pointers
  <2>3. Spot(q[g], g, k) # a
    <3>1. CASE k \in 1 .. Len(q[g]) /\ p \in 1 .. Len(s)
      BY <1>10, <3>1 DEF Spot, Chain
    <3>2. CASE ~(k \in 1 .. Len(q[g]) /\ p \in 1 .. Len(s))
      BY <1>1, <1>2, <1>10, <3>2, ListAssumption DEF Spot
    <3> QED BY <3>1, <3>2
  <2> QED BY <1>5, <2>1, <2>2, <2>3
<1>11. \A f, g \in Heads : \A i \in 1 .. Len(q1[f]), j \in 1 .. Len(q1[g]) :
         q1[f][i] = q1[g][j] => f = g /\ i = j
  <2> DEFINE Old(i) == IF i <= p THEN i ELSE i - 1
  <2>1. ASSUME NEW i \in 1 .. Len(s) + 1
        PROVE  \/ i = p + 1 /\ s1[i] = e
               \/ i # p + 1 /\ Old(i) \in 1 .. Len(s) /\ s1[i] = s[Old(i)]
    BY <1>1 DEF Put
  <2>2. ASSUME NEW i \in 1 .. Len(s) + 1, NEW j \in 1 .. Len(s) + 1, s1[i] = s1[j]
        PROVE  i = j
    <3>1. CASE i = p + 1 \/ j = p + 1
      BY <1>1, <1>2, <2>1, <2>2, <3>1
    <3>2. CASE i # p + 1 /\ j # p + 1
      <4>1. /\ Old(i) \in 1 .. Len(s) /\ Old(j) \in 1 .. Len(s)
            /\ s[Old(i)] = s[Old(j)]
        BY <2>1, <2>2, <3>2
      <4>2. Old(i) = Old(j)
        <5> HIDE DEF Old
        <5> QED BY <4>1 DEF Chain
      <4> QED BY <1>1, <3>2, <4>2
    <3> QED BY <3>1, <3>2
  <2>3. ASSUME NEW g \in Heads, g # h, NEW i \in 1 .. Len(s) + 1, NEW j \in 1 .. Len(q[g])
        PROVE  s1[i] # q[g][j]
    <3>1. CASE i = p + 1
      BY <1>2, <2>1, <3>1
    <3>2. CASE i # p + 1
      <4>1. Old(i) \in 1 .. Len(s) /\ s1[i] = s[Old(i)]
        BY <2>1, <3>2
      <4> HIDE DEF Old, s1
      <4> QED BY <2>3, <4>1 DEF Chain
    <3> QED BY <3>1, <3>2
  <2> SUFFICES ASSUME NEW f \in Heads, NEW g \in Heads,
                      NEW i \in 1 .. Len(q1[f]), NEW j \in 1 .. Len(q1[g]), q1[f][i] = q1[g][j]
               PROVE  f = g /\ i = j
    OBVIOUS
  <2> HIDE DEF s1, q1
  <2>4. CASE f = h /\ g = h
    BY <1>7, <1>8, <2>2, <2>4
  <2>5. CASE f = h /\ g # h
    BY <1>7, <1>8, <2>3, <2>5
  <2>6. CASE f # h /\ g = h
    BY <1>7, <1>8, <2>3, <2>6
  <2>7. CASE f # h /\ g # h
    BY <1>8, <2>7 DEF Chain
  <2> QED BY <2>4, <2>5, <2>6, <2>7
<1>12. ASSUME NEW y \in Entries
       PROVE  nx1[y] \in {NULL, y} \/ \E g \in Heads : \E i \in 1 .. Len(q1[g]) : q1[g][i] = y
  <2>1. CASE y = e
    <3>1. s1[p + 1] = e /\ p + 1 \in 1 .. Len(s1)
      BY <1>1, <1>7 DEF Put
    <3> HIDE DEF s1, q1
    <3> QED BY <1>8, <2>1, <3>1
  <2>2. CASE \E g \in Heads : \E i \in 1 .. Len(q[g]) : q[g][i] = y
    <3>1. PICK g \in Heads : \E i \in 1 .. Len(q[g]) : q[g][i] = y
      BY <2>2
    <3>2. PICK i \in 1 .. Len(q[g]) : q[g][i] = y
      BY <3>1
    <3>3. CASE g = h
      <4> DEFINE j == IF i <= p THEN i ELSE i + 1
      <4>1. j \in 1 .. Len(s1) /\ s1[j] = y
        BY <1>1, <1>7, <3>2, <3>3 DEF Put
      <4> HIDE DEF j, s1, q1
      <4> QED BY <1>8, <4>1
    <3>4. CASE g # h
      <4> HIDE DEF s1, q1
      <4> QED BY <1>8, <3>2, <3>4
    <3> QED BY <3>3, <3>4
  <2>3. CASE nx[y] \in {NULL, y} /\ y # e /\ ~\E g \in Heads : \E i \in 1 .. Len(q[g]) : q[g][i] = y
    <3>1. y # a
      BY <1>1, <2>3, ListAssumption DEF Spot
    <3> QED BY <1>5, <2>3, <3>1 DEF Pointers, Nodes
  <2> QED BY <2>1, <2>2, <2>3 DEF Chain
<1>13. \A g \in Heads : \A k \in 0 .. Len(q1[g]) : nx1[Spot(q1[g], g, k)] = Spot(q1[g], g, k + 1)
  <2> HIDE DEF s1, q1
  <2> QED BY <1>8, <1>9, <1>10
<1> HIDE DEF q1
<1>14. Chain(nx1, q1)
  BY <1>5, <1>8, <1>11, <1>12, <1>13 DEF Chain
<1> QED BY <1>14 DEF q1

(* No two places of the rings are the same node. *)
LEMMA SpotsDiffer ==
  ASSUME NEW nx, NEW q, Chain(nx, q), NEW g \in Heads, NEW h \in Heads,
         NEW i \in 0 .. Len(q[g]), NEW j \in 0 .. Len(q[h]),
         Spot(q[g], g, i) = Spot(q[h], h, j)
  PROVE  g = h /\ i = j
<1>1. Len(q[g]) \in Nat /\ Len(q[h]) \in Nat
  BY ListFacts
<1>2. i \in 1 .. Len(q[g]) => q[g][i] \in Entries
  BY ListedIsLinked
<1>3. j \in 1 .. Len(q[h]) => q[h][j] \in Entries
  BY ListedIsLinked
<1>4. CASE i \in 1 .. Len(q[g]) /\ j \in 1 .. Len(q[h])
  BY <1>4 DEF Spot, Chain
<1>5. CASE i = 0 /\ j = 0
  BY <1>1, <1>5 DEF Spot
<1>6. CASE i = 0 /\ j \in 1 .. Len(q[h])
  BY <1>1, <1>3, <1>6, ListAssumption DEF Spot
<1>7. CASE j = 0 /\ i \in 1 .. Len(q[g])
  BY <1>1, <1>2, <1>7, ListAssumption DEF Spot
<1> QED BY <1>1, <1>4, <1>5, <1>6, <1>7

(* The pointers of an entry on no list do not matter to the lists. *)
LEMMA LooseChain ==
  ASSUME NEW nx, NEW q, Chain(nx, q), NEW e \in Entries, nx[e] \in {NULL, e},
         NEW own \in {NULL, e}, NEW nx1, nx1 = [nx EXCEPT ![e] = own]
  PROVE  Chain(nx1, q)
<1>1. e \in Pointers /\ NULL \in Pointers
  BY DEF Nodes, Pointers
<1>2. nx1 \in [Pointers -> Pointers] /\ nx1[e] = own /\ \A y \in Pointers \ {e} : nx1[y] = nx[y]
  BY <1>1 DEF Chain
<1>3. ASSUME NEW h \in Heads, NEW k \in 0 .. Len(q[h])
      PROVE  nx1[Spot(q[h], h, k)] = Spot(q[h], h, k + 1)
  <2>1. Spot(q[h], h, k) \in Nodes
    BY ListFacts
  <2>2. Spot(q[h], h, k) # e
    BY ListedIsLinked, ListAssumption DEF Spot
  <2> QED BY <1>2, <2>1, <2>2 DEF Chain, Pointers
<1> QED BY <1>2, <1>3 DEF Chain, Pointers, Nodes

(***************************************************************************)
(* __list_del closes the ring around the entry: it is cut from its list.   *)
(***************************************************************************)
LEMMA RemoveChain ==
  ASSUME NEW nx, NEW q, Chain(nx, q), NEW h \in Heads, NEW i \in 1 .. Len(q[h]),
         NEW own \in {NULL, q[h][i]}, NEW nx1,
         nx1 = [nx EXCEPT ![Spot(q[h], h, i - 1)] = Spot(q[h], h, i + 1), ![q[h][i]] = own]
  PROVE  Chain(nx1, [q EXCEPT ![h] = AbstractLists!Cut(q[h], i)])
<1> DEFINE s == q[h]
           s1 == AbstractLists!Cut(s, i)
           q1 == [q EXCEPT ![h] = s1]
           e == s[i]
           a == Spot(s, h, i - 1)
           b == Spot(s, h, i + 1)
<1>1. /\ Len(s) \in Nat /\ s \in [1 .. Len(s) -> Entries] /\ i \in Nat /\ i >= 1 /\ i <= Len(s)
      /\ a \in Nodes /\ b \in Nodes /\ e \in Entries /\ e = Spot(s, h, i)
  <2>1. i - 1 \in Int /\ i + 1 \in Int
    OBVIOUS
  <2> QED BY <2>1, ListFacts DEF Spot
<1>2. ASSUME NEW g \in Heads, NEW k \in 0 .. Len(q[g]), g # h \/ k \notin {i - 1, i}
      PROVE  Spot(q[g], g, k) \notin {a, e}
  <2>1. i - 1 \in 0 .. Len(s) /\ i \in 0 .. Len(s)
    BY <1>1
  <2> QED BY <1>1, <1>2, <2>1, SpotsDiffer
<1>3. a # e
  <2>1. i - 1 \in 0 .. Len(s) /\ i \in 0 .. Len(s) /\ i - 1 # i
    BY <1>1
  <2> QED BY <1>1, <2>1, SpotsDiffer
<1>4. /\ nx1 \in [Pointers -> Pointers] /\ nx1[e] = own /\ nx1[a] = b
      /\ \A y \in Pointers : y \notin {a, e} => nx1[y] = nx[y]
  BY <1>1, <1>3 DEF Chain, Pointers, Nodes
<1>5. s1 \in [1 .. Len(s) - 1 -> Entries]
  <2>1. ASSUME NEW k \in 1 .. Len(s) - 1 PROVE (IF k < i THEN s[k] ELSE s[k + 1]) \in Entries
    <3>1. k \in 1 .. Len(s) /\ k + 1 \in 1 .. Len(s)
      BY <1>1
    <3>2. s[k] \in Entries /\ s[k + 1] \in Entries
      BY <1>1, <3>1
    <3> QED BY <3>2
  <2> QED BY <2>1, Zenon DEF AbstractLists!Cut
<1>6. s1 \in Seq(Entries) /\ Len(s1) = Len(s) - 1
  <2>1. Len(s) - 1 \in Nat
    BY <1>1
  <2> HIDE DEF s1
  <2> QED BY <1>5, <2>1, FunctionIsSeq
<1>7. q1 \in [Heads -> Seq(Entries)] /\ q1[h] = s1 /\ \A g \in Heads \ {h} : q1[g] = q[g]
  BY <1>6 DEF Chain
<1> DEFINE Old(k) == IF k < i THEN k ELSE k + 1
<1>8. ASSUME NEW k \in 1 .. Len(s1)
      PROVE  Old(k) \in 1 .. Len(s) /\ Old(k) # i /\ s1[k] = s[Old(k)]
  BY <1>1, <1>6 DEF AbstractLists!Cut
<1>9. ASSUME NEW k \in 0 .. Len(s1) PROVE nx1[Spot(s1, h, k)] = Spot(s1, h, k + 1)
  <2>1. CASE k < i - 1
    <3>1. Spot(s1, h, k) = Spot(s, h, k) /\ Spot(s1, h, k + 1) = Spot(s, h, k + 1)
      BY <1>1, <1>6, <2>1 DEF Spot, AbstractLists!Cut
    <3>2. k \in 0 .. Len(s) /\ k \notin {i - 1, i}
      BY <1>1, <2>1
    <3>3. nx[Spot(s, h, k)] = Spot(s, h, k + 1)
      BY <3>2 DEF Chain
    <3>4. Spot(s, h, k) \notin {a, e} /\ Spot(s, h, k) \in Pointers
      BY <1>2, <3>2, ListFacts DEF Pointers
    <3> QED BY <1>4, <3>1, <3>3, <3>4
  <2>2. CASE k = i - 1
    <3>1. Spot(s1, h, k) = a
      BY <1>1, <1>6, <2>2 DEF Spot, AbstractLists!Cut
    <3>2. Spot(s1, h, k + 1) = b
      BY <1>1, <1>6, <2>2 DEF Spot, AbstractLists!Cut
    <3> QED BY <1>4, <3>1, <3>2
  <2>3. CASE k > i - 1
    <3>1. Spot(s1, h, k) = Spot(s, h, k + 1) /\ Spot(s1, h, k + 1) = Spot(s, h, k + 1 + 1)
      BY <1>1, <1>6, <2>3 DEF Spot, AbstractLists!Cut
    <3>2. k + 1 \in 0 .. Len(s) /\ k + 1 \notin {i - 1, i}
      BY <1>1, <1>6, <2>3
    <3>3. nx[Spot(s, h, k + 1)] = Spot(s, h, k + 1 + 1)
      BY <3>2 DEF Chain
    <3>4. Spot(s, h, k + 1) \notin {a, e} /\ Spot(s, h, k + 1) \in Pointers
      BY <1>2, <3>2, ListFacts DEF Pointers
    <3> QED BY <1>4, <3>1, <3>3, <3>4
  <2> QED BY <1>1, <1>6, <2>1, <2>2, <2>3
<1>10. ASSUME NEW g \in Heads, g # h, NEW k \in 0 .. Len(q[g])
       PROVE  nx1[Spot(q[g], g, k)] = Spot(q[g], g, k + 1)
  <2>1. nx[Spot(q[g], g, k)] = Spot(q[g], g, k + 1)
    BY DEF Chain
  <2>2. Spot(q[g], g, k) \notin {a, e} /\ Spot(q[g], g, k) \in Pointers
    BY <1>2, <1>10, ListFacts DEF Pointers
  <2> QED BY <1>4, <2>1, <2>2
<1>11. \A f, g \in Heads : \A j \in 1 .. Len(q1[f]), k \in 1 .. Len(q1[g]) :
         q1[f][j] = q1[g][k] => f = g /\ j = k
  <2>1. ASSUME NEW j \in 1 .. Len(s1), NEW k \in 1 .. Len(s1), s1[j] = s1[k]
        PROVE  j = k
    <3>1. Old(j) \in 1 .. Len(s) /\ Old(k) \in 1 .. Len(s) /\ s[Old(j)] = s[Old(k)]
      BY <1>8, <2>1
    <3>2. Old(j) = Old(k)
      <4> HIDE DEF Old
      <4> QED BY <3>1 DEF Chain
    <3> QED BY <1>1, <1>6, <3>2
  <2>2. ASSUME NEW g \in Heads, g # h, NEW j \in 1 .. Len(s1), NEW k \in 1 .. Len(q[g])
        PROVE  s1[j] # q[g][k]
    <3>1. Old(j) \in 1 .. Len(s) /\ s1[j] = s[Old(j)]
      BY <1>8
    <3> HIDE DEF Old, s1
    <3> QED BY <2>2, <3>1 DEF Chain
  <2> SUFFICES ASSUME NEW f \in Heads, NEW g \in Heads,
                      NEW j \in 1 .. Len(q1[f]), NEW k \in 1 .. Len(q1[g]), q1[f][j] = q1[g][k]
               PROVE  f = g /\ j = k
    OBVIOUS
  <2> HIDE DEF s1, q1
  <2>4. CASE f = h /\ g = h
    BY <1>7, <2>1, <2>4
  <2>5. CASE f = h /\ g # h
    <3>1. j \in 1 .. Len(s1) /\ k \in 1 .. Len(q[g]) /\ s1[j] = q[g][k]
      BY <1>7, <2>5
    <3> QED BY <2>2, <2>5, <3>1
  <2>6. CASE f # h /\ g = h
    <3>1. k \in 1 .. Len(s1) /\ j \in 1 .. Len(q[f]) /\ s1[k] = q[f][j]
      BY <1>7, <2>6
    <3> QED BY <2>2, <2>6, <3>1
  <2>7. CASE f # h /\ g # h
    BY <1>7, <2>7 DEF Chain
  <2> QED BY <2>4, <2>5, <2>6, <2>7
<1>12. ASSUME NEW y \in Entries
       PROVE  nx1[y] \in {NULL, y} \/ \E g \in Heads : \E j \in 1 .. Len(q1[g]) : q1[g][j] = y
  <2>1. CASE y = e
    BY <1>4, <2>1
  <2>2. CASE y # e /\ \E g \in Heads : \E j \in 1 .. Len(q[g]) : q[g][j] = y
    <3>1. PICK g \in Heads : \E j \in 1 .. Len(q[g]) : q[g][j] = y
      BY <2>2
    <3>2. PICK j \in 1 .. Len(q[g]) : q[g][j] = y
      BY <3>1
    <3>3. CASE g = h
      <4> DEFINE k == IF j < i THEN j ELSE j - 1
      <4>1. k \in 1 .. Len(s1) /\ s1[k] = y
        BY <1>1, <1>6, <2>2, <3>2, <3>3 DEF AbstractLists!Cut
      <4> HIDE DEF k, s1, q1
      <4> QED BY <1>7, <4>1
    <3>4. CASE g # h
      <4> HIDE DEF s1, q1
      <4> QED BY <1>7, <3>2, <3>4
    <3> QED BY <3>3, <3>4
  <2>3. CASE nx[y] \in {NULL, y} /\ y # e /\ ~\E g \in Heads : \E j \in 1 .. Len(q[g]) : q[g][j] = y
    <3>1. y # a
      BY <1>1, <2>3, ListAssumption DEF Spot
    <3> QED BY <1>4, <2>3, <3>1 DEF Pointers, Nodes
  <2> QED BY <2>1, <2>2, <2>3 DEF Chain
<1>13. \A g \in Heads : \A k \in 0 .. Len(q1[g]) : nx1[Spot(q1[g], g, k)] = Spot(q1[g], g, k + 1)
  <2> HIDE DEF s1, q1
  <2> QED BY <1>7, <1>9, <1>10
<1> HIDE DEF q1
<1>14. Chain(nx1, q1)
  BY <1>4, <1>7, <1>11, <1>12, <1>13 DEF Chain
<1> QED BY <1>14 DEF q1

(***************************************************************************)
(* list_splice_init hangs the ring of list l between head h and its first  *)
(* entry: the entries of l come before those of h, and l is left empty.    *)
(***************************************************************************)
LEMMA SpliceChain ==
  ASSUME NEW nx, NEW q, Chain(nx, q), NEW l \in Heads, NEW h \in Heads, l # h,
         Len(q[l]) >= 1, NEW nx1,
         nx1 = [nx EXCEPT ![h] = Spot(q[l], l, 1), ![Spot(q[l], l, Len(q[l]))] = Spot(q[h], h, 1),
                          ![l] = l]
  PROVE  Chain(nx1, [q EXCEPT ![h] = q[l] \o q[h], ![l] = << >>])
<1> DEFINE u == q[l]
           v == q[h]
           s1 == u \o v
           q1 == [q EXCEPT ![h] = s1, ![l] = << >>]
           first == Spot(u, l, 1)
           last == Spot(u, l, Len(u))
           b == Spot(v, h, 1)
<1>1. /\ Len(u) \in Nat /\ Len(u) >= 1 /\ u \in Seq(Entries) /\ u \in [1 .. Len(u) -> Entries]
      /\ Len(v) \in Nat /\ v \in Seq(Entries) /\ v \in [1 .. Len(v) -> Entries]
  BY ListFacts
<1>2. /\ first = u[1] /\ last = u[Len(u)] /\ last \in Entries
      /\ first \in Pointers /\ last \in Pointers /\ b \in Pointers /\ h \in Pointers /\ l \in Pointers
      /\ last # h /\ last # l
  <2>1. first = u[1] /\ last = u[Len(u)] /\ u[1] \in Entries /\ u[Len(u)] \in Entries
    BY <1>1 DEF Spot
  <2>2. b \in Nodes
    BY ListFacts
  <2> QED BY <2>1, <2>2, ListAssumption DEF Nodes, Pointers
<1>3. /\ nx1 \in [Pointers -> Pointers] /\ nx1[h] = first /\ nx1[last] = b /\ nx1[l] = l
      /\ \A y \in Pointers : y \notin {h, last, l} => nx1[y] = nx[y]
  <2> HIDE DEF first, last, b
  <2> QED BY <1>2 DEF Chain, first, last, b
<1>4. s1 \in Seq(Entries)
  <2> HIDE DEF u, v
  <2> QED BY <1>1, ConcatProperties
<1>5. /\ Len(s1) = Len(u) + Len(v)
      /\ \A k \in 1 .. Len(u) : s1[k] = u[k]
      /\ \A k \in 1 .. Len(v) : s1[Len(u) + k] = v[k]
  <2> HIDE DEF u, v
  <2>1. /\ Len(s1) = Len(u) + Len(v)
        /\ \A k \in 1 .. Len(s1) : s1[k] = IF k <= Len(u) THEN u[k] ELSE v[k - Len(u)]
    BY <1>1, ConcatProperties
  <2> HIDE DEF s1
  <2>2. ASSUME NEW k \in 1 .. Len(v)
        PROVE  /\ Len(u) + k \in 1 .. Len(s1) /\ ~(Len(u) + k <= Len(u))
               /\ Len(u) + k - Len(u) = k
    BY <1>1, <2>1
  <2>3. ASSUME NEW k \in 1 .. Len(u) PROVE k \in 1 .. Len(s1) /\ k <= Len(u)
    BY <1>1, <2>1
  <2>4. \A k \in 1 .. Len(u) : s1[k] = u[k]
    BY <2>1, <2>3
  <2>5. \A k \in 1 .. Len(v) : s1[Len(u) + k] = v[k]
    BY <2>1, <2>2
  <2> QED BY <2>1, <2>4, <2>5
<1>6. /\ q1 \in [Heads -> Seq(Entries)] /\ q1[h] = s1 /\ q1[l] = << >> /\ Len(q1[l]) = 0
      /\ \A g \in Heads \ {h, l} : q1[g] = q[g]
  <2>1. << >> \in Seq(Entries) /\ Len(<< >>) = 0
    BY EmptySeq
  <2>2. q \in [Heads -> Seq(Entries)]
    BY DEF Chain
  <2> HIDE DEF s1
  <2> QED BY <1>4, <2>1, <2>2
<1>7. ASSUME NEW g \in Heads, NEW k \in 0 .. Len(q[g]), g = l => k \in 1 .. Len(u) - 1,
             g = h => k # 0
      PROVE  nx1[Spot(q[g], g, k)] = Spot(q[g], g, k + 1)
  <2>1. nx[Spot(q[g], g, k)] = Spot(q[g], g, k + 1)
    BY DEF Chain
  <2>2. Spot(q[g], g, k) \in Pointers
    BY ListFacts DEF Pointers
  <2>3. 0 \in 0 .. Len(u) /\ 0 \in 0 .. Len(v) /\ Len(u) \in 0 .. Len(u)
    BY <1>1
  <2>4. h = Spot(v, h, 0) /\ l = Spot(u, l, 0)
    BY <1>1 DEF Spot
  <2>5. Spot(q[g], g, k) # h
    BY <1>7, <2>3, <2>4, SpotsDiffer
  <2>6. Spot(q[g], g, k) # last
    <3>1. k = Len(u) => g # l
      BY <1>1, <1>7
    <3> QED BY <2>3, <3>1, SpotsDiffer
  <2>7. Spot(q[g], g, k) # l
    <3>1. k = 0 => g # l
      BY <1>1, <1>7
    <3> QED BY <2>3, <2>4, <3>1, SpotsDiffer
  <2> QED BY <1>3, <2>1, <2>2, <2>5, <2>6, <2>7
<1> DEFINE m == Len(u)
<1>8. m \in Nat /\ m >= 1 /\ Len(v) \in Nat /\ Len(s1) = m + Len(v)
  BY <1>1, <1>5
<1>9. /\ Spot(s1, h, 0) = h
      /\ \A k \in 1 .. m : Spot(s1, h, k) = Spot(u, l, k)
      /\ \A k \in 1 .. Len(v) + 1 : Spot(s1, h, m + k) = Spot(v, h, k)
  <2> HIDE DEF s1, u, v
  <2>1. Spot(s1, h, 0) = h
    BY <1>1, <1>5 DEF Spot
  <2>2. ASSUME NEW k \in 1 .. m PROVE Spot(s1, h, k) = Spot(u, l, k)
    BY <1>1, <1>5 DEF Spot
  <2>3. ASSUME NEW k \in 1 .. Len(v) + 1 PROVE Spot(s1, h, m + k) = Spot(v, h, k)
    <3>1. CASE k \in 1 .. Len(v)
      <4>1. m + k \in 1 .. Len(s1)
        BY <1>1, <1>5, <3>1
      <4> QED BY <1>5, <3>1, <4>1 DEF Spot
    <3>2. CASE k = Len(v) + 1
      <4>1. m + k \notin 1 .. Len(s1) /\ k \notin 1 .. Len(v)
        BY <1>1, <1>5, <3>2
      <4> QED BY <4>1 DEF Spot
    <3> QED BY <1>1, <3>1, <3>2
  <2> QED BY <2>1, <2>2, <2>3
<1>10. ASSUME NEW k \in 0 .. Len(s1) PROVE nx1[Spot(s1, h, k)] = Spot(s1, h, k + 1)
  <2> HIDE DEF s1
  <2>1. CASE k = 0
    BY <1>1, <1>3, <1>9, <2>1
  <2>2. CASE k \in 1 .. m - 1
    <3>1. k \in 1 .. m /\ k + 1 \in 1 .. m /\ k \in 0 .. m
      BY <1>1, <2>2
    <3> QED BY <1>7, <1>9, <2>2, <3>1
  <2>3. CASE k = m
    <3>1. k \in 1 .. m /\ 1 \in 1 .. Len(v) + 1 /\ k + 1 = m + 1
      BY <1>1, <2>3
    <3> QED BY <1>3, <1>9, <2>3, <3>1
  <2>4. CASE k > m
    <3>1. PICK j \in 1 .. Len(v) : k = m + j
      <4>1. k - m \in 1 .. Len(v) /\ k = m + (k - m)
        <5> HIDE DEF m, v
        <5> QED BY <1>8, <2>4
      <4> QED BY <4>1
    <3>2. /\ j \in 0 .. Len(v) /\ j # 0 /\ j \in 1 .. Len(v) + 1 /\ j + 1 \in 1 .. Len(v) + 1
          /\ k + 1 = m + (j + 1)
      <4> HIDE DEF m, v
      <4> QED BY <1>8, <3>1
    <3>3. nx1[Spot(v, h, j)] = Spot(v, h, j + 1)
      BY <1>7, <3>2
    <3>4. Spot(s1, h, k) = Spot(v, h, j) /\ Spot(s1, h, k + 1) = Spot(v, h, j + 1)
      BY <1>9, <3>1, <3>2
    <3> QED BY <3>3, <3>4
  <2> QED BY <1>1, <1>5, <2>1, <2>2, <2>3, <2>4
<1>11. \A g \in Heads : \A k \in 0 .. Len(q1[g]) : nx1[Spot(q1[g], g, k)] = Spot(q1[g], g, k + 1)
  <2> HIDE DEF s1, q1
  <2> SUFFICES ASSUME NEW g \in Heads, NEW k \in 0 .. Len(q1[g])
               PROVE  nx1[Spot(q1[g], g, k)] = Spot(q1[g], g, k + 1)
    OBVIOUS
  <2>1. CASE g = h
    BY <1>6, <1>10, <2>1
  <2>2. CASE g = l
    <3>1. Spot(q1[g], g, k) = l /\ Spot(q1[g], g, k + 1) = l
      BY <1>6, <2>2 DEF Spot
    <3> QED BY <1>3, <3>1
  <2>3. CASE g # h /\ g # l
    BY <1>6, <1>7, <2>3
  <2> QED BY <2>1, <2>2, <2>3
<1> DEFINE OldHead(g, k) == IF g = h /\ k <= Len(u) THEN l ELSE g
           Old(g, k) == IF g = h /\ k > Len(u) THEN k - Len(u) ELSE k
<1>12. ASSUME NEW g \in Heads, NEW k \in 1 .. Len(q1[g])
      PROVE  /\ g # l /\ OldHead(g, k) \in Heads /\ Old(g, k) \in 1 .. Len(q[OldHead(g, k)])
             /\ q1[g][k] = q[OldHead(g, k)][Old(g, k)]
  <2> HIDE DEF s1, q1
  <2>1. g # l
    BY <1>6
  <2>2. CASE g = h
    <3>1. CASE k <= m
      <4>1. k \in 1 .. m
        <5> HIDE DEF m, v
        <5> QED BY <1>6, <1>8, <2>2, <3>1
      <4>2. OldHead(g, k) = l /\ Old(g, k) = k
        BY <1>8, <2>2, <3>1, <4>1
      <4>3. q1[g][k] = u[k]
        BY <1>5, <1>6, <2>2, <4>1
      <4> HIDE DEF OldHead, Old
      <4> QED BY <2>1, <4>1, <4>2, <4>3
    <3>2. CASE k > m
      <4>1. k - m \in 1 .. Len(v) /\ k = m + (k - m) /\ k \in 1 .. Len(s1)
        <5> HIDE DEF m, v
        <5> QED BY <1>6, <1>8, <2>2, <3>2
      <4>2. s1[k] = v[k - m]
        BY <1>5, <4>1
      <4> QED BY <1>6, <2>1, <2>2, <3>2, <4>1, <4>2
    <3> QED BY <1>1, <3>1, <3>2
  <2>3. CASE g # h
    BY <1>6, <2>1, <2>3
  <2> QED BY <2>1, <2>2, <2>3
<1>13. \A f, g \in Heads : \A j \in 1 .. Len(q1[f]), k \in 1 .. Len(q1[g]) :
         q1[f][j] = q1[g][k] => f = g /\ j = k
  <2> SUFFICES ASSUME NEW f \in Heads, NEW g \in Heads,
                      NEW j \in 1 .. Len(q1[f]), NEW k \in 1 .. Len(q1[g]), q1[f][j] = q1[g][k]
               PROVE  f = g /\ j = k
    OBVIOUS
  <2> HIDE DEF q1
  <2>1. f # l /\ g # l
    BY <1>12
  <2>2. OldHead(f, j) = OldHead(g, k) /\ Old(f, j) = Old(g, k)
    <3>1. /\ OldHead(f, j) \in Heads /\ Old(f, j) \in 1 .. Len(q[OldHead(f, j)])
          /\ OldHead(g, k) \in Heads /\ Old(g, k) \in 1 .. Len(q[OldHead(g, k)])
          /\ q[OldHead(f, j)][Old(f, j)] = q[OldHead(g, k)][Old(g, k)]
      BY <1>12
    <3>2. \A c, d \in Heads : \A x \in 1 .. Len(q[c]), y \in 1 .. Len(q[d]) :
            q[c][x] = q[d][y] => c = d /\ x = y
      BY DEF Chain
    <3> HIDE DEF OldHead, Old
    <3> QED BY <3>1, <3>2
  <2>3. j \in Int /\ k \in Int
    OBVIOUS
  <2> QED BY <1>1, <2>1, <2>2, <2>3
<1>14. ASSUME NEW y \in Entries
       PROVE  nx1[y] \in {NULL, y} \/ \E g \in Heads : \E j \in 1 .. Len(q1[g]) : q1[g][j] = y
  <2>1. CASE \E g \in Heads : \E j \in 1 .. Len(q[g]) : q[g][j] = y
    <3>1. PICK g \in Heads : \E j \in 1 .. Len(q[g]) : q[g][j] = y
      BY <2>1
    <3>2. PICK j \in 1 .. Len(q[g]) : q[g][j] = y
      BY <3>1
    <3> HIDE DEF s1, q1
    <3>3. CASE g = l
      <4>1. j \in 1 .. Len(s1) /\ s1[j] = y
        <5>1. j \in 1 .. m
          BY <3>2, <3>3
        <5>2. j \in 1 .. Len(s1)
          <6> HIDE DEF m, v
          <6> QED BY <1>8, <5>1
        <5> QED BY <1>5, <3>2, <3>3, <5>1, <5>2
      <4> QED BY <1>6, <4>1
    <3>4. CASE g = h
      <4> DEFINE k == m + j
      <4>1. k \in 1 .. Len(s1)
        <5>1. j \in 1 .. Len(v)
          BY <3>2, <3>4
        <5> HIDE DEF m, v
        <5> QED BY <1>8, <5>1
      <4>2. s1[k] = y
        BY <1>5, <3>2, <3>4
      <4> HIDE DEF k
      <4> QED BY <1>6, <4>1, <4>2
    <3>5. CASE g # l /\ g # h
      BY <1>6, <3>2, <3>5
    <3> QED BY <3>3, <3>4, <3>5
  <2>2. CASE nx[y] \in {NULL, y} /\ ~\E g \in Heads : \E j \in 1 .. Len(q[g]) : q[g][j] = y
    <3>1. y \notin {h, last, l}
      BY <1>1, <1>2, <2>2, ListAssumption
    <3> QED BY <1>3, <2>2, <3>1 DEF Pointers, Nodes
  <2> QED BY <2>1, <2>2 DEF Chain
<1> HIDE DEF q1
<1>15. Chain(nx1, q1)
  BY <1>3, <1>6, <1>11, <1>13, <1>14 DEF Chain
<1> QED BY <1>15 DEF q1

-----------------------------------------------------------------------------
(* What a step does to the lists. *)

(* What is left of list s from place k on. *)
Rest(s, k) == [j \in 1 .. Len(s) + 1 - k |-> s[k - 1 + j]]

(* A rest is empty behind the last entry and loses its first one with each place. *)
LEMMA RestFacts ==
  ASSUME NEW s \in Seq(Entries), NEW k \in 1 .. Len(s) + 1
  PROVE  /\ k = Len(s) + 1 => Rest(s, k) = << >>
         /\ k = 1 => Rest(s, k) = s
         /\ k \in 1 .. Len(s) =>
              Rest(s, k) # << >> /\ Head(Rest(s, k)) = s[k] /\ Tail(Rest(s, k)) = Rest(s, k + 1)
<1> DEFINE m == Len(s)
           r == Rest(s, k)
           d == m + 1 - k
<1>1. m \in Nat /\ s \in [1 .. m -> Entries] /\ k \in Nat /\ k >= 1 /\ k <= m + 1 /\ d \in Nat
  BY LenProperties
<1>2. ASSUME NEW j \in 1 .. d PROVE s[k - 1 + j] \in Entries
  <2>1. k - 1 + j \in 1 .. m
    <3> HIDE DEF m
    <3> QED BY <1>1
  <2> QED BY <1>1, <2>1
<1>3. r \in [1 .. d -> Entries]
  BY <1>2, Zenon DEF Rest
<1>4. r \in Seq(Entries) /\ Len(r) = d
  <2> HIDE DEF r, d
  <2> QED BY <1>1, <1>3, FunctionIsSeq
<1>5. ASSUME k = m + 1 PROVE r = << >>
  <2>1. Len(r) = 0
    BY <1>1, <1>4, <1>5
  <2> HIDE DEF r
  <2> QED BY <1>4, <2>1, EmptySeq
<1>6. ASSUME k = 1 PROVE r = s
  <2>1. d = m
    BY <1>1, <1>6
  <2>2. ASSUME NEW j \in 1 .. m PROVE r[j] = s[j]
    BY <1>1, <1>6 DEF Rest
  <2> HIDE DEF r, d, m
  <2> QED BY <1>1, <1>3, <2>1, <2>2
<1>7. ASSUME k \in 1 .. m
      PROVE  r # << >> /\ Head(r) = s[k] /\ Tail(r) = Rest(s, k + 1)
  <2>1. d \in Nat /\ d >= 1 /\ k - 1 + 1 = k
    BY <1>1, <1>7
  <2>2. r # << >>
    <3> HIDE DEF r, d
    <3> QED BY <1>4, <2>1, EmptySeq
  <2>3. Head(r) = r[1]
    <3> HIDE DEF r, d
    <3> QED BY <1>4, <2>2
  <2>4. /\ Tail(r) \in [1 .. Len(Tail(r)) -> Entries] /\ Len(Tail(r)) = Len(r) - 1
        /\ \A j \in 1 .. Len(Tail(r)) : Tail(r)[j] = r[j + 1]
    <3> HIDE DEF r, d
    <3> QED BY <1>4, <2>2, HeadTailProperties, LenProperties
  <2>5. r[1] = s[k]
    BY <2>1 DEF Rest
  <2>6. Len(r) - 1 = m + 1 - (k + 1)
    BY <1>1, <1>4
  <2>7. ASSUME NEW j \in 1 .. m + 1 - (k + 1) PROVE r[j + 1] = s[k + 1 - 1 + j]
    <3>1. j + 1 \in 1 .. d /\ k - 1 + (j + 1) = k + 1 - 1 + j
      <4> HIDE DEF m
      <4> QED BY <1>1
    <3>2. r[j + 1] = s[k - 1 + (j + 1)]
      BY <3>1 DEF Rest
    <3> QED BY <3>1, <3>2
  <2>8. Tail(r) = Rest(s, k + 1)
    <3>1. Rest(s, k + 1) = [j \in 1 .. m + 1 - (k + 1) |-> s[k + 1 - 1 + j]]
      BY DEF Rest
    <3>2. Tail(r) \in [1 .. m + 1 - (k + 1) -> Entries]
          /\ \A j \in 1 .. m + 1 - (k + 1) : Tail(r)[j] = s[k + 1 - 1 + j]
      <4> HIDE DEF r, m
      <4> QED BY <2>6, <2>7, <2>4
    <3> HIDE DEF r, m
    <3> QED BY <3>1, <3>2
  <2> QED BY <2>2, <2>3, <2>5, <2>8
<1> QED BY <1>5, <1>6, <1>7

(* Cutting the entry at place k leaves what was behind it. *)
LEMMA CutRest ==
  ASSUME NEW s \in Seq(Entries), NEW k \in 1 .. Len(s)
  PROVE  /\ Len(AbstractLists!Cut(s, k)) = Len(s) - 1
         /\ \A h : Spot(AbstractLists!Cut(s, k), h, k) = Spot(s, h, k + 1)
         /\ Rest(AbstractLists!Cut(s, k), k) = Rest(s, k + 1)
<1> DEFINE m == Len(s)
           c == AbstractLists!Cut(s, k)
<1>1. m \in Nat /\ s \in [1 .. m -> Entries] /\ k \in Nat /\ k >= 1 /\ k <= m /\ m - 1 \in Nat
  BY LenProperties
<1>2. c \in [1 .. m - 1 -> Entries]
  <2>1. ASSUME NEW j \in 1 .. m - 1 PROVE (IF j < k THEN s[j] ELSE s[j + 1]) \in Entries
    BY <1>1
  <2> QED BY <2>1, Zenon DEF AbstractLists!Cut
<1>3. Len(c) = m - 1
  <2> HIDE DEF c, m
  <2> QED BY <1>1, <1>2, FunctionIsSeq
<1>4. ASSUME NEW j \in k .. m - 1 PROVE c[j] = s[j + 1]
  <2>1. j \in 1 .. m - 1 /\ ~(j < k)
    BY <1>1
  <2> QED BY <2>1 DEF AbstractLists!Cut
<1>5. ASSUME NEW h PROVE Spot(c, h, k) = Spot(s, h, k + 1)
  <2> HIDE DEF c
  <2> QED BY <1>1, <1>3, <1>4 DEF Spot
<1>6. Len(c) + 1 - k = m + 1 - (k + 1)
  <2> HIDE DEF c, m
  <2> QED BY <1>1, <1>3
<1>7. ASSUME NEW j \in 1 .. m + 1 - (k + 1) PROVE c[k - 1 + j] = s[k + 1 - 1 + j]
  <2>1. k - 1 + j \in k .. m - 1 /\ k - 1 + j + 1 = k + 1 - 1 + j
    <3> HIDE DEF m
    <3> QED BY <1>1
  <2> QED BY <1>4, <2>1
<1>8. Rest(c, k) = Rest(s, k + 1)
  <2>1. Rest(c, k) = [j \in 1 .. m + 1 - (k + 1) |-> c[k - 1 + j]]
    <3> HIDE DEF c, m
    <3> QED BY <1>6 DEF Rest
  <2>2. Rest(s, k + 1) = [j \in 1 .. m + 1 - (k + 1) |-> s[k + 1 - 1 + j]]
    BY DEF Rest
  <2> HIDE DEF c, m
  <2> QED BY <1>7, <2>1, <2>2
<1> QED BY <1>3, <1>5, <1>8

(* Put at either end. *)
LEMMA PutEnds ==
  ASSUME NEW s \in Seq(Entries), NEW e \in Entries
  PROVE  Put(s, 0, e) = <<e>> \o s /\ Put(s, Len(s), e) = Append(s, e)
<1> DEFINE m == Len(s)
           f == <<e>> \o s
           t == Append(s, e)
<1>1. m \in Nat /\ s \in [1 .. m -> Entries]
  BY LenProperties
<1>2. <<e>> \in Seq(Entries) /\ Len(<<e>>) = 1 /\ <<e>>[1] = e
  OBVIOUS
<1>3. f \in Seq(Entries) /\ Len(f) = 1 + m
      /\ \A i \in 1 .. 1 + m : f[i] = IF i <= 1 THEN <<e>>[i] ELSE s[i - 1]
  BY <1>2, ConcatProperties
<1>4. f \in [1 .. m + 1 -> Entries]
  <2> HIDE DEF f, m
  <2>1. 1 + m = m + 1
    BY <1>1
  <2> QED BY <1>3, <2>1, LenProperties
<1>5. ASSUME NEW i \in 1 .. m + 1
      PROVE  f[i] = IF i <= 0 THEN s[i] ELSE IF i = 0 + 1 THEN e ELSE s[i - 1]
  <2> HIDE DEF f, m
  <2> QED BY <1>1, <1>2, <1>3
<1>6. f = Put(s, 0, e)
  <2> HIDE DEF f
  <2> QED BY <1>4, <1>5 DEF Put
<1>7. t \in Seq(Entries) /\ Len(t) = m + 1 /\ (\A i \in 1 .. m : t[i] = s[i]) /\ t[m + 1] = e
  BY AppendProperties
<1>8. t \in [1 .. m + 1 -> Entries]
  <2> HIDE DEF t, m
  <2> QED BY <1>7, LenProperties
<1>9. ASSUME NEW i \in 1 .. m + 1
      PROVE  t[i] = IF i <= m THEN s[i] ELSE IF i = m + 1 THEN e ELSE s[i - 1]
  <2> HIDE DEF t, m
  <2> QED BY <1>1, <1>7
<1>10. t = Put(s, m, e)
  <2> HIDE DEF t
  <2> QED BY <1>8, <1>9 DEF Put
<1> QED BY <1>6, <1>10

(* Walks from the heads find the lists. *)
LEMMA ListsAre ==
  ASSUME NEW nx, NEW q, Chain(nx, q)
  PROVE  [h \in Heads |-> Walk(nx, nx[h], h)] = q
<1>1. ASSUME NEW h \in Heads PROVE Walk(nx, nx[h], h) = q[h]
  <2>1. Len(q[h]) \in Nat /\ q[h] \in Seq(Entries)
    BY ListFacts
  <2>2. 0 \in 0 .. Len(q[h]) /\ 1 \in 1 .. Len(q[h]) + 1 /\ 0 + 1 = 1 /\ Spot(q[h], h, 0) = h
    BY <2>1 DEF Spot
  <2>3. nx[h] = Spot(q[h], h, 1)
    BY <2>2 DEF Chain
  <2>4. Walk(nx, Spot(q[h], h, 1), h) = Rest(q[h], 1)
    BY <2>2, WalkIs DEF Rest
  <2> QED BY <2>1, <2>2, <2>3, <2>4, RestFacts
<1>2. q \in [Heads -> Seq(Entries)]
  BY DEF Chain
<1> QED BY <1>1, <1>2

(* The back pointer of a place leads to the place before it. *)
LEMMA PrevIs ==
  ASSUME RingsConsistent, NEW q, Chain(next, q), NEW h \in Heads, NEW k \in 0 .. Len(q[h])
  PROVE  prev[Spot(q[h], h, k + 1)] = Spot(q[h], h, k)
<1> DEFINE x == Spot(q[h], h, k)
<1>1. x \in Nodes /\ Spot(q[h], h, k + 1) \in Nodes
  <2>1. k \in Int /\ k + 1 \in Int
    OBVIOUS
  <2> QED BY <2>1, ListFacts
<1>2. next[x] = Spot(q[h], h, k + 1)
  BY DEF Chain
<1>3. next[x] # NULL
  BY <1>1, <1>2, ListAssumption
<1> QED BY <1>1, <1>2, <1>3 DEF RingsConsistent

(* The places next to the head of a list. *)
LEMMA HeadPlaces ==
  ASSUME RingsConsistent, NEW q, Chain(next, q), NEW h \in Heads
  PROVE  /\ Len(q[h]) \in Nat /\ Spot(q[h], h, 0) = h /\ Spot(q[h], h, Len(q[h]) + 1) = h
         /\ next[h] = Spot(q[h], h, 1) /\ prev[h] = Spot(q[h], h, Len(q[h]))
<1>1. Len(q[h]) \in Nat
  BY ListFacts
<1>2. Spot(q[h], h, 0) = h /\ Spot(q[h], h, Len(q[h]) + 1) = h
  BY <1>1 DEF Spot
<1>3. 0 \in 0 .. Len(q[h]) /\ Len(q[h]) \in 0 .. Len(q[h]) /\ 0 + 1 = 1
  BY <1>1
<1>4. next[h] = Spot(q[h], h, 1)
  BY <1>2, <1>3 DEF Chain
<1>5. prev[h] = Spot(q[h], h, Len(q[h]))
  BY <1>2, <1>3, PrevIs
<1> QED BY <1>1, <1>2, <1>4, <1>5

(* Lists q1 are lists q without e, if it was on one. *)
Removed(q, q1, e) ==
  \/ \E h \in Heads : \E i \in 1 .. Len(q[h]) :
       q[h][i] = e /\ q1 = [q EXCEPT ![h] = AbstractLists!Cut(q[h], i)]
  \/ (\A h \in Heads : \A i \in 1 .. Len(q[h]) : q[h][i] # e) /\ q1 = q

(* list_del and list_del_init take the entry from its list, if it has one. *)
LEMMA UnlinkChain ==
  ASSUME RingsConsistent, NEW q, Chain(next, q), NEW e \in Entries, next[e] # NULL,
         NEW own \in {NULL, e}, Unlink(e, own)
  PROVE  \E q1 : Chain(next', q1) /\ Removed(q, q1, e)
<1>1. ASSUME NEW h \in Heads, NEW i \in 1 .. Len(q[h]), q[h][i] = e
      PROVE  Chain(next', [q EXCEPT ![h] = AbstractLists!Cut(q[h], i)])
  <2>1. Len(q[h]) \in Nat
    BY ListFacts
  <2>2. i - 1 \in 0 .. Len(q[h]) /\ i - 1 + 1 = i /\ Spot(q[h], h, i) = e
    BY <1>1, <2>1 DEF Spot
  <2>3. next[e] = Spot(q[h], h, i + 1)
    BY <1>1, ListedIsLinked
  <2>4. prev[e] = Spot(q[h], h, i - 1)
    BY <2>2, PrevIs
  <2>5. next' = [next EXCEPT ![Spot(q[h], h, i - 1)] = Spot(q[h], h, i + 1), ![q[h][i]] = own]
    BY <1>1, <2>3, <2>4 DEF Unlink
  <2> QED BY <1>1, <2>5, RemoveChain
<1>2. ASSUME \A h \in Heads : \A i \in 1 .. Len(q[h]) : q[h][i] # e
      PROVE  Chain(next', q)
  <2>1. next[e] = e
    BY <1>2 DEF Chain
  <2>2. e \in Nodes /\ e \in Pointers /\ prev[e] = e
    BY <2>1 DEF RingsConsistent, Nodes, Pointers
  <2>3. next' = [next EXCEPT ![e] = own]
    <3>1. next' = [next EXCEPT ![e] = e, ![e] = own] /\ next \in [Pointers -> Pointers]
      BY <2>1, <2>2 DEF Unlink, RingsConsistent
    <3> QED BY <2>2, <3>1
  <2> QED BY <2>1, <2>3, LooseChain
<1>3. CASE \E h \in Heads : \E i \in 1 .. Len(q[h]) : q[h][i] = e
  <2>1. PICK h \in Heads : \E i \in 1 .. Len(q[h]) : q[h][i] = e
    BY <1>3
  <2>2. PICK i \in 1 .. Len(q[h]) : q[h][i] = e
    BY <2>1
  <2>3. PICK q1 : q1 = [q EXCEPT ![h] = AbstractLists!Cut(q[h], i)]
    OBVIOUS
  <2>4. Chain(next', q1)
    BY <1>1, <2>2, <2>3
  <2>5. Removed(q, q1, e)
    BY <2>2, <2>3 DEF Removed
  <2> QED BY <2>4, <2>5
<1>4. CASE \A h \in Heads : \A i \in 1 .. Len(q[h]) : q[h][i] # e
  BY <1>2, <1>4 DEF Removed
<1> QED BY <1>3, <1>4

-----------------------------------------------------------------------------
(* A loop that runs is at a place of its list. *)
LoopAt(q) ==
  /\ at \in {"none", "test", "advance"}
  /\ at # "none" => head \in Heads
  /\ at = "test" => \E k \in 1 .. Len(q[head]) + 1 : pos = Spot(q[head], head, k) /\ n = next[pos]
  /\ at = "advance" => \E k \in 1 .. Len(q[head]) + 1 : n = Spot(q[head], head, k)

ListInv ==
  /\ RingsConsistent
  /\ \E q \in [Heads -> Seq(Entries)] : Chain(next, q) /\ LoopAt(q)

(* What the abstract lists are. *)
LEMMA MappedNow ==
  ASSUME NEW q, Chain(next, q)
  PROVE  RingLists = q
BY ListsAre DEF RingLists

(* What they are after a step. *)
LEMMA MappedNext ==
  ASSUME NEW q, Chain(next', q)
  PROVE  RingLists' = q
BY ListsAre DEF RingLists

(* What a loop at place k has ahead. *)
LEMMA AheadNow ==
  ASSUME NEW q, Chain(next, q), head \in Heads, NEW k \in 1 .. Len(q[head]) + 1,
         \/ at = "test" /\ pos = Spot(q[head], head, k)
         \/ at = "advance" /\ n = Spot(q[head], head, k)
  PROVE  Ahead = Rest(q[head], k)
<1>1. Walk(next, Spot(q[head], head, k), head) = Rest(q[head], k)
  BY WalkIs DEF Rest
<1>2. CASE at = "test" /\ pos = Spot(q[head], head, k)
  BY <1>1, <1>2 DEF Ahead
<1>3. CASE at = "advance" /\ n = Spot(q[head], head, k)
  BY <1>1, <1>3 DEF Ahead
<1> QED BY <1>2, <1>3

(* What it has ahead after a step. *)
LEMMA AheadNext ==
  ASSUME NEW q, Chain(next', q), head' \in Heads, NEW k \in 1 .. Len(q[head']) + 1,
         \/ at' = "test" /\ pos' = Spot(q[head'], head', k)
         \/ at' = "advance" /\ n' = Spot(q[head'], head', k)
  PROVE  Ahead' = Rest(q[head'], k)
<1>1. Walk(next', Spot(q[head'], head', k), head') = Rest(q[head'], k)
  BY WalkIs DEF Rest
<1>2. CASE at' = "test" /\ pos' = Spot(q[head'], head', k)
  BY <1>1, <1>2 DEF Ahead
<1>3. CASE at' = "advance" /\ n' = Spot(q[head'], head', k)
  BY <1>1, <1>3 DEF Ahead
<1> QED BY <1>2, <1>3

(* Empty lists. *)
LEMMA ListInit == Init => ListInv /\ AbstractLists!Init
<1> SUFFICES ASSUME Init PROVE ListInv /\ AbstractLists!Init
  OBVIOUS
<1> DEFINE q == [h \in Heads |-> << >>]
<1>1. RingsConsistent
  BY ListAssumption DEF Init, RingsConsistent, Nodes, Pointers
<1>2. q \in [Heads -> Seq(Entries)] /\ \A h \in Heads : Len(q[h]) = 0
  <2>1. << >> \in Seq(Entries) /\ Len(<< >>) = 0
    BY EmptySeq
  <2> QED BY <2>1
<1>3. /\ next \in [Pointers -> Pointers]
      /\ \A h \in Heads : next[h] = h
      /\ \A e \in Entries : next[e] = NULL
  BY ListAssumption DEF Init, Pointers, Nodes
<1> HIDE DEF q
<1>4. ASSUME NEW h \in Heads, NEW k \in 0 .. Len(q[h])
      PROVE  next[Spot(q[h], h, k)] = Spot(q[h], h, k + 1)
  <2>1. Spot(q[h], h, k) = h /\ Spot(q[h], h, k + 1) = h
    BY <1>2 DEF Spot
  <2> QED BY <1>3, <2>1
<1>5. Chain(next, q)
  BY <1>2, <1>3, <1>4 DEF Chain
<1>6. LoopAt(q)
  BY DEF Init, LoopAt
<1>7. RingLists = [h \in Heads |-> << >>]
  BY <1>5, MappedNow DEF q
<1>8. Ahead = << >> /\ called = <<"none">>
  BY DEF Init, Ahead
<1> QED BY <1>1, <1>2, <1>5, <1>6, <1>7, <1>8 DEF ListInv, AbstractLists!Init

Mapped == [AbstractLists!Next]_(AbstractLists!vars)

(* A call outside of a loop that leaves the lists q1. *)
LEMMA CallStep ==
  ASSUME RingsConsistent', NEW q1, Chain(next', q1), at = "none", UNCHANGED loop
  PROVE  ListInv' /\ RingLists' = q1 /\ Ahead = << >> /\ Ahead' = << >>
<1>1. q1 \in [Heads -> Seq(Entries)]
  BY DEF Chain
<1>2. at' = "none" /\ RingLists' = q1
  BY MappedNext DEF loop
<1>3. LoopAt(q1)'
  BY <1>2 DEF LoopAt
<1>4. Ahead = << >> /\ Ahead' = << >>
  BY <1>2 DEF Ahead
<1> QED BY <1>1, <1>2, <1>3, <1>4 DEF ListInv

(* An entry that may be added is on no list. *)
LEMMA AddNotListed ==
  ASSUME NEW q, Chain(next, q), NEW e \in Entries, ~Linked(e)
  PROVE  next[e] \in {NULL, e} /\ ~AbstractLists!Listed(e)
<1>1. next[e] \in {NULL, e}
  BY DEF Linked, list_empty
<1>2. RingLists = q
  BY MappedNow
<1>3. ASSUME NEW h \in Heads, NEW i \in DOMAIN q[h] PROVE q[h][i] # e
  <2>1. i \in 1 .. Len(q[h])
    BY ListFacts
  <2> QED BY <1>1, <2>1, ListedIsLinked
<1> QED BY <1>1, <1>2, <1>3 DEF AbstractLists!Listed

(* list_add puts the entry at the front. *)
LEMMA AddStep ==
  ASSUME ListInv, NEW e \in Entries, NEW h \in Heads, list_add(e, h)
  PROVE  ListInv' /\ Mapped
<1>1. PICK q \in [Heads -> Seq(Entries)] : Chain(next, q) /\ LoopAt(q)
  BY DEF ListInv
<1>2. RingsConsistent
  BY DEF ListInv
<1>3. next[e] \in {NULL, e} /\ ~AbstractLists!Listed(e) /\ RingLists = q
  BY <1>1, AddNotListed, MappedNow DEF list_add
<1>4. /\ Len(q[h]) \in Nat /\ Spot(q[h], h, 0) = h /\ next[h] = Spot(q[h], h, 0 + 1)
      /\ 0 \in 0 .. Len(q[h])
  BY <1>1, <1>2, HeadPlaces
<1> DEFINE q1 == [q EXCEPT ![h] = <<e>> \o q[h]]
<1>5. Chain(next', q1)
  <2>1. next' = [next EXCEPT ![e] = Spot(q[h], h, 0 + 1), ![Spot(q[h], h, 0)] = e]
    BY <1>4 DEF list_add, Insert
  <2>2. Chain(next', [q EXCEPT ![h] = Put(q[h], 0, e)])
    BY <1>1, <1>3, <1>4, <2>1, InsertChain
  <2>3. Put(q[h], 0, e) = <<e>> \o q[h]
    BY PutEnds
  <2> QED BY <2>2, <2>3
<1>6. RingsConsistent'
  <2>1. h \in Nodes /\ h # e /\ next[h] # NULL
    BY <1>2, ListAssumption DEF Nodes, RingsConsistent
  <2> QED BY <1>2, <2>1, InsertKeepsRings DEF list_add
<1> HIDE DEF q1
<1>7. ListInv' /\ RingLists' = q1 /\ Ahead = << >> /\ Ahead' = << >>
  BY <1>5, <1>6, CallStep DEF list_add, OutsideLoop
<1>8. AbstractLists!list_add(e, h)
  BY <1>3, <1>7 DEF AbstractLists!list_add, AbstractLists!Call, list_add, q1
<1> QED BY <1>7, <1>8 DEF Mapped, AbstractLists!Next

(* list_add_tail puts it at the end. *)
LEMMA AddTailStep ==
  ASSUME ListInv, NEW e \in Entries, NEW h \in Heads, list_add_tail(e, h)
  PROVE  ListInv' /\ Mapped
<1>1. PICK q \in [Heads -> Seq(Entries)] : Chain(next, q) /\ LoopAt(q)
  BY DEF ListInv
<1>2. RingsConsistent
  BY DEF ListInv
<1>3. next[e] \in {NULL, e} /\ ~AbstractLists!Listed(e) /\ RingLists = q
  BY <1>1, AddNotListed, MappedNow DEF list_add_tail
<1> DEFINE m == Len(q[h])
<1>4. m \in Nat /\ prev[h] = Spot(q[h], h, m) /\ h = Spot(q[h], h, m + 1) /\ m \in 0 .. m
  BY <1>1, <1>2, HeadPlaces
<1> DEFINE q1 == [q EXCEPT ![h] = Append(q[h], e)]
<1>5. Chain(next', q1)
  <2>1. next' = [next EXCEPT ![e] = Spot(q[h], h, m + 1), ![Spot(q[h], h, m)] = e]
    BY <1>4 DEF list_add_tail, Insert
  <2>2. Chain(next', [q EXCEPT ![h] = Put(q[h], m, e)])
    BY <1>1, <1>3, <1>4, <2>1, InsertChain
  <2>3. Put(q[h], m, e) = Append(q[h], e)
    BY PutEnds
  <2> QED BY <2>2, <2>3
<1>6. RingsConsistent'
  <2>1. /\ prev[h] \in Nodes /\ next[prev[h]] = h /\ prev[h] # e /\ next[prev[h]] # NULL
        /\ Insert(e, prev[h], next[prev[h]]) /\ ~Linked(e)
    <3>1. prev[h] \in Nodes /\ next[prev[h]] = h
      BY <1>2, ListAssumption DEF RingsConsistent, Nodes, Pointers
    <3> QED BY <1>3, <3>1, ListAssumption DEF list_add_tail, Nodes
  <2> QED BY <1>2, <2>1, InsertKeepsRings
<1> HIDE DEF q1
<1>7. ListInv' /\ RingLists' = q1 /\ Ahead = << >> /\ Ahead' = << >>
  BY <1>5, <1>6, CallStep DEF list_add_tail, OutsideLoop
<1>8. AbstractLists!list_add_tail(e, h)
  BY <1>3, <1>7 DEF AbstractLists!list_add_tail, AbstractLists!Call, list_add_tail, q1
<1> QED BY <1>7, <1>8 DEF Mapped, AbstractLists!Next

(* What the deletion of an entry does to the abstract lists. *)
LEMMA RemoveIs ==
  ASSUME NEW q, Chain(next, q), NEW q1, Chain(next', q1), NEW e \in Entries,
         Removed(q, q1, e)
  PROVE  AbstractLists!Remove(e)
<1>1. RingLists = q /\ RingLists' = q1
  BY MappedNow, MappedNext
<1>2. ASSUME NEW h \in Heads PROVE DOMAIN q[h] = 1 .. Len(q[h])
  BY ListFacts
<1>3. CASE \E h \in Heads : \E i \in 1 .. Len(q[h]) :
             q[h][i] = e /\ q1 = [q EXCEPT ![h] = AbstractLists!Cut(q[h], i)]
  <2>1. \E h \in Heads : \E i \in DOMAIN q[h] :
          q[h][i] = e /\ q1 = [q EXCEPT ![h] = AbstractLists!Cut(q[h], i)]
    BY <1>2, <1>3
  <2> QED BY <1>1, <2>1 DEF AbstractLists!Remove
<1>4. CASE (\A h \in Heads : \A i \in 1 .. Len(q[h]) : q[h][i] # e) /\ q1 = q
  BY <1>1, <1>2, <1>4 DEF AbstractLists!Remove, AbstractLists!Listed
<1> QED BY <1>3, <1>4 DEF Removed

(* list_del and list_del_init outside of a loop. *)
LEMMA DeleteStep ==
  ASSUME ListInv, NEW e \in Entries, Delete(e)
  PROVE  ListInv' /\ Mapped
<1>1. PICK q \in [Heads -> Seq(Entries)] : Chain(next, q) /\ LoopAt(q)
  BY DEF ListInv
<1>2. RingsConsistent
  BY DEF ListInv
<1>3. PICK own \in {NULL, e} : Unlink(e, own) /\ next[e] # NULL
  BY DEF Delete, list_del, list_del_init
<1>4. RingsConsistent'
  BY <1>2, <1>3, UnlinkKeepsRings
<1>5. PICK q1 : Chain(next', q1) /\ Removed(q, q1, e)
  BY <1>1, <1>2, <1>3, UnlinkChain
<1>6. ListInv' /\ Ahead = << >> /\ Ahead' = << >>
  BY <1>4, <1>5, CallStep DEF Delete, OutsideLoop
<1>7. AbstractLists!list_del(e)
  BY <1>1, <1>5, <1>6, RemoveIs DEF AbstractLists!list_del, AbstractLists!Call, Delete
<1> QED BY <1>6, <1>7 DEF Mapped, AbstractLists!Next

(* list_splice_init. *)
LEMMA SpliceStep ==
  ASSUME ListInv, NEW l \in Heads, NEW h \in Heads, list_splice_init(l, h)
  PROVE  ListInv' /\ Mapped
<1>1. PICK q \in [Heads -> Seq(Entries)] : Chain(next, q) /\ LoopAt(q)
  BY DEF ListInv
<1>2. RingsConsistent /\ RingLists = q
  BY <1>1, MappedNow DEF ListInv
<1> DEFINE q1 == [q EXCEPT ![h] = q[l] \o q[h], ![l] = << >>]
<1>3. /\ Len(q[l]) \in Nat /\ next[l] = Spot(q[l], l, 1) /\ prev[l] = Spot(q[l], l, Len(q[l]))
      /\ next[h] = Spot(q[h], h, 1)
  BY <1>1, <1>2, HeadPlaces
<1>4. l # h /\ Len(q[l]) >= 1
  <2>1. next[l] # l /\ l # h
    BY DEF list_splice_init, list_empty
  <2>2. Len(q[l]) = 0 => Spot(q[l], l, 1) = l
    BY DEF Spot
  <2> QED BY <1>3, <2>1, <2>2
<1>5. Chain(next', q1)
  <2>1. next' = [next EXCEPT ![h] = Spot(q[l], l, 1),
                             ![Spot(q[l], l, Len(q[l]))] = Spot(q[h], h, 1), ![l] = l]
    BY <1>3 DEF list_splice_init
  <2> QED BY <1>1, <1>4, <2>1, SpliceChain
<1>6. RingsConsistent'
  BY <1>2, SpliceKeepsRings
<1> HIDE DEF q1
<1>7. ListInv' /\ RingLists' = q1 /\ Ahead = << >> /\ Ahead' = << >>
  BY <1>5, <1>6, CallStep DEF list_splice_init, OutsideLoop
<1>8. AbstractLists!list_splice_init(l, h)
  BY <1>2, <1>4, <1>7 DEF AbstractLists!list_splice_init, AbstractLists!Call, list_splice_init, q1
<1> QED BY <1>7, <1>8 DEF Mapped, AbstractLists!Next

(* A loop starts at the first place of its list. *)
LEMMA LoopStartStep ==
  ASSUME ListInv, NEW h \in Heads, LoopStart(h)
  PROVE  ListInv' /\ Mapped
<1>1. PICK q \in [Heads -> Seq(Entries)] : Chain(next, q) /\ LoopAt(q)
  BY DEF ListInv
<1>2. RingsConsistent
  BY DEF ListInv
<1>3. Len(q[h]) \in Nat /\ next[h] = Spot(q[h], h, 1) /\ 1 \in 1 .. Len(q[h]) + 1
  BY <1>1, <1>2, HeadPlaces
<1>4. /\ next' = next /\ prev' = prev /\ head' = h /\ at' = "test" /\ at = "none"
      /\ pos' = Spot(q[h], h, 1) /\ n' = next[pos'] /\ called' = <<"loop", h>>
  BY <1>3 DEF LoopStart, OutsideLoop
<1>5. Chain(next', q) /\ RingsConsistent'
  BY <1>1, <1>2, <1>4 DEF RingsConsistent
<1>6. LoopAt(q)'
  BY <1>3, <1>4 DEF LoopAt
<1>7. Ahead' = Rest(q[h], 1)
  BY <1>3, <1>4, <1>5, AheadNext
<1>8. Rest(q[h], 1) = q[h]
  BY <1>3, RestFacts
<1>9. Ahead = << >> /\ RingLists = q /\ RingLists' = q
  BY <1>1, <1>4, <1>5, MappedNow, MappedNext DEF Ahead
<1>10. AbstractLists!LoopStart(h)
  BY <1>4, <1>7, <1>8, <1>9 DEF AbstractLists!LoopStart, AbstractLists!Call
<1> QED BY <1>5, <1>6, <1>10 DEF ListInv, Mapped, AbstractLists!Next

(***************************************************************************)
(* The body of the loop is a visit of the entry at pos, whether it keeps   *)
(* the entry or deletes it: n is the place that follows in either case.    *)
(***************************************************************************)
LEMMA LoopBodyStep ==
  ASSUME ListInv, LoopBody
  PROVE  ListInv' /\ Mapped
<1>1. PICK q \in [Heads -> Seq(Entries)] : Chain(next, q) /\ LoopAt(q)
  BY DEF ListInv
<1>2. RingsConsistent /\ RingLists = q
  BY <1>1, MappedNow DEF ListInv
<1>3. at = "test" /\ head \in Heads /\ pos # head
  BY <1>1 DEF LoopBody, LoopAt
<1>4. PICK h \in Heads : h = head
  BY <1>3
<1>5. PICK k \in 1 .. Len(q[h]) + 1 : pos = Spot(q[h], h, k) /\ n = next[pos]
  BY <1>1, <1>3, <1>4 DEF LoopAt
<1>6. q[h] \in Seq(Entries) /\ Len(q[h]) \in Nat
  BY <1>1, ListFacts
<1>7. k \in 1 .. Len(q[h]) /\ pos = q[h][k]
  BY <1>3, <1>4, <1>5 DEF Spot
<1>8. pos \in Entries /\ n = Spot(q[h], h, k + 1) /\ next[pos] \notin {NULL, pos}
  BY <1>1, <1>5, <1>7, ListedIsLinked
<1>9. k + 1 \in 1 .. Len(q[h]) + 1
  BY <1>6, <1>7
<1>10. Ahead = Rest(q[h], k)
  BY <1>1, <1>3, <1>4, <1>5, AheadNow
<1>11. Ahead # << >> /\ Head(Ahead) = pos /\ Tail(Ahead) = Rest(q[h], k + 1)
  BY <1>5, <1>6, <1>7, <1>10, RestFacts
<1>12. at' = "advance" /\ n' = n /\ head' = h /\ called' = called
  BY <1>4 DEF LoopBody
<1>13. CASE UNCHANGED <<next, prev>>
  <2>1. Chain(next', q) /\ RingsConsistent'
    BY <1>1, <1>2, <1>13 DEF RingsConsistent
  <2>2. LoopAt(q)'
    BY <1>8, <1>9, <1>12 DEF LoopAt
  <2>3. Ahead' = Rest(q[h], k + 1)
    BY <1>8, <1>9, <1>12, <2>1, AheadNext
  <2>4. RingLists' = RingLists
    BY <1>2, <2>1, MappedNext
  <2>5. AbstractLists!Visit
    BY <1>11, <1>12, <2>3, <2>4 DEF AbstractLists!Visit
  <2> QED BY <2>1, <2>2, <2>5 DEF ListInv, Mapped, AbstractLists!Next
<1>14. CASE list_del(pos) \/ list_del_init(pos)
  <2>1. PICK e \in Entries : e = pos
    BY <1>8
  <2>2. PICK own \in {NULL, e} : Unlink(e, own)
    BY <1>14, <2>1 DEF list_del, list_del_init
  <2>3. next[e] # NULL
    BY <1>8, <2>1
  <2>4. RingsConsistent'
    BY <1>2, <2>2, <2>3, UnlinkKeepsRings
  <2>5. PICK q1 : Chain(next', q1) /\ Removed(q, q1, e)
    BY <1>1, <1>2, <2>2, <2>3, UnlinkChain
  <2>6. AbstractLists!Remove(e)
    BY <1>1, <2>5, RemoveIs
  <2>7. q1 = [q EXCEPT ![h] = AbstractLists!Cut(q[h], k)]
    <3>1. ASSUME NEW g \in Heads, NEW i \in 1 .. Len(q[g]), q[g][i] = e PROVE g = h /\ i = k
      BY <1>1, <1>7, <2>1, <3>1 DEF Chain
    <3> QED BY <1>7, <2>1, <2>5, <3>1 DEF Removed
  <2>8. q1[h] = AbstractLists!Cut(q[h], k) /\ q1 \in [Heads -> Seq(Entries)]
    BY <2>5, <2>7 DEF Chain
  <2>9. /\ Len(q1[h]) = Len(q[h]) - 1 /\ Spot(q1[h], h, k) = Spot(q[h], h, k + 1)
        /\ Rest(q1[h], k) = Rest(q[h], k + 1)
    BY <1>6, <1>7, <2>8, CutRest
  <2>10. k \in 1 .. Len(q1[h]) + 1 /\ n' = Spot(q1[h], h, k)
    BY <1>6, <1>7, <1>8, <1>12, <2>9
  <2>11. LoopAt(q1)'
    BY <1>12, <2>10 DEF LoopAt
  <2>12. Ahead' = Rest(q[h], k + 1)
    BY <1>12, <2>5, <2>9, <2>10, AheadNext
  <2>13. AbstractLists!Visit
    BY <1>11, <1>12, <2>1, <2>6, <2>12 DEF AbstractLists!Visit
  <2> QED BY <2>4, <2>5, <2>8, <2>11, <2>13 DEF ListInv, Mapped, AbstractLists!Next
<1> QED BY <1>13, <1>14 DEF LoopBody

(* Going on to n and leaving the loop are not seen outside. *)
LEMMA LoopTurnStep ==
  ASSUME ListInv, LoopAdvance \/ LoopEnd
  PROVE  ListInv' /\ Mapped
<1>1. PICK q \in [Heads -> Seq(Entries)] : Chain(next, q) /\ LoopAt(q)
  BY DEF ListInv
<1>2. RingsConsistent /\ RingLists = q
  BY <1>1, MappedNow DEF ListInv
<1>3. next' = next /\ prev' = prev /\ head' = head /\ called' = called
  BY DEF LoopAdvance, LoopEnd
<1>4. Chain(next', q) /\ RingsConsistent' /\ RingLists' = RingLists
  <2>1. Chain(next', q) /\ RingsConsistent'
    BY <1>1, <1>2, <1>3 DEF RingsConsistent
  <2> QED BY <1>2, <2>1, MappedNext
<1>5. PICK h \in Heads : h = head
  BY <1>1 DEF LoopAdvance, LoopEnd, LoopAt
<1>6. q[h] \in Seq(Entries) /\ Len(q[h]) \in Nat
  BY <1>1, ListFacts
<1>7. CASE LoopAdvance
  <2>1. PICK k \in 1 .. Len(q[h]) + 1 : n = Spot(q[h], h, k)
    BY <1>1, <1>5, <1>7 DEF LoopAdvance, LoopAt
  <2>2. at' = "test" /\ pos' = n /\ n' = next[n] /\ at = "advance"
    BY <1>7 DEF LoopAdvance
  <2>3. LoopAt(q)'
    BY <1>3, <1>5, <2>1, <2>2 DEF LoopAt
  <2>4. Ahead = Rest(q[h], k)
    BY <1>1, <1>5, <2>1, <2>2, AheadNow
  <2>5. Ahead' = Rest(q[h], k)
    BY <1>3, <1>4, <1>5, <2>1, <2>2, AheadNext
  <2> QED BY <1>1, <1>3, <1>4, <2>3, <2>4, <2>5 DEF ListInv, Mapped, AbstractLists!vars
<1>8. CASE LoopEnd
  <2>1. PICK k \in 1 .. Len(q[h]) + 1 : pos = Spot(q[h], h, k)
    BY <1>1, <1>5, <1>8 DEF LoopEnd, LoopAt
  <2>2. at' = "none" /\ pos = h /\ at = "test"
    BY <1>5, <1>8 DEF LoopEnd
  <2>3. k = Len(q[h]) + 1
    <3>1. k \in 1 .. Len(q[h]) => q[h][k] \in Entries
      BY <1>1, ListedIsLinked
    <3>2. k \notin 1 .. Len(q[h])
      BY <2>1, <2>2, <3>1, ListAssumption DEF Spot
    <3> QED BY <1>6, <3>2
  <2>4. Ahead = Rest(q[h], k) /\ Rest(q[h], k) = << >>
    <3>1. Ahead = Rest(q[h], k)
      BY <1>1, <1>5, <2>1, <2>2, AheadNow
    <3>2. Rest(q[h], k) = << >>
      BY <1>6, <2>3, RestFacts
    <3> QED BY <3>1, <3>2
  <2>5. Ahead' = << >>
    BY <2>2 DEF Ahead
  <2>6. LoopAt(q)'
    BY <2>2 DEF LoopAt
  <2> QED BY <1>1, <1>3, <1>4, <2>4, <2>5, <2>6 DEF ListInv, Mapped, AbstractLists!vars
<1> QED BY <1>7, <1>8

(* Every step keeps the invariant and is a step of the lists, or none. *)
LEMMA ListStep == ListInv /\ [Next]_vars => ListInv' /\ Mapped
<1> SUFFICES ASSUME ListInv, [Next]_vars PROVE ListInv' /\ Mapped
  OBVIOUS
<1>1. ASSUME NEW e \in Entries, NEW h \in Heads, list_add(e, h) \/ list_add_tail(e, h)
      PROVE  ListInv' /\ Mapped
  BY <1>1, AddStep, AddTailStep
<1>2. ASSUME NEW e \in Entries, Delete(e)
      PROVE  ListInv' /\ Mapped
  BY <1>2, DeleteStep
<1>3. ASSUME NEW l \in Heads, NEW h \in Heads, list_splice_init(l, h)
      PROVE  ListInv' /\ Mapped
  BY <1>3, SpliceStep
<1>4. ASSUME NEW h \in Heads, LoopStart(h)
      PROVE  ListInv' /\ Mapped
  BY <1>4, LoopStartStep
<1>5. CASE LoopStep
  BY <1>5, LoopBodyStep, LoopTurnStep DEF LoopStep
<1>6. CASE UNCHANGED vars
  <2>1. ListInv'
    BY <1>6 DEF vars, ListInv, RingsConsistent, LoopAt
  <2>2. RingLists' = RingLists /\ Ahead' = Ahead /\ called' = called
    BY <1>6 DEF vars, RingLists, Ahead
  <2> QED BY <2>1, <2>2 DEF Mapped, AbstractLists!vars
<1> QED BY <1>1, <1>2, <1>3, <1>4, <1>5, <1>6 DEF Next

(* A place of the loop's list is an entry or the loop's own head. *)
LEMMA LoopFromInv == ListInv => LoopOnList
<1> SUFFICES ASSUME ListInv PROVE LoopOnList
  OBVIOUS
<1>1. PICK q \in [Heads -> Seq(Entries)] : Chain(next, q) /\ LoopAt(q)
  BY DEF ListInv
<1>2. ASSUME head \in Heads, NEW k \in 1 .. Len(q[head]) + 1
      PROVE  /\ Spot(q[head], head, k) \in Entries \cup {head}
             /\ next[Spot(q[head], head, k)] # NULL
  <2>1. CASE k \in 1 .. Len(q[head])
    BY <1>1, <1>2, <2>1, ListedIsLinked DEF Spot
  <2>2. CASE k \notin 1 .. Len(q[head])
    BY <1>2, <2>2 DEF Spot, ListInv, RingsConsistent
  <2> QED BY <2>1, <2>2
<1> QED BY <1>1, <1>2 DEF LoopAt, LoopOnList

(***************************************************************************)
(* Whatever is added, deleted, spliced and looped over: the pointers of    *)
(* linked nodes agree in both directions.                                  *)
(***************************************************************************)
THEOREM RingsAlwaysConsistent == Spec => []RingsConsistent
<1>1. ListInv => RingsConsistent
  BY DEF ListInv
<1> QED BY <1>1, ListInit, ListStep, PTL DEF Spec

(***************************************************************************)
(* list_for_each_entry_safe never follows NULL nor leaves its list when    *)
(* its body deletes the entry it is at.                                    *)
(***************************************************************************)
THEOREM LoopStaysOnList == Spec => []LoopOnList
BY ListInit, ListStep, LoopFromInv, PTL DEF Spec

(***************************************************************************)
(* The rings are lists: every function of simpleOSD_list.h does to them    *)
(* what its name says and nothing to the others, and the body of a loop    *)
(* runs once for each entry, in order, whatever it deletes.                *)
(***************************************************************************)
THEOREM ImplementsListsAlways == Spec => ImplementsLists
<1>1. Spec => AbstractLists!Init /\ [][AbstractLists!Next]_(AbstractLists!vars)
  BY ListInit, ListStep, PTL DEF Spec, Mapped
<1> QED BY <1>1 DEF ImplementsLists, AbstractLists!Spec
=============================================================================
