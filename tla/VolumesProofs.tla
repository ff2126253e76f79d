---------------------------- MODULE VolumesProofs ----------------------------
(***************************************************************************)
(* The names and the placement of a volume's objects, for every number of  *)
(* objects, nodes and volumes and every width of an id: ids are digits, so *)
(* the first part is arithmetic.  What a recursive function computes is    *)
(* shown by the least index at which it would fail (LeastNumber).          *)
(***************************************************************************)
EXTENDS Volumes, WellFoundedInduction, TLAPS

-----------------------------------------------------------------------------
(* Induction and recursion over an interval, without operator parameters.  *)

(* The least-number principle for a set. *)
LEMMA LeastNumber ==
  ASSUME NEW T, T \subseteq Nat, T # {}
  PROVE  \E x \in T : \A y \in T : x <= y
<1>1. PICK x \in T : \A y \in T : ~(<<y, x>> \in OpToRel(<, Nat))
  BY NatLessThanWellFounded, WFMin, Zenon
<1>2. ASSUME NEW y \in T PROVE <<y, x>> \in OpToRel(<, Nat) <=> y < x
  BY DEF OpToRel
<1>3. \A y \in T : ~(y < x)
  BY <1>1, <1>2, Zenon
<1> QED BY <1>3

(* Induction: a set that has 0 and the successors of its elements. *)
LEMMA Induction ==
  ASSUME NEW n \in Nat, NEW S, 0 \in S,
         \A k \in 1 .. n : k - 1 \in S => k \in S
  PROVE  0 .. n \subseteq S
<1> DEFINE T == (0 .. n) \ S
<1> SUFFICES ASSUME T # {} PROVE FALSE
  OBVIOUS
<1>1. T \subseteq Nat
  OBVIOUS
<1>2. PICK x \in T : \A y \in T : x <= y
  <2> HIDE DEF T
  <2> QED BY <1>1, LeastNumber, Zenon
<1>3. x \in 1 .. n /\ x - 1 \in 0 .. n
  BY <1>2
<1>4. x - 1 \in S
  BY <1>2, <1>3
<1> QED BY <1>2, <1>3, <1>4

(* A step function h and a first value a have a function that iterates h. *)
LEMMA Iterates ==
  ASSUME NEW n \in Nat, NEW a \in Int, NEW h \in [1 .. n -> [Int -> Int]]
  PROVE  \E g \in [0 .. n -> Int] :
           g[0] = a /\ \A i \in 1 .. n : g[i] = h[i][g[i - 1]]
<1> DEFINE Good(m, g) == g[0] = a /\ \A i \in 1 .. m : g[i] = h[i][g[i - 1]]
           S == {m \in 0 .. n : \E g \in [0 .. m -> Int] : Good(m, g)}
<1>1. 0 \in S
  <2> DEFINE g == [i \in 0 .. 0 |-> a]
  <2>1. g \in [0 .. 0 -> Int] /\ Good(0, g)
    OBVIOUS
  <2>2. 0 \in 0 .. n
    OBVIOUS
  <2> QED BY <2>1, <2>2, Zenon
<1>2. ASSUME NEW k \in 1 .. n, k - 1 \in S PROVE k \in S
  <2>1. PICK g \in [0 .. k - 1 -> Int] : Good(k - 1, g)
    BY <1>2
  <2> DEFINE e == [i \in 0 .. k |-> IF i = k THEN h[k][g[k - 1]] ELSE g[i]]
  <2>2. h[k][g[k - 1]] \in Int
    BY <2>1
  <2>3. e \in [0 .. k -> Int]
    BY <2>1, <2>2
  <2>4. e[0] = a
    BY <2>1
  <2>5. ASSUME NEW i \in 1 .. k PROVE e[i] = h[i][e[i - 1]]
    <3>1. CASE i = k
      BY <3>1
    <3>2. CASE i # k
      <4>1. i \in 1 .. k - 1 /\ i \in 0 .. k /\ i - 1 \in 0 .. k /\ i - 1 # k
        BY <3>2
      <4> QED BY <2>1, <4>1, <3>2
    <3> QED BY <3>1, <3>2
  <2>6. k \in 0 .. n
    OBVIOUS
  <2> HIDE DEF e
  <2> QED BY <2>3, <2>4, <2>5, <2>6, Zenon
<1>3. 0 .. n \subseteq S
  <2> HIDE DEF S
  <2> QED BY <1>1, <1>2, Induction
<1>4. n \in S
  <2>1. n \in 0 .. n
    OBVIOUS
  <2> QED BY <1>3, <2>1, Zenon
<1> QED BY <1>4, Zenon

-----------------------------------------------------------------------------
(* Quotients, and the placement of the objects on the nodes.               *)

(* What \div means, for the provers. *)
LEMMA DivBounds ==
  ASSUME NEW a \in Nat, NEW k \in Nat \ {0}
  PROVE  /\ a \div k \in Nat
         /\ (a \div k) * k <= a
         /\ a < (a \div k) * k + k
BY SMT

(* The converse, by which a quotient is recognised. *)
LEMMA DivUnique ==
  ASSUME NEW a \in Nat, NEW k \in Nat \ {0}, NEW q \in Nat,
         q * k <= a, a < q * k + k
  PROVE  a \div k = q
BY SMT

(* A smaller multiple of k is smaller by at least k. *)
LEMMA TimesMonotone ==
  ASSUME NEW a \in Nat, NEW b \in Nat, NEW k \in Nat \ {0}, a < b
  PROVE  a * k + k <= b * k
BY SMT

(* A node starts at most one behind the end of the node in front of it. *)
LEMMA NoGap ==
  ASSUME NEW n \in Nat, NEW k \in Nat \ {0}, NEW loop \in Nat
  PROVE  ((loop + 1) * n) \div k <= (loop * n) \div k + n \div k + 1
<1> DEFINE s == (loop * n) \div k
           q == n \div k
           e == ((loop + 1) * n) \div k
<1>1. /\ loop * n \in Nat /\ (loop + 1) * n \in Nat
      /\ (loop + 1) * n = loop * n + n
  BY SMT
<1>2. s \in Nat /\ loop * n < s * k + k
  BY <1>1, DivBounds
<1>3. q \in Nat /\ n < q * k + k
  BY DivBounds
<1>4. e \in Nat /\ e * k <= loop * n + n
  BY <1>1, DivBounds
<1> HIDE DEF s, q, e
<1>5. e * k < s * k + q * k + 2 * k
  BY <1>1, <1>2, <1>3, <1>4, SMT
<1>6. e < s + q + 2
  <2> SUFFICES ASSUME s + q + 2 <= e PROVE FALSE
    BY <1>2, <1>3, <1>4, SMT
  <2>1. (s + q + 2) * k <= e * k
    BY <1>2, <1>3, <1>4, SMT
  <2>2. (s + q + 2) * k = s * k + q * k + 2 * k
    BY <1>2, <1>3, SMT
  <2> QED BY <2>1, <2>2, <1>2, <1>3, <1>4, <1>5, SMT
<1> QED BY <1>2, <1>3, <1>4, <1>6, SMT DEF s, q, e

(* n \div k is monotone in the form the lookup needs. *)
LEMMA DivCompare ==
  ASSUME NEW a \in Nat, NEW k \in Nat \ {0}, NEW i \in Nat
  PROVE  /\ a <= i * k => a \div k <= i
         /\ i * k < a => i <= a \div k
<1> DEFINE q == a \div k
<1>1. q \in Nat /\ q * k <= a /\ a < q * k + k
  BY DivBounds
<1> HIDE DEF q
<1>2. ASSUME a <= i * k, i < q PROVE FALSE
  BY <1>1, <1>2, TimesMonotone, SMT
<1>3. ASSUME i * k < a, q < i PROVE FALSE
  BY <1>1, <1>3, TimesMonotone, SMT
<1> QED BY <1>1, <1>2, <1>3, SMT DEF q

(***************************************************************************)
(* The node that has object i: the one the object's share of the nodes     *)
(* falls on, or the next one if the rest of the division pushes it there.  *)
(***************************************************************************)
LEMMA SomeNode ==
  ASSUME NEW n \in Nat, NEW k \in Nat \ {0}, NEW i \in Nat, i < n
  PROVE  \E loop \in 0 .. k - 1 :
           /\ (loop * n) \div k <= i
           /\ i <= (loop * n) \div k + n \div k
<1> DEFINE l == (i * k) \div n
<1>1. n \in Nat \ {0} /\ i * k \in Nat
  BY SMT
<1>2. l \in Nat /\ l * n <= i * k /\ i * k < l * n + n
  BY <1>1, DivBounds
<1> HIDE DEF l
<1>3. l < k
  <2> SUFFICES ASSUME k <= l PROVE FALSE
    BY <1>2, SMT
  <2>1. k * n <= l * n
    BY <1>1, <1>2, SMT
  <2>2. i * k + k <= n * k
    BY TimesMonotone
  <2> QED BY <2>1, <2>2, <1>1, <1>2, SMT
<1>4. l * n \in Nat /\ (l + 1) * n \in Nat /\ (l + 1) * n = l * n + n
  BY <1>2, SMT
<1>5. (l * n) \div k <= i
  BY <1>2, <1>4, DivCompare
<1>6. i <= ((l + 1) * n) \div k
  BY <1>2, <1>4, DivCompare
<1>7. ((l + 1) * n) \div k <= (l * n) \div k + n \div k + 1
  BY <1>2, NoGap
<1>8. (l * n) \div k \in Nat /\ ((l + 1) * n) \div k \in Nat /\ n \div k \in Nat
  BY <1>4, DivBounds
<1>9. CASE i <= (l * n) \div k + n \div k
  <2>1. l \in 0 .. k - 1
    BY <1>2, <1>3, SMT
  <2> QED BY <2>1, <1>5, <1>9, Zenon
<1>10. CASE ~(i <= (l * n) \div k + n \div k)
  <2>1. i = ((l + 1) * n) \div k
    BY <1>6, <1>7, <1>8, <1>10, SMT
  <2>2. l + 1 # k
    <3> SUFFICES ASSUME l + 1 = k PROVE FALSE
      OBVIOUS
    <3>1. (k * n) \div k = n
      BY DivUnique, SMT
    <3> QED BY <2>1, <3>1, SMT
  <2>3. l + 1 \in 0 .. k - 1
    BY <1>2, <1>3, <2>2, SMT
  <2>4. i <= ((l + 1) * n) \div k + n \div k
    BY <2>1, <1>8, SMT
  <2>5. ((l + 1) * n) \div k <= i
    BY <2>1, <1>8, SMT
  <2> QED BY <2>3, <2>4, <2>5, Zenon
<1> QED BY <1>9, <1>10

(* get_dpnode_ip_from_index succeeds for every object of a volume. *)
THEOREM LookupTotal == \A i \in Indexes : DpNodeFound(i)
<1> SUFFICES ASSUME NEW i \in Indexes PROVE DpNodeFound(i)
  OBVIOUS
<1>1. i \in Nat /\ i < TEST_NB_OBJECTS
  BY VolumesAssumption, SMT DEF Indexes
<1>2. PICK loop \in 0 .. TEST_DP_NODES - 1 :
        /\ (loop * TEST_NB_OBJECTS) \div TEST_DP_NODES <= i
        /\ i <= (loop * TEST_NB_OBJECTS) \div TEST_DP_NODES + TEST_NB_OBJECTS \div TEST_DP_NODES
  BY <1>1, SomeNode, VolumesAssumption
<1> QED BY <1>2 DEF DpNodeFound, Nodes, NodeStart, NodeRange

(***************************************************************************)
(* No use of an object of an open volume ends for want of a node, whatever *)
(* volumes are opened, closed and restarted in between.                    *)
(***************************************************************************)
THEOREM EveryObjectPlacedAlways == Spec => []EveryObjectPlaced
<1>1. Init => EveryObjectPlaced
  BY DEF Init, EveryObjectPlaced
<1>2. EveryObjectPlaced /\ [Next]_vars => EveryObjectPlaced'
  <2> SUFFICES ASSUME EveryObjectPlaced, [Next]_vars PROVE EveryObjectPlaced'
    OBVIOUS
  <2>1. ASSUME NEW v \in VolumeNames, NEW i \in Touched, Use(v, i)
        PROVE  EveryObjectPlaced'
    <3>1. DpNodeFound(i)
      BY LookupTotal, VolumesAssumption
    <3> QED BY <2>1, <3>1 DEF Use, EveryObjectPlaced
  <2>2. CASE UNCHANGED vars
    BY <2>2 DEF vars, EveryObjectPlaced
  <2>3. CASE Construct \/ Tick \/ Restart
    BY <2>3 DEF Construct, Tick, Restart, EveryObjectPlaced
  <2>4. ASSUME NEW v \in VolumeNames, Open(v) \/ Close(v)
        PROVE  EveryObjectPlaced'
    BY <2>4 DEF Open, Close, EveryObjectPlaced
  <2> QED BY <2>1, <2>2, <2>3, <2>4 DEF Next
<1> QED BY <1>1, <1>2, PTL DEF Spec

-----------------------------------------------------------------------------
(* The weights of the bytes, and numbers cut into digits.                  *)

(* The lengths, once and for all. *)
LEMMA Lengths ==
  /\ MAXOIDLEN \in Nat /\ TimeLen \in Nat /\ CounterLen \in Nat
  /\ TimeLen >= 1 /\ CounterLen >= 1 /\ MAXOIDLEN = TimeLen + CounterLen
  /\ Base \in Nat /\ Base > 0
BY VolumesAssumption

(* The recursion of Power has a solution, which is positive. *)
LEMMA PowerFacts ==
  /\ Power[0] = 1
  /\ \A k \in 1 .. MAXOIDLEN : Power[k] = Base * Power[k - 1]
  /\ \A k \in 0 .. MAXOIDLEN : Power[k] \in Nat \ {0}
<1> DEFINE n == MAXOIDLEN
           h == [i \in 1 .. n |-> [x \in Int |-> Base * x]]
           Sol(g) == g = [k \in 0 .. n |-> IF k = 0 THEN 1 ELSE Base * g[k - 1]]
           S == {k \in 0 .. n : Power[k] \in Nat \ {0}}
<1>1. n \in Nat /\ Base \in Nat /\ Base > 0
  BY Lengths
<1>2. h \in [1 .. n -> [Int -> Int]]
  BY <1>1
<1>3. PICK g \in [0 .. n -> Int] : g[0] = 1 /\ \A i \in 1 .. n : g[i] = h[i][g[i - 1]]
  <2>1. 1 \in Int
    OBVIOUS
  <2> HIDE DEF n, h
  <2> QED BY <1>1, <1>2, <2>1, Iterates, Zenon
<1>4. Sol(g)
  <2>1. ASSUME NEW i \in 1 .. n PROVE g[i] = Base * g[i - 1]
    <3>1. g[i - 1] \in Int /\ g[i] = h[i][g[i - 1]]
      <4>1. i - 1 \in 0 .. n
        BY <1>1
      <4> HIDE DEF n, h
      <4> QED BY <1>3, <4>1
    <3>2. h[i] = [x \in Int |-> Base * x]
      OBVIOUS
    <3> HIDE DEF h
    <3> QED BY <3>1, <3>2
  <2> QED BY <1>1, <1>3, <2>1
<1>5. Sol(Power)
  BY <1>4, Zenon DEF Power
<1>6. /\ Power[0] = 1
      /\ \A k \in 1 .. n : Power[k] = Base * Power[k - 1]
  BY <1>1, <1>5
<1>7. 0 .. n \subseteq S
  <2>1. 0 \in S
    BY <1>1, <1>6
  <2>2. ASSUME NEW k \in 1 .. n, k - 1 \in S PROVE k \in S
    <3>1. Power[k - 1] \in Nat \ {0} /\ Power[k] = Base * Power[k - 1]
      BY <2>2, <1>6
    <3>2. Base * Power[k - 1] \in Nat \ {0}
      BY <3>1, <1>1
    <3> QED BY <3>1, <3>2, <1>1
  <2> HIDE DEF S, n
  <2> QED BY <1>1, <2>1, <2>2, Induction
<1> QED BY <1>6, <1>7

(* Quotient and rest. *)
LEMMA QuotientRest ==
  ASSUME NEW a \in Nat, NEW k \in Nat \ {0}
  PROVE  /\ a \div k \in Nat /\ a % k \in 0 .. k - 1
         /\ a = (a \div k) * k + (a % k)
BY SMT

(* They are the only ones. *)
LEMMA RestUnique ==
  ASSUME NEW k \in Nat \ {0}, NEW q \in Nat, NEW r \in 0 .. k - 1
  PROVE  (q * k + r) % k = r
<1> DEFINE a == q * k + r
           p == a \div k
           s == a % k
<1>1. a \in Nat
  OBVIOUS
<1>2. p \in Nat /\ s \in 0 .. k - 1 /\ a = p * k + s
  BY <1>1, QuotientRest
<1>3. p = q
  BY <1>1, DivUnique
<1> HIDE DEF p, s
<1> QED BY <1>2, <1>3 DEF s

(* One more digit of a number: the step of every induction on digits. *)
LEMMA OneMoreDigit ==
  ASSUME NEW a \in Nat, NEW p \in Nat \ {0}, NEW b \in Nat \ {0}
  PROVE  a % (b * p) = (a % p) + ((a \div p) % b) * p
<1> DEFINE q == a \div p
           r == a % p
           u == q \div b
           d == q % b
<1>1. q \in Nat /\ r \in 0 .. p - 1 /\ a = q * p + r
  BY QuotientRest
<1>2. u \in Nat /\ d \in 0 .. b - 1 /\ q = u * b + d
  BY <1>1, QuotientRest
<1> HIDE DEF q, r, u, d
<1>3. a = u * (b * p) + (d * p + r)
  <2>1. q * p = (u * b) * p + d * p
    BY <1>2
  <2>2. (u * b) * p = u * (b * p)
    BY <1>2
  <2> QED BY <1>1, <1>2, <2>1, <2>2
<1>4. d * p + r \in 0 .. b * p - 1
  <2>1. d * p + p <= b * p
    BY <1>2, TimesMonotone
  <2>2. d * p \in Nat /\ b * p \in Nat
    BY <1>2
  <2> QED BY <1>1, <2>1, <2>2
<1>5. b * p \in Nat \ {0}
  OBVIOUS
<1> DEFINE m == b * p
           e == d * p + r
<1>6. (u * m + e) % m = e
  <2>1. m \in Nat \ {0} /\ e \in 0 .. m - 1
    BY <1>4, <1>5
  <2> HIDE DEF m, e
  <2> QED BY <2>1, <1>2, RestUnique
<1>7. a % (b * p) = d * p + r
  BY <1>3, <1>6
<1>8. d * p \in Nat
  BY <1>2
<1>9. a % (b * p) = r + d * p
  BY <1>1, <1>7, <1>8
<1> QED BY <1>9 DEF q, r, d

-----------------------------------------------------------------------------
(* What Counter computes, and what an id is made of.                       *)

(* An id: a digit in every byte. *)
Ids == [Bytes -> 0 .. Base - 1]

(* The function that Counter computes byte by byte from the end. *)
IsValue(oid, v) ==
  /\ v \in [0 .. CounterLen -> Nat]
  /\ v[0] = 0
  /\ \A k \in 1 .. CounterLen : v[k] = v[k - 1] + oid[MAXOIDLEN - k] * Power[k - 1]

(* The recursion of Counter has a solution. *)
LEMMA CounterValue ==
  ASSUME NEW oid \in Ids
  PROVE  \E v : IsValue(oid, v) /\ Counter(oid) = v[CounterLen]
<1> DEFINE n == CounterLen
           w == [i \in 1 .. n |-> oid[MAXOIDLEN - i] * Power[i - 1]]
           h == [i \in 1 .. n |-> [x \in Int |-> x + w[i]]]
           Sol(g) == g = [k \in 0 .. n |->
             IF k = 0 THEN 0 ELSE g[k - 1] + oid[MAXOIDLEN - k] * Power[k - 1]]
           f == CHOOSE g : Sol(g)
           S == {k \in 0 .. n : f[k] \in Nat}
<1>1. n \in Nat
  BY Lengths
<1>2. ASSUME NEW i \in 1 .. n PROVE oid[MAXOIDLEN - i] * Power[i - 1] \in Nat
  <2>1. MAXOIDLEN - i \in Bytes /\ i - 1 \in 0 .. MAXOIDLEN
    BY Lengths DEF Bytes
  <2>2. oid[MAXOIDLEN - i] \in Nat
    BY <2>1, Lengths DEF Ids
  <2>3. Power[i - 1] \in Nat
    BY <2>1, PowerFacts
  <2> HIDE DEF n
  <2> QED BY <2>2, <2>3
<1>3. w \in [1 .. n -> Nat]
  BY <1>2
<1>4. h \in [1 .. n -> [Int -> Int]]
  <2> HIDE DEF w, n
  <2> QED BY <1>3
<1>5. PICK g \in [0 .. n -> Int] : g[0] = 0 /\ \A i \in 1 .. n : g[i] = h[i][g[i - 1]]
  <2>1. 0 \in Int
    OBVIOUS
  <2> HIDE DEF n, h
  <2> QED BY <1>1, <1>4, <2>1, Iterates, Zenon
<1>6. Sol(g)
  <2>1. ASSUME NEW i \in 1 .. n PROVE g[i] = g[i - 1] + oid[MAXOIDLEN - i] * Power[i - 1]
    <3>1. g[i - 1] \in Int /\ g[i] = h[i][g[i - 1]]
      <4>1. i - 1 \in 0 .. n
        BY <1>1
      <4> HIDE DEF n, h
      <4> QED BY <1>5, <4>1
    <3>2. h[i] = [x \in Int |-> x + w[i]]
      OBVIOUS
    <3>3. w[i] = oid[MAXOIDLEN - i] * Power[i - 1]
      OBVIOUS
    <3>4. g[i] = g[i - 1] + w[i]
      <4> HIDE DEF h, w
      <4> QED BY <3>1, <3>2
    <3> HIDE DEF w
    <3> QED BY <3>3, <3>4
  <2> HIDE DEF n, h, w
  <2> QED BY <1>1, <1>5, <2>1
<1>7. Sol(f)
  <2> HIDE DEF Sol
  <2> QED BY <1>6, Zenon
<1>8. Counter(oid) = f[n]
  BY Zenon DEF Counter
<1> HIDE DEF f
<1>9. f[0] = 0 /\ \A k \in 1 .. n : f[k] = f[k - 1] + oid[MAXOIDLEN - k] * Power[k - 1]
  BY <1>1, <1>7
<1>10. 0 .. n \subseteq S
  <2>1. 0 \in S
    BY <1>1, <1>9
  <2>2. ASSUME NEW k \in 1 .. n, k - 1 \in S PROVE k \in S
    <3>1. f[k] \in Nat
      BY <1>2, <1>9, <2>2
    <3> QED BY <1>1, <3>1
  <2> HIDE DEF S, n
  <2> QED BY <1>1, <2>1, <2>2, Induction
<1>11. f \in [0 .. n -> Nat]
  <2>1. f = [k \in 0 .. n |-> f[k]]
    BY <1>7
  <2>2. \A k \in 0 .. n : f[k] \in Nat
    BY <1>10
  <2> QED BY <2>1, <2>2
<1>12. IsValue(oid, f)
  BY <1>9, <1>11 DEF IsValue
<1> QED BY <1>8, <1>12

(* The counter of an id is its value at the end. *)
LEMMA CounterNat ==
  ASSUME NEW oid \in Ids
  PROVE  Counter(oid) \in Nat
<1>1. PICK v : IsValue(oid, v) /\ Counter(oid) = v[CounterLen]
  BY CounterValue
<1>2. CounterLen \in 0 .. CounterLen
  BY Lengths
<1> QED BY <1>1, <1>2 DEF IsValue

(* The modulus of the counter. *)
LEMMA CounterModNat == CounterMod \in Nat \ {0}
<1>1. CounterLen \in 0 .. MAXOIDLEN
  BY Lengths
<1> QED BY <1>1, PowerFacts DEF CounterMod

(* Two numbers with the same first n digits are equal modulo the weight of *)
(* digit n.                                                                *)
LEMMA SameDigits ==
  ASSUME NEW n \in 0 .. MAXOIDLEN, NEW a \in Nat, NEW b \in Nat,
         \A k \in 1 .. n : (a \div Power[k - 1]) % Base = (b \div Power[k - 1]) % Base
  PROVE  a % Power[n] = b % Power[n]
<1> DEFINE S == {k \in 0 .. n : a % Power[k] = b % Power[k]}
<1>1. n \in Nat /\ n <= MAXOIDLEN /\ MAXOIDLEN \in Nat
  BY Lengths
<1>2. 0 \in S
  <2>1. a % 1 = b % 1
    OBVIOUS
  <2> QED BY <1>1, <2>1, PowerFacts
<1>3. ASSUME NEW k \in 1 .. n, k - 1 \in S PROVE k \in S
  <2> DEFINE p == Power[k - 1]
  <2>1. /\ p \in Nat \ {0} /\ Base \in Nat \ {0}
        /\ Power[k] = Base * p
    BY <1>1, PowerFacts, Lengths
  <2>2. a % p = b % p /\ (a \div p) % Base = (b \div p) % Base
    BY <1>3
  <2> HIDE DEF p
  <2>3. /\ a % (Base * p) = (a % p) + ((a \div p) % Base) * p
        /\ b % (Base * p) = (b % p) + ((b \div p) % Base) * p
    BY <2>1, OneMoreDigit
  <2>4. a % Power[k] = b % Power[k]
    BY <2>1, <2>2, <2>3, Zenon
  <2>5. k \in 0 .. n
    BY <1>1
  <2> QED BY <2>4, <2>5
<1>4. 0 .. n \subseteq S
  <2> HIDE DEF S
  <2> QED BY <1>1, <1>2, <1>3, Induction
<1>5. n \in 0 .. n
  BY <1>1
<1> QED BY <1>4, <1>5, Zenon

(* osd_get_index_to_object keeps an id an id. *)
LEMMA IndexToOidType ==
  ASSUME NEW start \in Ids, NEW index \in Nat
  PROVE  IndexToOid(start, index) \in Ids
<1> DEFINE c == (Counter(start) + index) % CounterMod
<1>1. c \in Nat
  BY CounterNat, CounterModNat
<1>2. ASSUME NEW b \in Bytes PROVE CounterByte(c, b) \in 0 .. Base - 1
  <2>1. MAXOIDLEN - 1 - b \in 0 .. MAXOIDLEN
    BY Lengths DEF Bytes
  <2>2. Power[MAXOIDLEN - 1 - b] \in Nat \ {0}
    BY <2>1, PowerFacts
  <2> HIDE DEF c
  <2>3. c \div Power[MAXOIDLEN - 1 - b] \in Nat
    BY <1>1, <2>2, QuotientRest
  <2>4. Base \in Nat \ {0}
    BY Lengths
  <2> QED BY <2>3, <2>4, QuotientRest DEF CounterByte
<1> HIDE DEF c
<1>3. ASSUME NEW b \in Bytes PROVE start[b] \in 0 .. Base - 1
  BY DEF Ids
<1> QED BY <1>2, <1>3 DEF IndexToOid, Ids, c

(***************************************************************************)
(* The bytes that osd_get_index_to_object writes are the digits of the     *)
(* sum, so the counter it makes is the sum: by induction on the bytes, the *)
(* last k of them hold the sum modulo the weight of byte k.                *)
(***************************************************************************)
LEMMA CounterOfSum ==
  ASSUME NEW start \in Ids, NEW index \in Nat
  PROVE  Counter(IndexToOid(start, index)) = (Counter(start) + index) % CounterMod
<1> DEFINE c == (Counter(start) + index) % CounterMod
           oid == IndexToOid(start, index)
<1>1. c \in 0 .. CounterMod - 1 /\ CounterMod \in Nat \ {0}
  BY CounterNat, CounterModNat
<1>2. oid \in Ids
  BY IndexToOidType
<1>3. ASSUME NEW k \in 1 .. CounterLen
      PROVE  oid[MAXOIDLEN - k] = (c \div Power[k - 1]) % Base
  <2>1. MAXOIDLEN - k \in CounterBytes /\ MAXOIDLEN - k \in Bytes
    BY Lengths DEF CounterBytes, Bytes
  <2>2. oid[MAXOIDLEN - k] = CounterByte(c, MAXOIDLEN - k)
    BY <2>1, Zenon DEF IndexToOid
  <2>3. MAXOIDLEN - 1 - (MAXOIDLEN - k) = k - 1
    BY Lengths
  <2> HIDE DEF c, oid
  <2> QED BY <2>2, <2>3 DEF CounterByte
<1> HIDE DEF c, oid
<1>4. PICK v : IsValue(oid, v) /\ Counter(oid) = v[CounterLen]
  BY <1>2, CounterValue
<1> DEFINE S == {k \in 0 .. CounterLen : v[k] = c % Power[k]}
<1>5. CounterLen \in Nat /\ CounterLen <= MAXOIDLEN /\ MAXOIDLEN \in Nat
  BY Lengths
<1>6. 0 \in S
  <2>1. c % 1 = 0
    BY <1>1
  <2> QED BY <1>4, <1>5, <2>1, PowerFacts DEF IsValue
<1>7. ASSUME NEW k \in 1 .. CounterLen, k - 1 \in S PROVE k \in S
  <2> DEFINE p == Power[k - 1]
  <2>1. /\ p \in Nat \ {0} /\ Base \in Nat \ {0}
        /\ Power[k] = Base * p
    BY <1>5, PowerFacts, Lengths
  <2>2. v[k] = (c % p) + ((c \div p) % Base) * p
    <3>1. v[k] = v[k - 1] + oid[MAXOIDLEN - k] * p
      BY <1>4 DEF IsValue
    <3>2. v[k - 1] = c % p
      BY <1>7
    <3> QED BY <1>3, <3>1, <3>2
  <2> HIDE DEF p
  <2>3. c % (Base * p) = (c % p) + ((c \div p) % Base) * p
    <3>1. c \in Nat
      BY <1>1
    <3> QED BY <2>1, <3>1, OneMoreDigit
  <2>4. v[k] = c % Power[k]
    BY <2>1, <2>2, <2>3, Zenon
  <2>5. k \in 0 .. CounterLen
    BY <1>5
  <2> QED BY <2>4, <2>5
<1>8. CounterLen \in S
  <2>1. CounterLen \in 0 .. CounterLen
    BY <1>5
  <2>2. 0 .. CounterLen \subseteq S
    <3> HIDE DEF S
    <3> QED BY <1>5, <1>6, <1>7, Induction
  <2> QED BY <2>1, <2>2, Zenon
<1>9. Counter(oid) = c % CounterMod
  BY <1>4, <1>8 DEF CounterMod
<1>10. c % CounterMod = c
  BY <1>1
<1> QED BY <1>9, <1>10 DEF c, oid

(* The first id of a volume is an id. *)
LEMMA StartOidType ==
  ASSUME NEW time \in Nat
  PROVE  StartOid(time) \in Ids
<1>1. ASSUME NEW b \in Bytes, b \in 1 .. TimeLen
      PROVE  (time \div Power[b - 1]) % Base \in 0 .. Base - 1
  <2>1. b - 1 \in 0 .. MAXOIDLEN
    BY <1>1, Lengths
  <2>2. Power[b - 1] \in Nat \ {0}
    BY <2>1, PowerFacts
  <2>3. time \div Power[b - 1] \in Nat
    BY <2>2, QuotientRest
  <2>4. Base \in Nat \ {0}
    BY Lengths
  <2> QED BY <2>3, <2>4, QuotientRest
<1>2. 0 \in 0 .. Base - 1
  BY Lengths
<1> QED BY <1>1, <1>2 DEF StartOid, Ids

(* Two indexes that the counter tells apart stay apart when it wraps. *)
LEMMA SumsDiffer ==
  ASSUME NEW m \in Nat \ {0}, NEW c \in Nat, NEW i \in 0 .. m - 1, NEW j \in 0 .. m - 1,
         (c + i) % m = (c + j) % m
  PROVE  i = j
<1> DEFINE p == (c + i) \div m
           q == (c + j) \div m
           r == (c + i) % m
<1>0. c + i \in Nat /\ c + j \in Nat
  OBVIOUS
<1>1. p \in Nat /\ r \in 0 .. m - 1 /\ c + i = p * m + r
  BY <1>0, QuotientRest, Zenon
<1>2. q \in Nat /\ c + j = q * m + r
  <2>1. q \in Nat /\ c + j = q * m + ((c + j) % m)
    BY <1>0, QuotientRest, Zenon
  <2> QED BY <2>1, Zenon
<1> HIDE DEF p, q, r
<1>3. CASE p < q
  <2>1. p * m + m <= q * m
    BY <1>1, <1>2, <1>3, TimesMonotone
  <2>2. p * m \in Nat /\ q * m \in Nat
    BY <1>1, <1>2
  <2> QED BY <1>1, <1>2, <2>1, <2>2
<1>4. CASE q < p
  <2>1. q * m + m <= p * m
    BY <1>1, <1>2, <1>4, TimesMonotone
  <2>2. p * m \in Nat /\ q * m \in Nat
    BY <1>1, <1>2
  <2> QED BY <1>1, <1>2, <2>1, <2>2
<1>5. CASE p = q
  <2>1. p * m \in Nat
    BY <1>1
  <2> QED BY <1>1, <1>2, <1>5, <2>1
<1> QED BY <1>1, <1>2, <1>3, <1>4, <1>5

(***************************************************************************)
(* An id tells when its volume was opened and which object it is: the      *)
(* clock is in the bytes in front of the counter, which the addition does  *)
(* not touch, and for one start the counter tells the index.               *)
(***************************************************************************)
LEMMA NamesDiffer ==
  ASSUME NEW s \in 0 .. MaxTime, NEW t \in 0 .. MaxTime, NEW i \in Indexes, NEW j \in Indexes,
         IndexToOid(StartOid(s), i) = IndexToOid(StartOid(t), j)
  PROVE  s = t /\ i = j
<1>1. s \in Nat /\ t \in Nat /\ i \in Nat /\ j \in Nat
  BY VolumesAssumption DEF Indexes
<1>2. s = t
  <2> DEFINE n == TimeLen - 1
             w == Power[n]
  <2>1. n \in 0 .. MAXOIDLEN
    BY Lengths
  <2>2. ASSUME NEW k \in 1 .. n
        PROVE  (s \div Power[k - 1]) % Base = (t \div Power[k - 1]) % Base
    <3>1. k \in Bytes /\ k \notin CounterBytes /\ k \in 1 .. TimeLen
      BY Lengths DEF Bytes, CounterBytes
    <3>2. /\ IndexToOid(StartOid(s), i)[k] = StartOid(s)[k]
          /\ IndexToOid(StartOid(t), j)[k] = StartOid(t)[k]
      BY <3>1, Zenon DEF IndexToOid
    <3>3. /\ StartOid(s)[k] = (s \div Power[k - 1]) % Base
          /\ StartOid(t)[k] = (t \div Power[k - 1]) % Base
      BY <3>1, Zenon DEF StartOid
    <3> QED BY <3>2, <3>3, Zenon
  <2>3. s % w = t % w
    <3> HIDE DEF n
    <3> QED BY <1>1, <2>1, <2>2, SameDigits
  <2>4. w \in Nat \ {0} /\ s < w /\ t < w
    BY <1>1, <2>1, PowerFacts, VolumesAssumption
  <2> HIDE DEF n, w
  <2> QED BY <1>1, <2>3, <2>4
<1>3. i = j
  <2> DEFINE c == Counter(StartOid(s))
  <2>1. StartOid(s) \in Ids
    BY <1>1, StartOidType
  <2>2. c \in Nat
    BY <2>1, CounterNat
  <2>3. (c + i) % CounterMod = (c + j) % CounterMod
    BY <1>1, <1>2, <2>1, CounterOfSum, Zenon
  <2>4. i \in 0 .. CounterMod - 1 /\ j \in 0 .. CounterMod - 1 /\ CounterMod \in Nat \ {0}
    BY <1>1, CounterModNat, VolumesAssumption DEF Indexes
  <2> HIDE DEF c
  <2> QED BY <2>2, <2>3, <2>4, SumsDiffer
<1> QED BY <1>2, <1>3

-----------------------------------------------------------------------------
(* The volumes.                                                            *)

(* A use of a file, as Use records it. *)
Named(o) ==
  \E d \in {None, conf}, v \in VolumeNames, t \in 0 .. MaxTime, i \in Indexes :
    LET oid == IndexToOid(StartOid(t), i)
    IN  o = <<<<d, v, oid[MAXOIDLEN - 1], oid[MAXOIDLEN - 2], oid>>, v, t, i>>

(***************************************************************************)
(* The inductive invariant: an open volume has the first id of the moment  *)
(* it was opened at, and every use of a file is recorded with the names    *)
(* that its path was made of.                                              *)
(***************************************************************************)
VolumesInv ==
  /\ VolumesTypeOK
  /\ \A v \in VolumeNames : IsOpen(v) => lun[v].start_object = StartOid(lun[v].opened)
  /\ \A o \in owner : Named(o)

(* A closed volume is of the type. *)
LEMMA ClosedType ==
  ASSUME NEW n \in Nat
  PROVE  Closed \in [start_object : Ids, opened : -1 .. n]
<1>1. 0 \in 0 .. Base - 1 /\ -1 \in -1 .. n
  BY Lengths
<1> QED BY <1>1 DEF Closed, Ids

(* Nothing is open and no file in use at the start. *)
LEMMA VolumesInvInit == Init => VolumesInv
<1> SUFFICES ASSUME Init PROVE VolumesInv
  OBVIOUS
<1>1. lun \in [VolumeNames -> [start_object : Ids, opened : -1 .. clock]]
  BY ClosedType DEF Init
<1>2. VolumesTypeOK
  BY <1>1, VolumesAssumption DEF Init, VolumesTypeOK, Ids
<1>3. ASSUME NEW v \in VolumeNames PROVE ~IsOpen(v)
  <2>1. lun[v].opened = -1
    BY DEF Init, Closed
  <2> QED BY <2>1 DEF IsOpen
<1> QED BY <1>2, <1>3 DEF VolumesInv, Init

(* Every step keeps it. *)
LEMMA VolumesInvStep == VolumesInv /\ [Next]_vars => VolumesInv'
<1> SUFFICES ASSUME VolumesInv, [Next]_vars PROVE VolumesInv'
  OBVIOUS
<1> DEFINE Luns(n) == [VolumeNames -> [start_object : Ids, opened : -1 .. n]]
           Starts == \A v \in VolumeNames : IsOpen(v) => lun[v].start_object = StartOid(lun[v].opened)
<1>1. /\ phase \in {"load", "run"} /\ dc_path \in {None, conf}
      /\ clock \in 0 .. MaxTime /\ lun \in Luns(clock) /\ files = {o[1] : o \in owner}
  BY DEF VolumesInv, VolumesTypeOK, Ids
<1>2. Starts /\ \A o \in owner : Named(o)
  BY DEF VolumesInv
<1>3. MaxTime \in Nat /\ clock \in Nat
  BY <1>1, VolumesAssumption
<1>4. SUFFICES /\ phase' \in {"load", "run"} /\ dc_path' \in {None, conf}
               /\ clock' \in 0 .. MaxTime /\ lun' \in Luns(clock')
               /\ files' = {o[1] : o \in owner'}
               /\ Starts' /\ \A o \in owner' : Named(o)
  BY DEF VolumesInv, VolumesTypeOK, Ids, Named
<1>5. CASE UNCHANGED vars
  BY <1>1, <1>2, <1>5 DEF vars, IsOpen
<1>6. CASE Construct
  BY <1>1, <1>2, <1>6 DEF Construct, blk_parse_conf, IsOpen
<1>7. CASE Tick
  <2>1. clock' = clock + 1 /\ clock' \in 0 .. MaxTime
    BY <1>3, <1>7 DEF Tick
  <2>2. lun \in Luns(clock + 1)
    BY <1>1, <1>3
  <2>3. UNCHANGED <<phase, dc_path, lun, files, owner>>
    BY <1>7 DEF Tick
  <2>4. Starts'
    BY <1>2, <2>3 DEF IsOpen
  <2> QED BY <1>1, <1>2, <2>1, <2>2, <2>3, <2>4
<1>8. CASE Restart
  <2>1. lun' = [v \in VolumeNames |-> Closed] /\ UNCHANGED <<clock, files, owner>>
    BY <1>8 DEF Restart
  <2>2. lun' \in Luns(clock)
    BY <1>3, <2>1, ClosedType
  <2>3. Starts'
    BY <2>1 DEF IsOpen, Closed
  <2>4. phase' \in {"load", "run"} /\ dc_path' \in {None, conf}
    BY <1>8 DEF Restart
  <2> QED BY <1>1, <1>2, <2>1, <2>2, <2>3, <2>4
<1>9. ASSUME NEW v \in VolumeNames, Open(v) PROVE <1>4!1
  <2> DEFINE new == [start_object |-> StartOid(clock), opened |-> clock]
  <2>1. lun' = [lun EXCEPT ![v] = new] /\ UNCHANGED <<phase, dc_path, clock, files, owner>>
    BY <1>9 DEF Open
  <2>2. new \in [start_object : Ids, opened : -1 .. clock]
    BY <1>3, StartOidType
  <2>3. lun' \in Luns(clock)
    <3> HIDE DEF new
    <3> QED BY <1>1, <2>1, <2>2
  <2>4. ASSUME NEW w \in VolumeNames, IsOpen(w)'
        PROVE  lun'[w].start_object = StartOid(lun'[w].opened)
    <3>1. CASE w = v
      <4>1. lun'[w] = new
        BY <1>1, <2>1, <3>1
      <4> QED BY <4>1
    <3>2. CASE w # v
      <4>1. lun'[w] = lun[w]
        BY <1>1, <2>1, <3>2
      <4> QED BY <1>2, <2>4, <4>1 DEF IsOpen
    <3> QED BY <3>1, <3>2
  <2> QED BY <1>1, <1>2, <2>1, <2>3, <2>4
<1>10. ASSUME NEW v \in VolumeNames, Close(v) PROVE <1>4!1
  <2>1. lun' = [lun EXCEPT ![v] = Closed] /\ UNCHANGED <<phase, dc_path, clock, files, owner>>
    BY <1>10 DEF Close
  <2>2. lun' \in Luns(clock)
    BY <1>1, <1>3, <2>1, ClosedType
  <2>3. ASSUME NEW w \in VolumeNames, IsOpen(w)'
        PROVE  lun'[w].start_object = StartOid(lun'[w].opened)
    <3>1. CASE w = v
      <4>1. lun'[w] = Closed
        BY <1>1, <2>1, <3>1
      <4> QED BY <2>3, <4>1 DEF IsOpen, Closed
    <3>2. CASE w # v
      <4>1. lun'[w] = lun[w]
        BY <1>1, <2>1, <3>2
      <4> QED BY <1>2, <2>3, <4>1 DEF IsOpen
    <3> QED BY <3>1, <3>2
  <2> QED BY <1>1, <1>2, <2>1, <2>2, <2>3
<1>11. ASSUME NEW v \in VolumeNames, NEW i \in Touched, Use(v, i) PROVE <1>4!1
  <2>1. UNCHANGED <<phase, dc_path, clock, lun>>
    BY <1>11 DEF Use
  <2>2. Starts'
    BY <1>2, <2>1 DEF IsOpen
  <2> DEFINE o == <<PathOf(v, i), v, lun[v].opened, i>>
  <2>3. \/ files' = files \cup {PathOf(v, i)} /\ owner' = owner \cup {o}
        \/ UNCHANGED <<files, owner>>
    BY <1>11 DEF Use
  <2>4. Named(o)
    <3>1. lun[v].opened \in 0 .. MaxTime
      <4>1. lun[v].opened \in -1 .. clock
        BY <1>1
      <4>2. lun[v].opened >= 0
        BY <1>11 DEF Use, IsOpen
      <4> QED BY <1>1, <1>3, <4>1, <4>2
    <3>2. lun[v].start_object = StartOid(lun[v].opened)
      BY <1>2, <1>11 DEF Use
    <3>3. i \in Indexes
      BY VolumesAssumption
    <3> QED BY <1>1, <3>1, <3>2, <3>3, Zenon DEF Named, PathOf, DcPath
  <2>5. files' = {p[1] : p \in owner'} /\ \A p \in owner' : Named(p)
    <3>1. o[1] = PathOf(v, i)
      OBVIOUS
    <3> HIDE DEF o
    <3>2. CASE files' = files \cup {PathOf(v, i)} /\ owner' = owner \cup {o}
      <4>1. {p[1] : p \in owner \cup {o}} = {p[1] : p \in owner} \cup {o[1]}
        OBVIOUS
      <4> QED BY <1>1, <1>2, <2>4, <3>1, <3>2, <4>1
    <3>3. CASE UNCHANGED <<files, owner>>
      BY <1>1, <1>2, <3>3
    <3> QED BY <2>3, <3>2, <3>3
  <2> QED BY <1>1, <2>1, <2>2, <2>5
<1> QED BY <1>5, <1>6, <1>7, <1>8, <1>9, <1>10, <1>11 DEF Next

(***************************************************************************)
(* The parameters, the clock, the ids of the volumes and the files keep    *)
(* their types, and every file was made for a use of an object.            *)
(***************************************************************************)
THEOREM VolumesTypeCorrect == Spec => []VolumesTypeOK
<1>1. VolumesInv => VolumesTypeOK
  BY DEF VolumesInv
<1> QED BY <1>1, VolumesInvInit, VolumesInvStep, PTL DEF Spec

(***************************************************************************)
(* osd_get_index_to_object adds the index to the counter, with carries and *)
(* modulo its width, and leaves the other bytes alone, for every width.    *)
(***************************************************************************)
THEOREM AddsToCounterAlways == Spec => []AddsToCounter
<1>1. VolumesInv => AddsToCounter
  <2> SUFFICES ASSUME VolumesInv, NEW v \in VolumeNames, NEW n \in 0 .. CounterMod
               PROVE  LET start == lun[v].start_object
                          oid == IndexToOid(start, n)
                      IN  /\ Counter(oid) = (Counter(start) + n) % CounterMod
                          /\ \A b \in Bytes \ CounterBytes : oid[b] = start[b]
    BY DEF AddsToCounter
  <2>1. lun[v].start_object \in Ids /\ n \in Nat
    BY CounterModNat DEF VolumesInv, VolumesTypeOK, Ids
  <2>2. Counter(IndexToOid(lun[v].start_object, n)) = (Counter(lun[v].start_object) + n) % CounterMod
    BY <2>1, CounterOfSum
  <2>3. \A b \in Bytes \ CounterBytes : IndexToOid(lun[v].start_object, n)[b] = lun[v].start_object[b]
    BY Zenon DEF IndexToOid
  <2> QED BY <2>2, <2>3
<1> QED BY <1>1, VolumesInvInit, VolumesInvStep, PTL DEF Spec

(***************************************************************************)
(* No two objects share a file, for any volumes, times of opening, indexes *)
(* and widths, as long as the clock fits in front of the counter and the   *)
(* counter has a value for every object; the counter may wrap.             *)
(***************************************************************************)
THEOREM NoSharedFileAlways == Spec => []NoSharedFile
<1>1. VolumesInv => NoSharedFile
  <2> SUFFICES ASSUME VolumesInv, NEW o \in owner, NEW p \in owner, o[1] = p[1]
               PROVE  o = p
    BY DEF NoSharedFile
  <2> DEFINE Path(d, v, oid) == <<d, v, oid[MAXOIDLEN - 1], oid[MAXOIDLEN - 2], oid>>
  <2>1. PICK d \in {None, conf}, v \in VolumeNames, t \in 0 .. MaxTime, i \in Indexes :
          o = <<Path(d, v, IndexToOid(StartOid(t), i)), v, t, i>>
    BY Zenon DEF VolumesInv, Named
  <2>2. PICK e \in {None, conf}, w \in VolumeNames, s \in 0 .. MaxTime, j \in Indexes :
          p = <<Path(e, w, IndexToOid(StartOid(s), j)), w, s, j>>
    BY Zenon DEF VolumesInv, Named
  <2>3. Path(d, v, IndexToOid(StartOid(t), i)) = Path(e, w, IndexToOid(StartOid(s), j))
    BY <2>1, <2>2
  <2>4. v = w /\ IndexToOid(StartOid(t), i) = IndexToOid(StartOid(s), j)
    BY <2>3
  <2>5. t = s /\ i = j
    BY <2>4, NamesDiffer
  <2> QED BY <2>1, <2>2, <2>3, <2>4, <2>5
<1> QED BY <1>1, VolumesInvInit, VolumesInvStep, PTL DEF Spec
=============================================================================
