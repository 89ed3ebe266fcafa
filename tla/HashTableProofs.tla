---------------------------- MODULE HashTableProofs ----------------------------
(***************************************************************************)
(* Proofs about the hash table: the probes of a key reach every slot, and  *)
(* the table is what its entries, its counts and lookup() need it to be.   *)
(***************************************************************************)
EXTENDS HashTable, FiniteSetTheorems, WellFoundedInduction, TLAPS, Integers

-------------------------------------------------------------------------------
(* Induction over the natural numbers, for a set instead of a predicate.   *)

\* Every set of natural numbers that is not empty has a least element.
LEMMA LeastNat ==
  ASSUME NEW T \in SUBSET Nat, T # {}
  PROVE  \E n \in T : \A m \in T : n <= m
<1> DEFINE R == OpToRel(<, Nat)
<1>1. IsWellFoundedOn(R, Nat)
  BY NatLessThanWellFounded
<1>2. \A m, n \in Nat : m < n => <<m, n>> \in R
  BY DEF OpToRel
<1> HIDE DEF R
<1>3. PICK n \in T : \A m \in T : <<m, n>> \notin R
  BY <1>1, WFMin
<1>4. \A m \in T : n <= m
  <2> SUFFICES ASSUME NEW m \in T PROVE n <= m
    OBVIOUS
  <2>1. ~ (m < n)
    BY <1>2, <1>3
  <2> QED
    BY <2>1
<1> QED
  BY <1>4

\* A set with 0, and with the successor of each of its elements, has all natural numbers.
LEMMA SetInduction ==
  ASSUME NEW S \in SUBSET Nat, 0 \in S, \A n \in S : n + 1 \in S
  PROVE  \A n \in Nat : n \in S
<1> SUFFICES ASSUME Nat \ S # {} PROVE FALSE
  OBVIOUS
<1>1. PICK n \in Nat \ S : \A m \in Nat \ S : n <= m
  BY LeastNat
<1>2. n # 0 /\ n - 1 \in Nat /\ n - 1 \notin Nat \ S
  BY <1>1
<1> QED
  BY <1>2

-------------------------------------------------------------------------------
(* Recursion: the functions that LET and a recursive definition choose.    *)

\* Induction up to a bound.
LEMMA UpTo ==
  ASSUME NEW n \in Nat, NEW S, 0 \in S, \A i \in 0 .. n - 1 : i \in S => i + 1 \in S
  PROVE  \A i \in 0 .. n : i \in S
<1> DEFINE T == {i \in Nat : i <= n => i \in S}
<1>1. 0 \in T
  OBVIOUS
<1>2. ASSUME NEW i \in T PROVE i + 1 \in T
  OBVIOUS
<1>3. \A i \in Nat : i \in T
  <2> HIDE DEF T
  <2> QED
    BY <1>1, <1>2, SetInduction DEF T
<1> QED
  BY <1>3

\* f holds a, and then n times the value that the one before leads to.
Recursion(f, S, a, n, next) ==
  f \in [0 .. n -> S] /\ f[0] = a /\ \A i \in 1 .. n : f[i] = next[i][f[i - 1]]

\* There is such a function.
LEMMA RecursionExists ==
  ASSUME NEW S, NEW a \in S, NEW n \in Nat, NEW next, next \in [1 .. n -> [S -> S]]
  PROVE  \E f : Recursion(f, S, a, n, next)
<1> DEFINE Upto(k, f) == f[0] = a /\ \A i \in 1 .. k : f[i] = next[i][f[i - 1]]
           T == {k \in 0 .. n : \E f \in [0 .. k -> S] : Upto(k, f)}
<1>1. 0 \in T
  <2> DEFINE f == [i \in 0 .. 0 |-> a]
  <2>1. f \in [0 .. 0 -> S] /\ Upto(0, f)
    OBVIOUS
  <2> HIDE DEF f, Upto
  <2>2. 0 \in 0 .. n
    OBVIOUS
  <2> QED
    BY <2>1, <2>2
<1>2. ASSUME NEW k \in 0 .. n - 1, k \in T PROVE k + 1 \in T
  <2>1. PICK f \in [0 .. k -> S] : Upto(k, f)
    BY <1>2
  <2>2. f[k] \in S /\ k + 1 \in 1 .. n
    OBVIOUS
  <2>3. next[k + 1][f[k]] \in S
    BY <2>2
  <2> DEFINE h == [i \in 0 .. k + 1 |-> IF i <= k THEN f[i] ELSE next[k + 1][f[k]]]
  <2>4. h \in [0 .. k + 1 -> S]
    BY <2>3
  <2>5. h[0] = a
    BY <2>1
  <2>6. ASSUME NEW i \in 1 .. k + 1 PROVE h[i] = next[i][h[i - 1]]
    <3>1. CASE i <= k
      BY <2>1, <3>1
    <3>2. CASE i = k + 1
      BY <3>2
    <3> QED
      BY <3>1, <3>2
  <2> HIDE DEF h
  <2> QED
    BY <2>4, <2>5, <2>6
<1>3. n \in T
  <2> HIDE DEF T
  <2>1. \A k \in 0 .. n - 1 : k \in T => k + 1 \in T
    BY <1>2
  <2>2. \A k \in 0 .. n : k \in T
    BY <1>1, <2>1, UpTo
  <2> QED
    BY <2>2
<1> QED
  BY <1>3 DEF Recursion

\* f is the search from each place up to n for one where it stops.
Search(f, n, Stop) == f = [i \in 0 .. n |-> IF i \in Stop THEN i ELSE f[i + 1]]

\* A search that goes on from i to i + 1 has a result.
LEMMA SearchExists ==
  ASSUME NEW n \in Nat, NEW Stop \in SUBSET (0 .. n), n \in Stop
  PROVE  \E f : Search(f, n, Stop)
<1> DEFINE From(i) == {j \in Stop : i <= j}
           First(i) == CHOOSE j \in From(i) : \A m \in From(i) : j <= m
           f == [i \in 0 .. n |-> First(i)]
<1>1. ASSUME NEW i \in 0 .. n
      PROVE  First(i) \in From(i) /\ \A m \in From(i) : First(i) <= m
  <2>1. n \in From(i) /\ \A j \in From(i) : j \in Nat
    <3>1. i <= n /\ \A j \in Stop : j \in Nat
      OBVIOUS
    <3> QED
      BY <3>1
  <2> HIDE DEF From
  <2>2. \E j \in From(i) : \A m \in From(i) : j <= m
    BY <2>1, LeastNat
  <2> QED
    BY <2>2
<1>2. ASSUME NEW i \in 0 .. n PROVE f[i] = IF i \in Stop THEN i ELSE f[i + 1]
  <2> HIDE DEF First
  <2>1. CASE i \in Stop
    <3>1. i \in From(i) /\ \A m \in From(i) : i <= m /\ m \in Nat
      BY <2>1
    <3>2. First(i) <= i /\ i <= First(i) /\ First(i) \in Nat
      <4> HIDE DEF From
      <4> QED
        BY <1>1, <3>1
    <3> QED
      BY <2>1, <3>2
  <2>2. CASE i \notin Stop
    <3>1. i + 1 \in 0 .. n
      BY <2>2
    <3>2. From(i) = From(i + 1)
      <4>1. ASSUME NEW j \in Stop PROVE i <= j <=> i + 1 <= j
        BY <2>2
      <4> QED
        BY <4>1
    <3>3. First(i) = First(i + 1)
      BY <3>2 DEF First
    <3> QED
      BY <2>2, <3>1, <3>3
  <2> QED
    BY <2>1, <2>2
<1> HIDE DEF f
<1>3. f = [i \in 0 .. n |-> IF i \in Stop THEN i ELSE f[i + 1]]
  <2>1. f = [i \in 0 .. n |-> f[i]]
    BY DEF f
  <2> QED
    BY <1>2, <2>1
<1> QED
  BY <1>3 DEF Search

\* It finds the first place.
LEMMA SearchFinds ==
  ASSUME NEW n \in Nat, NEW Stop \in SUBSET (0 .. n), n \in Stop,
         NEW f, Search(f, n, Stop)
  PROVE  f[0] \in Stop /\ \A m \in 0 .. f[0] - 1 : m \notin Stop
<1>1. PICK first \in Stop : \A m \in Stop : first <= m
  BY LeastNat
<1>2. \A i \in 0 .. n : f[i] = IF i \in Stop THEN i ELSE f[i + 1]
  <2> DEFINE g == [i \in 0 .. n |-> IF i \in Stop THEN i ELSE f[i + 1]]
  <2>1. \A i \in 0 .. n : g[i] = IF i \in Stop THEN i ELSE f[i + 1]
    OBVIOUS
  <2>2. f = g
    BY DEF Search
  <2> HIDE DEF g
  <2> QED
    BY <2>1, <2>2
<1> DEFINE S == {d \in Nat : d <= first => f[first - d] = first}
<1>3. 0 \in S
  BY <1>2
<1>4. ASSUME NEW d \in S PROVE d + 1 \in S
  <2> SUFFICES ASSUME d + 1 <= first PROVE f[first - (d + 1)] = first
    OBVIOUS
  <2>1. f[first - d] = first
    OBVIOUS
  <2>2. PICK i \in 0 .. n : i = first - (d + 1)
    OBVIOUS
  <2>3. i \notin Stop /\ i + 1 = first - d
    BY <1>1, <2>2
  <2> QED
    BY <1>2, <2>1, <2>2, <2>3
<1>5. first \in S
  <2>1. first \in Nat /\ S \in SUBSET Nat
    OBVIOUS
  <2> HIDE DEF S
  <2> QED
    BY <1>3, <1>4, <2>1, SetInduction
<1>6. f[0] = first
  BY <1>5
<1> QED
  BY <1>1, <1>6

-------------------------------------------------------------------------------
(* The probes: i -> 5 i + 1 modulo a power of two has one cycle.           *)

\* The values of the cycle before they are cut to a slot.
Cycle(g, n) == g \in [0 .. n -> Nat] /\ \A i \in 0 .. n - 1 : g[i + 1] = 5 * g[i] + 1

\* p steps add an odd multiple of p, times what is 1 modulo 4.
Jump(g, n, p) ==
  \E c \in Nat : \A i \in 0 .. n - p : g[i + p] = g[i] + p * (2 * c + 1) * (4 * g[i] + 1)

\* Fewer than p steps never add a multiple of p.
Apart(g, n, p) ==
  \A i \in 0 .. n, d \in 1 .. p - 1 : i + d <= n => \A q \in Int : g[i + d] - g[i] # p * q

\* From any value there is a cycle.
LEMMA CycleExists ==
  ASSUME NEW a \in Nat, NEW n \in Nat
  PROVE  \E g : Cycle(g, n) /\ g[0] = a
<1>1. PICK next \in [1 .. n -> [Nat -> Nat]] :
             \A i \in 1 .. n, x \in Nat : next[i][x] = 5 * x + 1
  <2> DEFINE f == [i \in 1 .. n |-> [x \in Nat |-> 5 * x + 1]]
  <2>1. f \in [1 .. n -> [Nat -> Nat]] /\ \A i \in 1 .. n, x \in Nat : f[i][x] = 5 * x + 1
    OBVIOUS
  <2> HIDE DEF f
  <2> QED
    BY <2>1
<1>2. PICK g : Recursion(g, Nat, a, n, next)
  BY RecursionExists
<1>3. g \in [0 .. n -> Nat] /\ g[0] = a /\ \A i \in 1 .. n : g[i] = next[i][g[i - 1]]
  BY <1>2 DEF Recursion
<1>4. ASSUME NEW i \in 0 .. n - 1 PROVE g[i + 1] = 5 * g[i] + 1
  <2>1. i + 1 \in 1 .. n /\ (i + 1) - 1 = i /\ g[i] \in Nat
    BY <1>3
  <2> QED
    BY <1>1, <1>3, <2>1
<1> QED
  BY <1>3, <1>4 DEF Cycle

\* One step is a jump,
LEMMA JumpOne ==
  ASSUME NEW g, NEW n \in Nat, Cycle(g, n)
  PROVE  Jump(g, n, 1)
<1>1. ASSUME NEW i \in 0 .. n - 1 PROVE g[i + 1] = g[i] + 1 * (2 * 0 + 1) * (4 * g[i] + 1)
  <2>1. g[i] \in Nat /\ g[i + 1] = 5 * g[i] + 1
    BY DEF Cycle
  <2> QED
    BY <2>1
<1> QED
  BY <1>1 DEF Jump

\* and two jumps are one of twice the length.
LEMMA JumpTwice ==
  ASSUME NEW g, NEW n \in Nat, Cycle(g, n), NEW p \in Nat, Jump(g, n, p)
  PROVE  Jump(g, n, 2 * p)
<1>1. PICK c \in Nat : \A i \in 0 .. n - p : g[i + p] = g[i] + p * (2 * c + 1) * (4 * g[i] + 1)
  BY DEF Jump
<1>2. PICK k \in Nat : k = p * (2 * c + 1)
  OBVIOUS
<1>3. PICK b \in Nat : b = 2 * c * k + c + k
  OBVIOUS
<1>4. 2 * k + 4 * (k * k) = (2 * p) * (2 * b + 1)
  <2>1. (2 * p) * (2 * b + 1) = 2 * (p * (2 * c + 1)) * (2 * k + 1)
    BY <1>3
  <2>2. 2 * k * (2 * k + 1) = 2 * k + 4 * (k * k)
    OBVIOUS
  <2> QED
    BY <1>2, <2>1, <2>2
<1>5. ASSUME NEW i \in 0 .. n - 2 * p
      PROVE  g[i + 2 * p] = g[i] + (2 * p) * (2 * b + 1) * (4 * g[i] + 1)
  <2>1. i \in 0 .. n - p /\ i + p \in 0 .. n - p /\ (i + p) + p = i + 2 * p /\ i \in 0 .. n
    OBVIOUS
  <2>2. PICK x \in Nat : x = g[i]
    BY <2>1 DEF Cycle
  <2>3. g[i + p] = x + k * (4 * x + 1)
    BY <1>1, <1>2, <2>1, <2>2
  <2>4. g[i + 2 * p] = (x + k * (4 * x + 1)) + k * (4 * (x + k * (4 * x + 1)) + 1)
    BY <1>1, <1>2, <2>1, <2>3
  <2>5. (x + k * (4 * x + 1)) + k * (4 * (x + k * (4 * x + 1)) + 1)
          = x + (2 * k + 4 * (k * k)) * (4 * x + 1)
    OBVIOUS
  <2> QED
    BY <1>4, <2>2, <2>4, <2>5
<1> QED
  BY <1>5 DEF Jump

\* So twice as many steps never add a multiple of twice as much.
LEMMA ApartTwice ==
  ASSUME NEW g, NEW n \in Nat, Cycle(g, n), NEW p \in Nat, Jump(g, n, p), Apart(g, n, p)
  PROVE  Apart(g, n, 2 * p)
<1> SUFFICES ASSUME NEW i \in 0 .. n, NEW d \in 1 .. 2 * p - 1, i + d <= n, NEW q \in Int,
                    g[i + d] - g[i] = (2 * p) * q
             PROVE  FALSE
  BY DEF Apart
<1>1. PICK c \in Nat : \A j \in 0 .. n - p : g[j + p] = g[j] + p * (2 * c + 1) * (4 * g[j] + 1)
  BY DEF Jump
<1>2. g[i] \in Nat /\ g[i + d] \in Nat
  BY DEF Cycle
<1>3. (2 * p) * q = p * (2 * q) /\ 2 * q \in Int
  OBVIOUS
<1>4. CASE d < p
  <2>1. d \in 1 .. p - 1
    BY <1>4
  <2>2. g[i + d] - g[i] # p * (2 * q)
    BY <1>3, <2>1 DEF Apart
  <2> QED
    BY <1>3, <2>2
<1>5. CASE d = p
  <2>1. PICK x \in Nat : x = g[i]
    BY <1>2
  <2>2. p * (2 * c + 1) * (4 * x + 1) = p * (2 * q)
    BY <1>1, <1>3, <1>5, <2>1
  <2>3. PICK y \in Int : y = (2 * c + 1) * (4 * x + 1)
    OBVIOUS
  <2>4. p * y = p * (2 * q)
    BY <2>2, <2>3
  <2>5. p > 0 /\ y \in Int /\ 2 * q \in Int
    OBVIOUS
  <2>6. y = 2 * q
    BY <2>4, <2>5
  <2>7. y = 2 * (4 * (c * x) + c + 2 * x) + 1
    BY <2>3
  <2>8. PICK z \in Int : z = 4 * (c * x) + c + 2 * x
    OBVIOUS
  <2> QED
    BY <2>6, <2>7, <2>8
<1>6. CASE d > p
  <2>1. PICK e \in 1 .. p - 1 : d = p + e
    <3>1. d - p \in 1 .. p - 1 /\ d = p + (d - p)
      BY <1>6
    <3> QED
      BY <3>1
  <2>2. i + e \in 0 .. n - p /\ (i + e) + p = i + d /\ i + e <= n
    BY <2>1
  <2>3. PICK x \in Nat : x = g[i + e]
    BY <2>2 DEF Cycle
  <2>4. g[i + d] = x + p * (2 * c + 1) * (4 * x + 1)
    BY <1>1, <2>2, <2>3
  <2>5. PICK y \in Int : y = (2 * c + 1) * (4 * x + 1)
    OBVIOUS
  <2>6. p * (2 * c + 1) * (4 * x + 1) = p * y
    BY <2>5
  <2>7. x - g[i] = p * (2 * q) - p * y
    BY <1>2, <1>3, <2>4, <2>6
  <2>8. p * (2 * q) - p * y = p * (2 * q - y) /\ 2 * q - y \in Int
    OBVIOUS
  <2> QED
    BY <2>1, <2>2, <2>3, <2>7, <2>8 DEF Apart
<1> QED
  BY <1>4, <1>5, <1>6

\* Eight is the first size of a table, and every other one is twice a size.
LEMMA SizeInduction ==
  ASSUME NEW S, 8 \in S, \A half \in TableSizes : half \in S => 2 * half \in S
  PROVE  TableSizes \subseteq S
<1> SUFFICES ASSUME TableSizes \ S # {} PROVE FALSE
  OBVIOUS
<1>1. TableSizes \ S \in SUBSET Nat
  BY HashTableAssumption
<1>2. PICK size \in TableSizes \ S : \A m \in TableSizes \ S : size <= m
  BY <1>1, LeastNat
<1>3. PICK half \in TableSizes : size = 2 * half
  BY <1>2, HashTableAssumption DEF INITIAL_SIZE
<1>4. half \in Nat /\ half # 0 /\ size \in Nat
  BY HashTableAssumption
<1>5. half \in S
  BY <1>2, <1>3, <1>4
<1> QED
  BY <1>3, <1>5

\* A table has at least eight slots.
LEMMA SizesAreGreat ==
  ASSUME NEW size \in TableSizes
  PROVE  size \in Nat /\ size >= 8
<1> DEFINE S == {s \in Nat : s >= 8}
<1>1. 8 \in S /\ \A half \in TableSizes : half \in S => 2 * half \in S
  OBVIOUS
<1> HIDE DEF S
<1>2. TableSizes \subseteq S
  BY <1>1, SizeInduction
<1> QED
  BY <1>2 DEF S

\* Fewer steps than the table has slots never lead to the same slot.
LEMMA CycleApart ==
  ASSUME NEW g, NEW n \in Nat, Cycle(g, n), NEW size \in TableSizes
  PROVE  Apart(g, n, size)
<1> DEFINE Good(p) == Jump(g, n, p) /\ Apart(g, n, p)
           S == {p \in Nat : Good(p)}
<1>1. ASSUME NEW p \in Nat, Good(p) PROVE Good(2 * p)
  BY <1>1, JumpTwice, ApartTwice
<1>2. Good(1)
  BY JumpOne DEF Apart
<1> HIDE DEF Good
<1>3. Good(8)
  <2>1. Good(2 * 1) /\ Good(2 * 2) /\ Good(2 * 4)
    <3>1. Good(2 * 1)
      BY <1>1, <1>2
    <3>2. Good(2 * 2)
      BY <1>1, <3>1
    <3>3. Good(2 * 4)
      BY <1>1, <3>2
    <3> QED
      BY <3>1, <3>2, <3>3
  <2> QED
    BY <2>1
<1>4. 8 \in S /\ \A half \in TableSizes : half \in S => 2 * half \in S
  BY <1>1, <1>3
<1>5. size \in S
  <2> HIDE DEF S
  <2> QED
    BY <1>4, SizeInduction
<1> QED
  BY <1>5 DEF Good

-------------------------------------------------------------------------------
(* The probes of a key.                                                    *)

\* s are the slots probed, p the values of perturb.
Path(s, p, hash, size) ==
  /\ s \in [0 .. MaxPerturb + size -> 0 .. size - 1]
  /\ p \in [0 .. MaxPerturb + size -> 0 .. HashMax]
  /\ s[0] = hash % size /\ p[0] = hash
  /\ \A i \in 1 .. MaxPerturb + size :
       p[i] = p[i - 1] \div 32 /\ s[i] = (1 + 5 * s[i - 1] + p[i]) % size

\* A slot, and less perturb.
LEMMA Cut ==
  ASSUME NEW size \in TableSizes
  PROVE  /\ \A x \in Nat : x % size \in 0 .. size - 1
         /\ \A h \in 0 .. HashMax : h \div 32 \in 0 .. HashMax
<1>1. size \in Nat /\ size > 0 /\ HashMax \in Nat
  BY SizesAreGreat, HashTableAssumption
<1> QED
  BY <1>1

\* ProbePath() takes the steps of lookup().
LEMMA ProbePathIs ==
  ASSUME NEW hash \in 0 .. HashMax, NEW size \in TableSizes
  PROVE  \E p : Path(ProbePath(hash, size), p, hash, size)
<1> DEFINE n == MaxPerturb + size
           S == [slot : 0 .. size - 1, perturb : 0 .. HashMax]
           first == [slot |-> hash % size, perturb |-> hash]
           Step(r) == [slot |-> (1 + 5 * r.slot + r.perturb \div 32) % size,
                       perturb |-> r.perturb \div 32]
<1>1. n \in Nat /\ size \in Nat /\ HashMax \in Nat
  BY SizesAreGreat, HashTableAssumption
<1>2. first \in S
  BY <1>1, Cut
<1>3. ASSUME NEW r \in S PROVE Step(r) \in S
  <2>1. r.slot \in Nat /\ r.perturb \in 0 .. HashMax
    BY <1>1
  <2>2. r.perturb \div 32 \in 0 .. HashMax
    BY <2>1, Cut
  <2>3. 1 + 5 * r.slot + r.perturb \div 32 \in Nat
    BY <1>1, <2>1, <2>2
  <2> QED
    BY <2>2, <2>3, Cut
<1>4. PICK next : next \in [1 .. n -> [S -> S]] /\ \A i \in 1 .. n, r \in S : next[i][r] = Step(r)
  <2> DEFINE f == [i \in 1 .. n |-> [r \in S |-> Step(r)]]
  <2> HIDE DEF S, Step
  <2>1. f \in [1 .. n -> [S -> S]] /\ \A i \in 1 .. n, r \in S : f[i][r] = Step(r)
    BY <1>3
  <2> HIDE DEF f
  <2> QED
    BY <2>1
<1>5. PICK f : Recursion(f, S, first, n, next)
  <2> HIDE DEF S, first, n
  <2> QED
    BY <1>1, <1>2, <1>4, RecursionExists
<1>6. /\ \A i \in 0 .. n : f[i] \in S
      /\ f[0] = first
      /\ \A i \in 1 .. n : f[i - 1] \in S /\ f[i] = Step(f[i - 1])
  <2> HIDE DEF S, first, Step
  <2>1. f \in [0 .. n -> S] /\ f[0] = first /\ \A i \in 1 .. n : f[i] = next[i][f[i - 1]]
    BY <1>5 DEF Recursion
  <2>2. \A i \in 1 .. n : f[i - 1] \in S
    BY <1>1, <2>1
  <2> QED
    BY <1>4, <2>1, <2>2
<1>7. f = [i \in 0 .. n |-> IF i = 0 THEN first ELSE Step(f[i - 1])]
  <2> HIDE DEF S, first, Step, n
  <2>1. f \in [0 .. n -> S]
    BY <1>5 DEF Recursion
  <2>2. \A i \in 0 .. n : f[i] = IF i = 0 THEN first ELSE Step(f[i - 1])
    <3> SUFFICES ASSUME NEW i \in 0 .. n PROVE f[i] = IF i = 0 THEN first ELSE Step(f[i - 1])
      OBVIOUS
    <3>1. i # 0 => i \in 1 .. n
      OBVIOUS
    <3> QED
      BY <1>6, <3>1
  <2> QED
    BY <2>1, <2>2
<1> DEFINE g == CHOOSE h : h = [i \in 0 .. MaxPerturb + size |->
                  IF i = 0
                    THEN [slot |-> hash % size, perturb |-> hash]
                    ELSE [slot    |-> (1 + 5 * h[i - 1].slot + h[i - 1].perturb \div 32) % size,
                          perturb |-> h[i - 1].perturb \div 32]]
<1>8. g = [i \in 0 .. n |-> IF i = 0 THEN first ELSE Step(g[i - 1])]
  <2>1. \E h : h = [i \in 0 .. n |-> IF i = 0 THEN first ELSE Step(h[i - 1])]
    <3> HIDE DEF first, Step, n
    <3> QED
      BY <1>7
  <2> QED
    BY <2>1
<1>9. ProbePath(hash, size) = [i \in 0 .. n |-> g[i].slot]
  BY DEF ProbePath
<1> HIDE DEF g
<1>10. PICK q : q = g
  OBVIOUS
<1>11. \A i \in 0 .. n : q[i] = IF i = 0 THEN first ELSE Step(q[i - 1])
  <2> HIDE DEF first, Step, n
  <2> DEFINE h == [i \in 0 .. n |-> IF i = 0 THEN first ELSE Step(q[i - 1])]
  <2>1. q = h
    BY <1>8, <1>10
  <2>2. \A i \in 0 .. n : h[i] = IF i = 0 THEN first ELSE Step(q[i - 1])
    OBVIOUS
  <2> HIDE DEF h
  <2> QED
    BY <2>1, <2>2
<1>12. \A i \in 0 .. n : q[i] \in S
  <2> DEFINE T == {i \in 0 .. n : q[i] \in S}
  <2> HIDE DEF first, Step, S, n
  <2>1. 0 \in T
    BY <1>1, <1>2, <1>11
  <2>2. \A i \in 0 .. n - 1 : i \in T => i + 1 \in T
    <3> SUFFICES ASSUME NEW i \in 0 .. n - 1, q[i] \in S
                 PROVE  i + 1 \in 0 .. n /\ q[i + 1] \in S
      OBVIOUS
    <3>1. i + 1 \in 0 .. n /\ i + 1 # 0 /\ (i + 1) - 1 = i
      BY <1>1
    <3>2. q[i + 1] = Step(q[i])
      BY <1>11, <3>1
    <3> QED
      BY <1>3, <3>1, <3>2
  <2>3. \A i \in 0 .. n : i \in T
    <3> HIDE DEF T
    <3> QED
      BY <1>1, <2>1, <2>2, UpTo
  <2> QED
    BY <2>3
<1> DEFINE p == [i \in 0 .. n |-> q[i].perturb]
           s == [i \in 0 .. n |-> q[i].slot]
<1>13. s \in [0 .. n -> 0 .. size - 1] /\ p \in [0 .. n -> 0 .. HashMax]
  BY <1>12
<1>14. s[0] = hash % size /\ p[0] = hash
  <2>1. 0 \in 0 .. n
    BY <1>1
  <2>2. q[0] = first
    BY <1>11, <2>1
  <2>3. s[0] = q[0].slot /\ p[0] = q[0].perturb
    BY <2>1
  <2> QED
    BY <2>2, <2>3
<1>15. ASSUME NEW i \in 1 .. n
       PROVE  p[i] = p[i - 1] \div 32 /\ s[i] = (1 + 5 * s[i - 1] + p[i]) % size
  <2>1. i \in 0 .. n /\ i - 1 \in 0 .. n /\ i # 0
    BY <1>1
  <2>2. q[i] = Step(q[i - 1])
    BY <1>11, <2>1
  <2>3. /\ p[i] = q[i].perturb /\ s[i] = q[i].slot
        /\ p[i - 1] = q[i - 1].perturb /\ s[i - 1] = q[i - 1].slot
    BY <2>1
  <2> QED
    BY <2>2, <2>3
<1>16. ProbePath(hash, size) = s
  BY <1>9, <1>10
<1> HIDE DEF p, s
<1> QED
  BY <1>13, <1>14, <1>15, <1>16 DEF Path

\* What Shifted[] holds.
LEMMA ShiftedIs ==
  /\ Shifted \in [0 .. MaxPerturb -> Nat]
  /\ Shifted[0] = HashMax
  /\ \A i \in 1 .. MaxPerturb : Shifted[i] = Shifted[i - 1] \div 32
<1>1. MaxPerturb \in Nat /\ HashMax \in Nat
  BY HashTableAssumption
<1>2. PICK next : /\ next \in [1 .. MaxPerturb -> [Nat -> Nat]]
                  /\ \A i \in 1 .. MaxPerturb, x \in Nat : next[i][x] = x \div 32
  <2> DEFINE f == [i \in 1 .. MaxPerturb |-> [x \in Nat |-> x \div 32]]
  <2>1. /\ f \in [1 .. MaxPerturb -> [Nat -> Nat]]
        /\ \A i \in 1 .. MaxPerturb, x \in Nat : f[i][x] = x \div 32
    OBVIOUS
  <2> HIDE DEF f
  <2> QED
    BY <2>1
<1>3. PICK f : Recursion(f, Nat, HashMax, MaxPerturb, next)
  BY <1>1, <1>2, RecursionExists
<1>4. /\ f \in [0 .. MaxPerturb -> Nat] /\ f[0] = HashMax
      /\ \A i \in 1 .. MaxPerturb : f[i] = next[i][f[i - 1]]
  BY <1>3 DEF Recursion
<1>5. f = [i \in 0 .. MaxPerturb |-> IF i = 0 THEN HashMax ELSE f[i - 1] \div 32]
  <2> SUFFICES ASSUME NEW i \in 0 .. MaxPerturb
               PROVE  f[i] = IF i = 0 THEN HashMax ELSE f[i - 1] \div 32
    BY <1>4
  <2>1. i # 0 => i \in 1 .. MaxPerturb /\ f[i - 1] \in Nat
    BY <1>1, <1>4
  <2> QED
    BY <1>2, <1>4, <2>1
<1>6. Shifted = [i \in 0 .. MaxPerturb |-> IF i = 0 THEN HashMax ELSE Shifted[i - 1] \div 32]
  <2> DEFINE g == CHOOSE h : h = [i \in 0 .. MaxPerturb |->
                    IF i = 0 THEN HashMax ELSE h[i - 1] \div 32]
  <2>1. g = [i \in 0 .. MaxPerturb |-> IF i = 0 THEN HashMax ELSE g[i - 1] \div 32]
    BY <1>5
  <2>2. Shifted = g
    BY DEF Shifted
  <2> HIDE DEF g
  <2> QED
    BY <2>1, <2>2
<1>7. PICK q : q = Shifted
  OBVIOUS
<1>8. \A i \in 0 .. MaxPerturb : q[i] = IF i = 0 THEN HashMax ELSE q[i - 1] \div 32
  <2> DEFINE h == [i \in 0 .. MaxPerturb |-> IF i = 0 THEN HashMax ELSE q[i - 1] \div 32]
  <2>1. q = h
    BY <1>6, <1>7
  <2>2. \A i \in 0 .. MaxPerturb : h[i] = IF i = 0 THEN HashMax ELSE q[i - 1] \div 32
    OBVIOUS
  <2> HIDE DEF h
  <2> QED
    BY <2>1, <2>2
<1>9. \A i \in 0 .. MaxPerturb : q[i] \in Nat
  <2> DEFINE T == {i \in 0 .. MaxPerturb : q[i] \in Nat}
  <2>1. 0 \in T
    BY <1>1, <1>8
  <2>2. \A i \in 0 .. MaxPerturb - 1 : i \in T => i + 1 \in T
    BY <1>1, <1>8
  <2>3. \A i \in 0 .. MaxPerturb : i \in T
    <3> HIDE DEF T
    <3> QED
      BY <1>1, <2>1, <2>2, UpTo
  <2> QED
    BY <2>3
<1>10. q \in [0 .. MaxPerturb -> Nat]
  <2> DEFINE h == [i \in 0 .. MaxPerturb |-> IF i = 0 THEN HashMax ELSE q[i - 1] \div 32]
  <2>1. q = h /\ DOMAIN h = 0 .. MaxPerturb /\ h = [i \in DOMAIN h |-> h[i]]
    BY <1>6, <1>7
  <2> HIDE DEF h
  <2> QED
    BY <1>9, <2>1
<1> QED
  BY <1>1, <1>7, <1>8, <1>10

\* When perturb is used up it stays so.
LEMMA PerturbEnds ==
  ASSUME NEW hash \in 0 .. HashMax, NEW size \in TableSizes, NEW s, NEW p, Path(s, p, hash, size)
  PROVE  \A i \in MaxPerturb .. MaxPerturb + size : p[i] = 0
<1>1. MaxPerturb \in Nat /\ HashMax \in Nat /\ size \in Nat /\ Shifted[MaxPerturb] = 0
  BY SizesAreGreat, HashTableAssumption
<1>2. \A i \in 0 .. MaxPerturb + size : p[i] \in Nat
  <2>1. p \in [0 .. MaxPerturb + size -> 0 .. HashMax]
    BY DEF Path
  <2> QED
    BY <1>1, <2>1
<1>3. p[0] = hash /\ \A i \in 1 .. MaxPerturb + size : p[i] = p[i - 1] \div 32
  BY DEF Path
<1>4. p[MaxPerturb] = 0
  <2> DEFINE T == {i \in 0 .. MaxPerturb : p[i] <= Shifted[i]}
  <2>1. 0 \in T
    BY <1>1, <1>3, ShiftedIs
  <2>2. \A i \in 0 .. MaxPerturb - 1 : i \in T => i + 1 \in T
    <3> SUFFICES ASSUME NEW i \in 0 .. MaxPerturb - 1, p[i] <= Shifted[i]
                 PROVE  i + 1 \in 0 .. MaxPerturb /\ p[i + 1] <= Shifted[i + 1]
      OBVIOUS
    <3>1. p[i + 1] = p[i] \div 32 /\ p[i] \in Nat
      BY <1>1, <1>2, <1>3
    <3>2. Shifted[i + 1] = Shifted[i] \div 32 /\ Shifted[i] \in Nat
      BY <1>1, ShiftedIs
    <3> QED
      BY <1>1, <3>1, <3>2
  <2>3. \A i \in 0 .. MaxPerturb : i \in T
    <3> HIDE DEF T
    <3> QED
      BY <1>1, <2>1, <2>2, UpTo
  <2>4. p[MaxPerturb] <= Shifted[MaxPerturb]
    BY <1>1, <2>3
  <2> QED
    BY <1>1, <1>2, <2>4
<1> DEFINE T == {j \in 0 .. size : p[MaxPerturb + j] = 0}
<1>5. 0 \in T
  BY <1>1, <1>4
<1>6. \A j \in 0 .. size - 1 : j \in T => j + 1 \in T
  <2> SUFFICES ASSUME NEW j \in 0 .. size - 1, p[MaxPerturb + j] = 0
               PROVE  j + 1 \in 0 .. size /\ p[MaxPerturb + (j + 1)] = 0
    OBVIOUS
  <2>1. p[MaxPerturb + (j + 1)] = p[MaxPerturb + j] \div 32
    <3>1. /\ MaxPerturb + (j + 1) \in 1 .. MaxPerturb + size
          /\ (MaxPerturb + (j + 1)) - 1 = MaxPerturb + j
      BY <1>1
    <3> QED
      BY <1>3, <3>1
  <2> QED
    BY <1>1, <2>1
<1>7. \A j \in 0 .. size : j \in T
  <2> HIDE DEF T
  <2> QED
    BY <1>1, <1>5, <1>6, UpTo
<1> SUFFICES ASSUME NEW i \in MaxPerturb .. MaxPerturb + size PROVE p[i] = 0
  OBVIOUS
<1>8. i - MaxPerturb \in 0 .. size /\ MaxPerturb + (i - MaxPerturb) = i
  BY <1>1
<1> QED
  BY <1>7, <1>8

\* % is the remainder.
LEMMA Remainder ==
  ASSUME NEW size \in Nat, size > 0, NEW a \in Int, NEW b \in 0 .. size - 1
  PROVE  (size * a + b) % size = b
OBVIOUS

\* There is a quotient, too.
LEMMA Division ==
  ASSUME NEW size \in Nat, size > 0, NEW x \in Nat
  PROVE  \E a \in Nat, b \in 0 .. size - 1 : b = x % size /\ x = size * a + b
<1> DEFINE T == {y \in Nat : \E a \in Nat, b \in 0 .. size - 1 : y = size * a + b}
<1>1. 0 \in T
  <2>1. 0 = size * 0 + 0 /\ 0 \in 0 .. size - 1
    OBVIOUS
  <2> QED
    BY <2>1
<1>2. ASSUME NEW y \in T PROVE y + 1 \in T
  <2>1. PICK a \in Nat, b \in 0 .. size - 1 : y = size * a + b
    OBVIOUS
  <2>2. CASE b + 1 = size
    <3>1. y + 1 = size * (a + 1) + 0 /\ 0 \in 0 .. size - 1 /\ a + 1 \in Nat /\ y + 1 \in Nat
      BY <2>1, <2>2
    <3> QED
      BY <3>1
  <2>3. CASE b + 1 # size
    <3>1. y + 1 = size * a + (b + 1) /\ b + 1 \in 0 .. size - 1 /\ y + 1 \in Nat
      BY <2>1, <2>3
    <3> QED
      BY <3>1
  <2> QED
    BY <2>2, <2>3
<1>3. x \in T
  <2>1. T \in SUBSET Nat
    OBVIOUS
  <2> HIDE DEF T
  <2> QED
    BY <1>1, <1>2, <2>1, SetInduction
<1>4. PICK a \in Nat, b \in 0 .. size - 1 : x = size * a + b
  BY <1>3
<1>5. (size * a + b) % size = b
  BY Remainder
<1> QED
  BY <1>4, <1>5

\* A step of the cycle may be taken before or after the cut to a slot.
LEMMA CutStep ==
  ASSUME NEW size \in Nat, size > 0, NEW x \in Nat
  PROVE  (1 + 5 * (x % size) + 0) % size = (5 * x + 1) % size
<1>1. PICK q \in Nat, r \in 0 .. size - 1 : r = x % size /\ x = size * q + r
  BY Division
<1>3. PICK y \in Nat : y = 5 * r + 1
  BY <1>1
<1>4. PICK a \in Nat, b \in 0 .. size - 1 : b = y % size /\ y = size * a + b
  BY Division
<1>5. 5 * x + 1 = size * (5 * q + a) + b /\ 5 * q + a \in Int
  BY <1>1, <1>3, <1>4
<1>6. (5 * x + 1) % size = b
  BY <1>5, Remainder
<1>7. 1 + 5 * (x % size) + 0 = y
  BY <1>1, <1>3
<1> QED
  BY <1>4, <1>6, <1>7

\* Two values that are cut to the same slot differ by a multiple of the size.
LEMMA SameCut ==
  ASSUME NEW size \in Nat, size > 0, NEW x \in Nat, NEW y \in Nat, x % size = y % size
  PROVE  \E q \in Int : y - x = size * q
<1>1. PICK a \in Nat, r \in 0 .. size - 1 : r = x % size /\ x = size * a + r
  BY Division
<1>2. PICK b \in Nat, t \in 0 .. size - 1 : t = y % size /\ y = size * b + t
  BY Division
<1>3. y - x = size * (b - a) /\ b - a \in Int
  BY <1>1, <1>2
<1> QED
  BY <1>3

\* From the place where perturb is used up the probes are the cycle.
LEMMA PathIsCycle ==
  ASSUME NEW hash \in 0 .. HashMax, NEW size \in TableSizes, NEW s, NEW p, Path(s, p, hash, size),
         NEW g, Cycle(g, size), g[0] = s[MaxPerturb]
  PROVE  \A j \in 0 .. size : s[MaxPerturb + j] = g[j] % size
<1>1. MaxPerturb \in Nat /\ size \in Nat /\ size > 0
  BY SizesAreGreat, HashTableAssumption
<1>2. /\ \A i \in 0 .. MaxPerturb + size : s[i] \in 0 .. size - 1
      /\ \A i \in 1 .. MaxPerturb + size : s[i] = (1 + 5 * s[i - 1] + p[i]) % size
  BY DEF Path
<1>3. \A i \in MaxPerturb .. MaxPerturb + size : p[i] = 0
  BY PerturbEnds
<1>4. /\ \A j \in 0 .. size : g[j] \in Nat
      /\ \A j \in 0 .. size - 1 : g[j + 1] = 5 * g[j] + 1
  BY DEF Cycle
<1> DEFINE T == {j \in 0 .. size : s[MaxPerturb + j] = g[j] % size}
<1>5. 0 \in T
  <2>1. PICK x \in 0 .. size - 1 : x = s[MaxPerturb]
    BY <1>1, <1>2
  <2>2. x % size = x
    <3>1. (size * 0 + x) % size = x
      BY <1>1, Remainder
    <3>2. size * 0 + x = x
      BY <1>1
    <3> QED
      BY <3>1, <3>2
  <2>3. MaxPerturb + 0 = MaxPerturb /\ 0 \in 0 .. size
    BY <1>1
  <2> QED
    BY <2>1, <2>2, <2>3
<1>6. \A j \in 0 .. size - 1 : j \in T => j + 1 \in T
  <2> SUFFICES ASSUME NEW j \in 0 .. size - 1, s[MaxPerturb + j] = g[j] % size
               PROVE  j + 1 \in 0 .. size /\ s[MaxPerturb + (j + 1)] = g[j + 1] % size
    OBVIOUS
  <2>1. /\ MaxPerturb + (j + 1) \in 1 .. MaxPerturb + size
        /\ MaxPerturb + (j + 1) \in MaxPerturb .. MaxPerturb + size
        /\ (MaxPerturb + (j + 1)) - 1 = MaxPerturb + j
        /\ j \in 0 .. size /\ j + 1 \in 0 .. size
    BY <1>1
  <2>2. s[MaxPerturb + (j + 1)] = (1 + 5 * s[MaxPerturb + j] + p[MaxPerturb + (j + 1)]) % size
    BY <1>2, <2>1
  <2>3. p[MaxPerturb + (j + 1)] = 0
    BY <1>3, <2>1
  <2>4. PICK x \in Nat : x = g[j]
    BY <1>4, <2>1
  <2>5. s[MaxPerturb + (j + 1)] = (1 + 5 * (x % size) + 0) % size
    BY <2>2, <2>3, <2>4
  <2>6. g[j + 1] = 5 * x + 1
    BY <1>4, <2>4
  <2> QED
    BY <1>1, <2>1, <2>5, <2>6, CutStep
<1>7. \A j \in 0 .. size : j \in T
  <2> HIDE DEF T
  <2> QED
    BY <1>1, <1>5, <1>6, UpTo
<1> QED
  BY <1>7

\* The probes of a hash value reach every slot of the table.
LEMMA EverySlotProbed ==
  ASSUME NEW hash \in 0 .. HashMax, NEW size \in TableSizes
  PROVE  /\ ProbePath(hash, size) \in [0 .. MaxPerturb + size -> 0 .. size - 1]
         /\ \A slot \in 0 .. size - 1 :
              \E i \in 0 .. MaxPerturb + size : ProbePath(hash, size)[i] = slot
<1>1. PICK s, p : s = ProbePath(hash, size) /\ Path(s, p, hash, size)
  BY ProbePathIs
<1>2. MaxPerturb \in Nat /\ size \in Nat /\ size > 0
  BY SizesAreGreat, HashTableAssumption
<1>3. s \in [0 .. MaxPerturb + size -> 0 .. size - 1]
  BY <1>1 DEF Path
<1>4. s[MaxPerturb] \in Nat
  BY <1>2, <1>3
<1>5. PICK g : Cycle(g, size) /\ g[0] = s[MaxPerturb]
  BY <1>2, <1>4, CycleExists
<1>6. \A j \in 0 .. size : s[MaxPerturb + j] = g[j] % size
  BY <1>1, <1>5, PathIsCycle
<1>7. Apart(g, size, size)
  BY <1>2, <1>5, CycleApart
<1> DEFINE f == [j \in 0 .. size - 1 |-> s[MaxPerturb + j]]
<1>8. f \in [0 .. size - 1 -> 0 .. size - 1]
  BY <1>2, <1>3
<1>9. ASSUME NEW i \in 0 .. size - 1, NEW j \in 0 .. size - 1, f[i] = f[j], i < j
      PROVE  FALSE
  <2>1. g[i] \in Nat /\ g[j] \in Nat
    BY <1>2, <1>5 DEF Cycle
  <2>2. g[i] % size = g[j] % size
    <3>1. i \in 0 .. size /\ j \in 0 .. size
      BY <1>2
    <3> QED
      BY <1>6, <1>9, <3>1
  <2>3. PICK q \in Int : g[j] - g[i] = size * q
    BY <1>2, <2>1, <2>2, SameCut
  <2>4. PICK d \in 1 .. size - 1 : d = j - i
    BY <1>2, <1>9
  <2>5. i \in 0 .. size /\ i + d = j /\ i + d <= size
    BY <1>2, <2>4
  <2>6. g[i + d] - g[i] # size * q
    BY <1>7, <2>5 DEF Apart
  <2> QED
    BY <2>3, <2>5, <2>6
<1>10. f \in Injection(0 .. size - 1, 0 .. size - 1)
  <2> HIDE DEF f
  <2>1. ASSUME NEW i \in 0 .. size - 1, NEW j \in 0 .. size - 1, f[i] = f[j] PROVE i = j
    BY <1>2, <1>9, <2>1
  <2> QED
    BY <1>8, <2>1 DEF Injection, IsInjective
<1>11. f \in Surjection(0 .. size - 1, 0 .. size - 1)
  <2> HIDE DEF f
  <2>1. IsFiniteSet(0 .. size - 1)
    BY <1>2, FS_Interval
  <2> QED
    BY <1>10, <2>1, FS_Injection
<1>12. ASSUME NEW slot \in 0 .. size - 1 PROVE \E i \in 0 .. MaxPerturb + size : s[i] = slot
  <2>1. PICK j \in 0 .. size - 1 : f[j] = slot
    BY <1>11 DEF Surjection
  <2>2. MaxPerturb + j \in 0 .. MaxPerturb + size /\ s[MaxPerturb + j] = slot
    BY <1>2, <2>1
  <2> QED
    BY <2>2
<1> QED
  BY <1>1, <1>3, <1>12

-------------------------------------------------------------------------------
(* Slots and lookup().                                                     *)

\* A slot that holds a key, and what it holds after the key was inserted.
UsedSlot    == [hash : 1 .. HashMax - 1, key : Keys, value : Values]
Entry(k, v) == [hash |-> compute_hash(k), key |-> k, value |-> v]

\* The array of slots of a table.
IsTable(t, size) ==
  size \in TableSizes /\ t \in [0 .. size - 1 -> {EmptySlot, Tombstone} \union UsedSlot]

\* A slot is empty, a tombstone or in use, and its hash value says which.
LEMMA SlotKinds ==
  ASSUME NEW x \in {EmptySlot, Tombstone} \union UsedSlot
  PROVE  /\ x.hash = EMPTY_HASH <=> x = EmptySlot
         /\ x.hash = DELETED_HASH <=> x = Tombstone
         /\ ~ empty_entry(x) <=> x \in UsedSlot
         /\ x.value \in Values \union {NoValue}
         /\ empty_entry(x) => x.key = NoKey /\ x.value = NoValue
         /\ ~ empty_entry(x) => x.key \in Keys /\ x.hash \in 1 .. HashMax - 1
<1>1. HashMax \in Nat /\ HashMax > 2 /\ NoKey \notin Keys
  BY HashTableAssumption
<1> USE DEF EmptySlot, Tombstone, UsedSlot, EMPTY_HASH, DELETED_HASH, empty_entry
<1>2. CASE x = EmptySlot
  BY <1>1, <1>2
<1>3. CASE x = Tombstone
  BY <1>1, <1>3
<1>4. CASE x \in UsedSlot
  <2>1. x.hash \in 1 .. HashMax - 1 /\ x.key \in Keys /\ x.value \in Values
    BY <1>4
  <2>2. x.hash # EMPTY_HASH /\ x.hash # DELETED_HASH
    BY <1>1, <2>1
  <2>3. x # EmptySlot /\ x # Tombstone
    BY <2>2
  <2> QED
    BY <1>4, <2>1, <2>2, <2>3
<1> QED
  BY <1>2, <1>3, <1>4

\* The hash value of a key marks no slot.
LEMMA HashOfKey ==
  ASSUME NEW k \in Keys
  PROVE  /\ compute_hash(k) \in 1 .. HashMax - 1 /\ compute_hash(k) \in 0 .. HashMax
         /\ compute_hash(k) # EMPTY_HASH /\ compute_hash(k) # DELETED_HASH
         /\ \A v \in Values : Entry(k, v) \in UsedSlot
<1>1. HashMax \in Nat /\ HashMax > 2 /\ RawHash[k] \in 0 .. HashMax
  BY HashTableAssumption
<1>2. compute_hash(k) \in 1 .. HashMax - 1
  BY <1>1 DEF compute_hash, EMPTY_HASH, DELETED_HASH
<1> QED
  BY <1>1, <1>2 DEF EMPTY_HASH, DELETED_HASH, Entry, UsedSlot

\* The probes of a key reach every slot.
LEMMA ProbesReach ==
  ASSUME NEW k \in Keys, NEW size \in TableSizes
  PROVE  /\ Probes[k][size] \in [0 .. MaxPerturb + size -> 0 .. size - 1]
         /\ \A slot \in 0 .. size - 1 :
              \E i \in 0 .. MaxPerturb + size : Probes[k][size][i] = slot
<1>1. Probes[k][size] = ProbePath(compute_hash(k), size)
  BY DEF Probes
<1>2. compute_hash(k) \in 0 .. HashMax
  BY HashOfKey
<1> QED
  BY <1>1, <1>2, EverySlotProbed

\* This is where the probes of an absent key end.
HasEmpty(t, size) == \E i \in 0 .. size - 1 : t[i].hash = EMPTY_HASH

\* lookup() for the key whose probes are p ends at p[n], and returns p[j].
Ending(t, p, k, n) == Ends(t, p[n], k) /\ \A m \in 0 .. n - 1 : ~ Ends(t, p[m], k)
Returns(t, p, k, n, j) ==
  /\ \A m \in 0 .. j - 1 : p[m] # p[j]
  /\ \/ j = n /\ Match(t, p[n], k)
     \/ t[p[n]].hash = EMPTY_HASH /\ empty_entry(t[p[j]])

\* In a table with an empty slot lookup() has a result.
LEMMA LookupIs ==
  ASSUME NEW size, NEW t, IsTable(t, size), HasEmpty(t, size), NEW k \in Keys
  PROVE  \E n, j \in 0 .. MaxPerturb + size :
           /\ j <= n
           /\ Ending(t, Probes[k][size], k, n)
           /\ Returns(t, Probes[k][size], k, n, j)
           /\ lookup(t, size, k) = Probes[k][size][j]
<1>1. size \in TableSizes /\ size \in Nat /\ MaxPerturb \in Nat
  BY SizesAreGreat, HashTableAssumption DEF IsTable
<1>2. PICK p : p = Probes[k][size]
  OBVIOUS
<1>3. PICK last \in Nat : last = MaxPerturb + size
  BY <1>1
<1>4. /\ p \in [0 .. last -> 0 .. size - 1]
      /\ \A slot \in 0 .. size - 1 : \E i \in 0 .. last : p[i] = slot
  BY <1>1, <1>2, <1>3, ProbesReach
<1>5. DOMAIN p = 0 .. last
  BY <1>4
<1>6. PICK some \in 0 .. last : Ends(t, p[some], k)
  BY <1>4 DEF HasEmpty, Ends
<1> DEFINE Stop == {i \in 0 .. last : Ends(t, p[i], k) \/ i + 1 \notin 0 .. last}
<1>7. last \in Stop
  OBVIOUS
<1> DEFINE walk == CHOOSE f : f = [i \in 0 .. last |->
                     IF Ends(t, p[i], k) \/ i + 1 \notin 0 .. last THEN i ELSE f[i + 1]]
<1>8. Search(walk, last, Stop)
  <2>1. PICK f : Search(f, last, Stop)
    <3> HIDE DEF Stop
    <3> QED
      BY <1>7, SearchExists DEF Stop
  <2>2. f = [i \in 0 .. last |-> IF Ends(t, p[i], k) \/ i + 1 \notin 0 .. last THEN i ELSE f[i + 1]]
    BY <2>1 DEF Search
  <2>3. walk = [i \in 0 .. last |->
                  IF Ends(t, p[i], k) \/ i + 1 \notin 0 .. last THEN i ELSE walk[i + 1]]
    BY <2>2
  <2> HIDE DEF walk
  <2> QED
    BY <2>3 DEF Search
<1> DEFINE end == walk[0]
           tombs == {i \in 0 .. end : t[p[i]].hash = DELETED_HASH}
<1>9. lookup(t, size, k) = IF Match(t, p[end], k) \/ tombs = {} THEN p[end] ELSE p[Min(tombs)]
  BY <1>2, <1>5 DEF lookup
<1> HIDE DEF walk
<1>10. end \in Stop /\ \A m \in 0 .. end - 1 : m \notin Stop
  <2> HIDE DEF Stop
  <2>1. last \in Nat /\ Stop \in SUBSET (0 .. last)
    BY DEF Stop
  <2> QED
    BY <1>7, <1>8, <2>1, SearchFinds
<1>11. PICK n \in 0 .. last : n = end
  BY <1>10
<1>12. \A m \in 0 .. n - 1 : ~ Ends(t, p[m], k)
  <2> SUFFICES ASSUME NEW m \in 0 .. n - 1 PROVE ~ Ends(t, p[m], k)
    OBVIOUS
  <2>1. m \in 0 .. last /\ m \notin Stop
    BY <1>10, <1>11
  <2> QED
    BY <2>1
<1>13. Ends(t, p[n], k)
  <2> SUFFICES ASSUME ~ Ends(t, p[n], k) PROVE FALSE
    OBVIOUS
  <2>1. n = last
    BY <1>10, <1>11
  <2>2. some = n \/ some \in 0 .. n - 1
    BY <2>1
  <2> QED
    BY <1>6, <1>12, <2>2
<1>14. \A i \in 0 .. last : t[p[i]] \in {EmptySlot, Tombstone} \union UsedSlot
  BY <1>4 DEF IsTable
<1>15. PICK T : T = tombs
  OBVIOUS
<1>16. T = {i \in 0 .. n : t[p[i]].hash = DELETED_HASH}
  BY <1>11, <1>15
<1>17. lookup(t, size, k) = IF Match(t, p[n], k) \/ T = {} THEN p[n] ELSE p[Min(T)]
  BY <1>9, <1>11, <1>15
<1> HIDE DEF end, tombs, Stop
<1>18. \A m \in 0 .. n - 1 : p[m] # p[n]
  BY <1>12, <1>13
<1>19. ASSUME NEW j \in 0 .. n, Returns(t, p, k, n, j), lookup(t, size, k) = p[j]
       PROVE  \E m, i \in 0 .. MaxPerturb + size :
                /\ i <= m
                /\ Ending(t, Probes[k][size], k, m)
                /\ Returns(t, Probes[k][size], k, m, i)
                /\ lookup(t, size, k) = Probes[k][size][i]
  <2>1. /\ Ending(t, p, k, n)
        /\ n \in 0 .. MaxPerturb + size /\ j \in 0 .. MaxPerturb + size /\ j <= n
    BY <1>3, <1>12, <1>13 DEF Ending
  <2> QED
    BY <1>2, <1>19, <2>1
<1>20. CASE Match(t, p[n], k)
  <2>1. Returns(t, p, k, n, n)
    BY <1>18, <1>20 DEF Returns
  <2>2. n \in 0 .. n
    OBVIOUS
  <2> QED
    BY <1>17, <1>19, <1>20, <2>1, <2>2
<1>21. CASE ~ Match(t, p[n], k) /\ T = {}
  <2>1. t[p[n]].hash = EMPTY_HASH
    BY <1>13, <1>21 DEF Ends
  <2>2. Returns(t, p, k, n, n)
    BY <1>18, <2>1 DEF Returns, empty_entry
  <2>3. n \in 0 .. n
    OBVIOUS
  <2> QED
    BY <1>17, <1>19, <1>21, <2>2, <2>3
<1>22. CASE ~ Match(t, p[n], k) /\ T # {}
  <2>1. t[p[n]].hash = EMPTY_HASH
    BY <1>13, <1>22 DEF Ends
  <2>2. T \in SUBSET Nat
    BY <1>16
  <2>3. \E i \in T : \A m \in T : i <= m
    BY <1>22, <2>2, LeastNat
  <2>4. PICK j : j = Min(T)
    OBVIOUS
  <2>5. j \in T /\ \A m \in T : j <= m
    BY <2>3, <2>4 DEF Min
  <2>6. j \in 0 .. n /\ t[p[j]].hash = DELETED_HASH
    BY <1>16, <2>5
  <2>7. \A m \in 0 .. j - 1 : p[m] # p[j]
    BY <1>16, <2>5, <2>6
  <2>8. Returns(t, p, k, n, j)
    BY <2>1, <2>6, <2>7 DEF Returns, empty_entry
  <2> QED
    BY <1>17, <1>19, <1>22, <2>4, <2>6, <2>8
<1> QED
  BY <1>20, <1>21, <1>22

-------------------------------------------------------------------------------
(* Good tables: each key in use is on its own probes, before they end.     *)

\* Slot i is on the probes of k, with no end of them before it.
Reach(t, size, k, i) ==
  \E n \in 0 .. MaxPerturb + size :
    Probes[k][size][n] = i /\ \A m \in 0 .. n - 1 : ~ Ends(t, Probes[k][size][m], k)

\* What lookup() needs: no key in use is cut off from its probes.
Good(t, size) ==
  /\ IsTable(t, size)
  /\ \A i \in 0 .. size - 1 : ~ empty_entry(t[i]) =>
       t[i].hash = compute_hash(t[i].key) /\ Reach(t, size, t[i].key, i)

\* The table after hash_table_insert() and hash_table_delete() have changed slot s.
Put(t, s, k, v) == [t EXCEPT ![s] = Entry(k, v)]
Bury(t, s)      == [t EXCEPT ![s] = Tombstone]

\* A slot has the key.
Has(t, size, k) == \E i \in 0 .. size - 1 : ~ empty_entry(t[i]) /\ t[i].key = k

\* A match is a slot in use.
LEMMA MatchIsUse ==
  ASSUME NEW size, NEW t, IsTable(t, size), NEW k \in Keys, NEW i \in 0 .. size - 1
  PROVE  /\ Match(t, i, k) => ~ empty_entry(t[i]) /\ t[i].key = k /\ t[i].hash # EMPTY_HASH
         /\ Match(t, i, k) => Has(t, size, k)
<1>1. Match(t, i, k) => ~ empty_entry(t[i]) /\ t[i].key = k /\ t[i].hash # EMPTY_HASH
  BY HashOfKey DEF Match, empty_entry
<1> QED
  BY <1>1 DEF Has

\* lookup() finds the slot that holds a key,
LEMMA KeyFound ==
  ASSUME NEW size, NEW t, Good(t, size), HasEmpty(t, size),
         NEW i \in 0 .. size - 1, ~ empty_entry(t[i])
  PROVE  lookup(t, size, t[i].key) = i
<1>1. IsTable(t, size) /\ size \in TableSizes /\ size \in Nat /\ MaxPerturb \in Nat
  BY SizesAreGreat, HashTableAssumption DEF Good, IsTable
<1>2. t[i] \in {EmptySlot, Tombstone} \union UsedSlot
  BY <1>1 DEF IsTable
<1>3. PICK k \in Keys : k = t[i].key
  BY <1>2, SlotKinds
<1>4. t[i].hash = compute_hash(k) /\ Reach(t, size, k, i)
  BY <1>3 DEF Good
<1>5. PICK p : p = Probes[k][size]
  OBVIOUS
<1>6. p \in [0 .. MaxPerturb + size -> 0 .. size - 1]
  BY <1>1, <1>5, ProbesReach
<1>7. PICK a \in 0 .. MaxPerturb + size : p[a] = i /\ \A m \in 0 .. a - 1 : ~ Ends(t, p[m], k)
  BY <1>4, <1>5 DEF Reach
<1>8. Match(t, p[a], k)
  <2>1. Match(t, i, k)
    BY <1>3, <1>4 DEF Match
  <2>2. p[a] = i
    BY <1>7
  <2> QED
    BY <2>1, <2>2
<1>9. PICK n, j \in 0 .. MaxPerturb + size :
        /\ j <= n /\ Ending(t, p, k, n) /\ Returns(t, p, k, n, j)
        /\ lookup(t, size, k) = p[j]
  BY <1>1, <1>5, LookupIs
<1>10. a = n
  <2>1. Ends(t, p[a], k)
    BY <1>8 DEF Ends
  <2>2. Ends(t, p[n], k) /\ \A m \in 0 .. n - 1 : ~ Ends(t, p[m], k)
    BY <1>9 DEF Ending
  <2>3. ~ (a \in 0 .. n - 1) /\ ~ (n \in 0 .. a - 1)
    BY <1>7, <2>1, <2>2
  <2> QED
    BY <1>1, <2>3
<1>11. t[p[n]].hash # EMPTY_HASH
  BY <1>1, <1>6, <1>8, <1>10, MatchIsUse
<1>12. j = n
  BY <1>9, <1>11 DEF Returns
<1> QED
  BY <1>3, <1>7, <1>9, <1>10, <1>12

\* and a free slot for a key that no slot holds.
LEMMA KeyAbsent ==
  ASSUME NEW size, NEW t, IsTable(t, size), HasEmpty(t, size), NEW k \in Keys, ~ Has(t, size, k)
  PROVE  /\ lookup(t, size, k) \in 0 .. size - 1
         /\ empty_entry(t[lookup(t, size, k)])
<1>1. size \in TableSizes /\ size \in Nat /\ MaxPerturb \in Nat
  BY SizesAreGreat, HashTableAssumption DEF IsTable
<1>2. PICK p : p = Probes[k][size]
  OBVIOUS
<1>3. p \in [0 .. MaxPerturb + size -> 0 .. size - 1]
  BY <1>1, <1>2, ProbesReach
<1>4. PICK n, j \in 0 .. MaxPerturb + size :
        /\ j <= n /\ Ending(t, p, k, n) /\ Returns(t, p, k, n, j)
        /\ lookup(t, size, k) = p[j]
  BY <1>2, LookupIs
<1>5. p[j] \in 0 .. size - 1 /\ p[n] \in 0 .. size - 1
  BY <1>1, <1>3
<1>6. ~ Match(t, p[n], k)
  BY <1>5, MatchIsUse
<1> QED
  BY <1>4, <1>5, <1>6 DEF Returns

\* No key is in two slots.
LEMMA KeyOnce ==
  ASSUME NEW size, NEW t, Good(t, size), NEW i \in 0 .. size - 1, NEW j \in 0 .. size - 1,
         ~ empty_entry(t[i]), ~ empty_entry(t[j]), t[i].key = t[j].key
  PROVE  i = j
<1>1. IsTable(t, size) /\ size \in TableSizes /\ size \in Nat /\ MaxPerturb \in Nat
  BY SizesAreGreat, HashTableAssumption DEF Good, IsTable
<1>2. PICK k : k = t[i].key
  OBVIOUS
<1>3. PICK p : p = Probes[k][size]
  OBVIOUS
<1>4. /\ t[i].hash = compute_hash(k) /\ t[j].hash = compute_hash(k)
      /\ Reach(t, size, k, i) /\ Reach(t, size, k, j)
  BY <1>2 DEF Good
<1>5. PICK a \in 0 .. MaxPerturb + size : p[a] = i /\ \A m \in 0 .. a - 1 : ~ Ends(t, p[m], k)
  BY <1>3, <1>4 DEF Reach
<1>6. PICK b \in 0 .. MaxPerturb + size : p[b] = j /\ \A m \in 0 .. b - 1 : ~ Ends(t, p[m], k)
  BY <1>3, <1>4 DEF Reach
<1>7. Ends(t, p[a], k) /\ Ends(t, p[b], k)
  BY <1>2, <1>4, <1>5, <1>6 DEF Ends, Match
<1>8. ~ (a \in 0 .. b - 1) /\ ~ (b \in 0 .. a - 1)
  BY <1>5, <1>6, <1>7
<1>9. a = b
  BY <1>1, <1>8
<1> QED
  BY <1>5, <1>6, <1>9

\* A slot that does not end the probes of a key before a change does not after it.
LEMMA ReachKept ==
  ASSUME NEW size, NEW t, NEW u, NEW s \in 0 .. size - 1, NEW k \in Keys, NEW i,
         size \in TableSizes, Reach(t, size, k, i),
         \A m \in 0 .. size - 1 : m # s => u[m] = t[m],
         ~ Ends(t, s, k) => ~ Ends(u, s, k)
  PROVE  Reach(u, size, k, i)
<1>1. PICK p : p = Probes[k][size]
  OBVIOUS
<1>2. p \in [0 .. MaxPerturb + size -> 0 .. size - 1] /\ MaxPerturb \in Nat /\ size \in Nat
  BY <1>1, ProbesReach, SizesAreGreat, HashTableAssumption
<1>3. PICK n \in 0 .. MaxPerturb + size : p[n] = i /\ \A m \in 0 .. n - 1 : ~ Ends(t, p[m], k)
  BY <1>1 DEF Reach
<1>4. ASSUME NEW m \in 0 .. n - 1 PROVE ~ Ends(u, p[m], k)
  <2>1. p[m] \in 0 .. size - 1 /\ ~ Ends(t, p[m], k)
    BY <1>2, <1>3
  <2>2. CASE p[m] = s
    BY <2>1, <2>2
  <2>3. CASE p[m] # s
    <3>1. u[p[m]] = t[p[m]]
      BY <2>1, <2>3
    <3> QED
      BY <2>1, <3>1 DEF Ends, Match
  <2> QED
    BY <2>2, <2>3
<1> QED
  BY <1>1, <1>3, <1>4 DEF Reach

\* An entry put where lookup() says is where it will be found.
LEMMA PutGood ==
  ASSUME NEW size, NEW t, Good(t, size), HasEmpty(t, size), NEW k \in Keys, NEW v \in Values,
         NEW s, s = lookup(t, size, k)
  PROVE  /\ s \in 0 .. size - 1
         /\ Good(Put(t, s, k, v), size)
         /\ empty_entry(t[s]) \/ t[s].key = k
         /\ \A i \in 0 .. size - 1 : ~ empty_entry(t[i]) /\ t[i].key = k => i = s
<1>1. /\ IsTable(t, size) /\ size \in TableSizes /\ size \in Nat /\ MaxPerturb \in Nat
      /\ t \in [0 .. size - 1 -> {EmptySlot, Tombstone} \union UsedSlot]
  BY SizesAreGreat, HashTableAssumption DEF Good, IsTable
<1>2. PICK p : p = Probes[k][size]
  OBVIOUS
<1>3. p \in [0 .. MaxPerturb + size -> 0 .. size - 1]
  BY <1>1, <1>2, ProbesReach
<1>4. PICK n, j \in 0 .. MaxPerturb + size :
        /\ j <= n /\ Ending(t, p, k, n) /\ Returns(t, p, k, n, j)
        /\ lookup(t, size, k) = p[j]
  BY <1>1, <1>2, LookupIs
<1>5. s = p[j] /\ s \in 0 .. size - 1 /\ p[n] \in 0 .. size - 1
  BY <1>1, <1>3, <1>4
<1>6. \A i \in 0 .. size - 1 : ~ empty_entry(t[i]) /\ t[i].key = k => i = s
  BY KeyFound
<1>7. empty_entry(t[s]) \/ (Match(t, s, k) /\ t[s].key = k)
  <2>1. Match(t, s, k) => t[s].key = k
    BY DEF Match
  <2>2. (j = n /\ Match(t, p[n], k)) \/ empty_entry(t[p[j]])
    BY <1>4 DEF Returns
  <2>3. PICK e : e = p[j]
    OBVIOUS
  <2>4. s = e /\ (j = n => p[n] = e)
    BY <1>5, <2>3
  <2>5. Match(t, e, k) \/ empty_entry(t[e])
    BY <2>2, <2>3, <2>4
  <2> QED
    BY <2>1, <2>4, <2>5
<1>8. PICK u : u = Put(t, s, k, v)
  OBVIOUS
<1>9. /\ u \in [0 .. size - 1 -> {EmptySlot, Tombstone} \union UsedSlot]
      /\ u[s] = Entry(k, v) /\ \A i \in 0 .. size - 1 : i # s => u[i] = t[i]
  <2>1. Entry(k, v) \in UsedSlot
    BY HashOfKey
  <2> QED
    BY <1>1, <1>5, <1>8, <2>1 DEF Put
<1>10. u[s].hash = compute_hash(k) /\ u[s].key = k
  BY <1>9 DEF Entry
<1>11. Reach(u, size, k, s)
  <2>1. ASSUME NEW m \in 0 .. j - 1 PROVE ~ Ends(u, p[m], k)
    <3>1. p[m] # s /\ p[m] \in 0 .. size - 1
      BY <1>1, <1>3, <1>4, <1>5 DEF Returns
    <3>2. ~ Ends(t, p[m], k)
      BY <1>4 DEF Ending
    <3> QED
      BY <1>9, <3>1, <3>2 DEF Ends, Match
  <2>2. j \in 0 .. MaxPerturb + size
    BY <1>1
  <2> QED
    BY <1>2, <1>5, <2>1, <2>2 DEF Reach
<1>12. ASSUME NEW i \in 0 .. size - 1, ~ empty_entry(u[i])
       PROVE  u[i].hash = compute_hash(u[i].key) /\ Reach(u, size, u[i].key, i)
  <2>1. CASE i = s
    BY <1>10, <1>11, <2>1
  <2>2. CASE i # s
    <3>1. u[i] = t[i]
      BY <1>9, <2>2
    <3>2. t[i].hash = compute_hash(t[i].key) /\ Reach(t, size, t[i].key, i)
      BY <1>12, <3>1 DEF Good
    <3>3. PICK q \in Keys : q = t[i].key
      BY <1>1, <1>12, <3>1, SlotKinds
    <3>4. q # k
      BY <1>6, <1>12, <2>2, <3>1, <3>3
    <3>5. ~ Ends(u, s, q)
      BY <1>10, <3>4, HashOfKey DEF Ends, Match
    <3>6. Reach(u, size, q, i)
      BY <1>1, <1>5, <1>9, <3>2, <3>3, <3>5, ReachKept
    <3> QED
      BY <3>1, <3>2, <3>3, <3>6
  <2> QED
    BY <2>1, <2>2
<1>13. Good(u, size)
  BY <1>1, <1>9, <1>12 DEF Good, IsTable
<1> QED
  BY <1>5, <1>6, <1>7, <1>8, <1>13

\* A tombstone in the place of an entry leaves the others where they are found.
LEMMA DeleteGood ==
  ASSUME NEW size, NEW t, Good(t, size), NEW s \in 0 .. size - 1, ~ empty_entry(t[s])
  PROVE  Good(Bury(t, s), size)
<1>1. /\ size \in TableSizes
      /\ t \in [0 .. size - 1 -> {EmptySlot, Tombstone} \union UsedSlot]
  BY DEF Good, IsTable
<1>2. PICK u : u = Bury(t, s)
  OBVIOUS
<1>3. /\ u \in [0 .. size - 1 -> {EmptySlot, Tombstone} \union UsedSlot]
      /\ u[s] = Tombstone /\ \A i \in 0 .. size - 1 : i # s => u[i] = t[i]
  BY <1>1, <1>2 DEF Bury
<1>4. empty_entry(u[s]) /\ u[s].hash = DELETED_HASH /\ DELETED_HASH # EMPTY_HASH
  BY <1>3, HashTableAssumption DEF Tombstone, empty_entry, DELETED_HASH, EMPTY_HASH
<1>5. ASSUME NEW i \in 0 .. size - 1, ~ empty_entry(u[i])
      PROVE  u[i].hash = compute_hash(u[i].key) /\ Reach(u, size, u[i].key, i)
  <2>1. i # s /\ u[i] = t[i]
    BY <1>3, <1>4, <1>5
  <2>2. t[i].hash = compute_hash(t[i].key) /\ Reach(t, size, t[i].key, i)
    BY <1>5, <2>1 DEF Good
  <2>3. PICK q \in Keys : q = t[i].key
    BY <1>1, <1>5, <2>1, SlotKinds
  <2>4. ~ Ends(u, s, q)
    BY <1>4, HashOfKey DEF Ends, Match
  <2>5. Reach(u, size, q, i)
    BY <1>1, <1>3, <2>2, <2>3, <2>4, ReachKept
  <2> QED
    BY <2>1, <2>2, <2>3, <2>5
<1> QED
  BY <1>1, <1>2, <1>3, <1>5 DEF Good, IsTable

-------------------------------------------------------------------------------
(* Counts.                                                                 *)

\* The slots that are counted: those in use, those that are not empty, the tombstones.
UsedIn(t, size)   == {i \in 0 .. size - 1 : ~ empty_entry(t[i])}
FilledIn(t, size) == {i \in 0 .. size - 1 : t[i].hash # EMPTY_HASH}
TombsIn(t, size)  == {i \in 0 .. size - 1 : t[i].hash = DELETED_HASH}

\* Every entry of the table a is in the table b.
Within(a, m, b, n) == \A i \in UsedIn(a, m) : \E j \in UsedIn(b, n) : b[j] = a[i]

\* The slots of a table can be counted.
LEMMA Counts ==
  ASSUME NEW size, NEW t, IsTable(t, size)
  PROVE  /\ IsFiniteSet(0 .. size - 1) /\ Cardinality(0 .. size - 1) = size
         /\ \A T \in SUBSET (0 .. size - 1) :
              IsFiniteSet(T) /\ Cardinality(T) \in Nat /\ Cardinality(T) <= size
<1>1. size \in Nat /\ size >= 8
  BY SizesAreGreat DEF IsTable
<1>2. IsFiniteSet(0 .. size - 1) /\ Cardinality(0 .. size - 1) = size
  BY <1>1, FS_Interval
<1>3. ASSUME NEW T \in SUBSET (0 .. size - 1)
      PROVE  IsFiniteSet(T) /\ Cardinality(T) \in Nat /\ Cardinality(T) <= size
  <2>1. IsFiniteSet(T) /\ Cardinality(T) <= size
    BY <1>2, FS_Subset
  <2> QED
    BY <2>1, FS_CardinalityType
<1> QED
  BY <1>2, <1>3

\* A table whose entries are all in another has no more of them.
LEMMA NoMoreEntries ==
  ASSUME NEW m, NEW a, Good(a, m), NEW n, NEW b, IsTable(b, n), Within(a, m, b, n)
  PROVE  Cardinality(UsedIn(a, m)) <= Cardinality(UsedIn(b, n))
<1> DEFINE A == UsedIn(a, m)  B == UsedIn(b, n)
           f == [i \in A |-> CHOOSE j \in B : b[j] = a[i]]
<1>1. ASSUME NEW i \in A PROVE f[i] \in B /\ b[f[i]] = a[i]
  BY DEF Within
<1>2. f \in [A -> B]
  BY <1>1
<1>3. ASSUME NEW i \in A, NEW j \in A, f[i] = f[j] PROVE i = j
  <2>1. a[i] = a[j]
    BY <1>1, <1>3
  <2>2. i \in 0 .. m - 1 /\ j \in 0 .. m - 1 /\ ~ empty_entry(a[i]) /\ ~ empty_entry(a[j])
    BY DEF UsedIn
  <2> QED
    BY <2>1, <2>2, KeyOnce
<1>4. IsFiniteSet(B)
  <2>1. B \in SUBSET (0 .. n - 1)
    BY DEF UsedIn
  <2> QED
    BY <2>1, Counts
<1> HIDE DEF A, B, f
<1>5. DOMAIN f = A
  BY <1>2
<1>6. f \in Injection(A, B)
  BY <1>2, <1>3, <1>5 DEF Injection, IsInjective
<1>7. Cardinality(A) <= Cardinality(B)
  BY <1>4, <1>6, FS_Injection
<1> QED
  BY <1>7 DEF A, B

\* There are no more entries than keys.
LEMMA NoMoreThanKeys ==
  ASSUME NEW size, NEW t, Good(t, size)
  PROVE  /\ Cardinality(UsedIn(t, size)) <= Cardinality(Keys)
         /\ Cardinality(Keys) \in Nat
<1> DEFINE A == UsedIn(t, size)
           f == [i \in A |-> t[i].key]
<1>1. ASSUME NEW i \in A PROVE t[i].key \in Keys
  <2>1. i \in 0 .. size - 1 /\ ~ empty_entry(t[i]) /\ IsTable(t, size)
    BY DEF UsedIn, Good
  <2>2. t[i] \in {EmptySlot, Tombstone} \union UsedSlot
    BY <2>1 DEF IsTable
  <2> QED
    BY <2>1, <2>2, SlotKinds
<1>2. f \in [A -> Keys]
  BY <1>1
<1>3. ASSUME NEW i \in A, NEW j \in A, f[i] = f[j] PROVE i = j
  <2>1. t[i].key = t[j].key
    BY <1>3
  <2>2. i \in 0 .. size - 1 /\ j \in 0 .. size - 1 /\ ~ empty_entry(t[i]) /\ ~ empty_entry(t[j])
    BY DEF UsedIn
  <2> QED
    BY <2>1, <2>2, KeyOnce
<1> HIDE DEF A, f
<1>4. DOMAIN f = A
  BY <1>2
<1>5. f \in Injection(A, Keys)
  BY <1>2, <1>3, <1>4 DEF Injection, IsInjective
<1>6. IsFiniteSet(Keys)
  BY HashTableAssumption
<1>7. Cardinality(A) <= Cardinality(Keys) /\ Cardinality(Keys) \in Nat
  BY <1>5, <1>6, FS_Injection, FS_CardinalityType
<1> QED
  BY <1>7 DEF A

\* A table that is not full has an empty slot.
LEMMA EmptyLeft ==
  ASSUME NEW size, NEW t, IsTable(t, size), Cardinality(FilledIn(t, size)) < size
  PROVE  HasEmpty(t, size)
<1> SUFFICES ASSUME ~ HasEmpty(t, size) PROVE FALSE
  OBVIOUS
<1>1. FilledIn(t, size) = 0 .. size - 1
  BY DEF FilledIn, HasEmpty
<1>2. Cardinality(FilledIn(t, size)) = size /\ size \in Nat
  BY <1>1, Counts, SizesAreGreat DEF IsTable
<1> QED
  BY <1>2

\* The slots that are not empty are the tombstones and the entries.
LEMMA FilledIsBoth ==
  ASSUME NEW size, NEW t, IsTable(t, size)
  PROVE  Cardinality(UsedIn(t, size)) =
           Cardinality(FilledIn(t, size)) - Cardinality(TombsIn(t, size))
<1>1. /\ UsedIn(t, size) \in SUBSET (0 .. size - 1)
      /\ FilledIn(t, size) \in SUBSET (0 .. size - 1)
      /\ TombsIn(t, size) \in SUBSET (0 .. size - 1)
  BY DEF UsedIn, FilledIn, TombsIn
<1>2. DELETED_HASH # EMPTY_HASH
  BY HashTableAssumption DEF DELETED_HASH, EMPTY_HASH
<1>3. /\ FilledIn(t, size) = UsedIn(t, size) \union TombsIn(t, size)
      /\ UsedIn(t, size) \intersect TombsIn(t, size) = {}
  BY <1>2 DEF UsedIn, FilledIn, TombsIn, empty_entry
<1>4. /\ IsFiniteSet(UsedIn(t, size)) /\ IsFiniteSet(TombsIn(t, size))
      /\ Cardinality(UsedIn(t, size)) \in Nat /\ Cardinality(TombsIn(t, size)) \in Nat
  BY <1>1, Counts
<1>5. Cardinality(FilledIn(t, size)) =
        Cardinality(UsedIn(t, size)) + Cardinality(TombsIn(t, size)) - 0
  <2>1. PICK A, B : A = UsedIn(t, size) /\ B = TombsIn(t, size)
    OBVIOUS
  <2>2. Cardinality(A \union B) = Cardinality(A) + Cardinality(B) - Cardinality(A \intersect B)
    BY <1>4, <2>1, FS_Union
  <2>3. A \intersect B = {} /\ Cardinality({}) = 0
    BY <1>3, <2>1, FS_EmptySet
  <2> QED
    BY <1>3, <2>1, <2>2, <2>3
<1> QED
  BY <1>4, <1>5

-------------------------------------------------------------------------------
(* Rehashing.                                                              *)

\* c holds the entries of the first i slots of t, and no tombstone.
Copied(c, new, t, i) ==
  /\ Good(c, new)
  /\ \A l \in 0 .. new - 1 : c[l].hash # DELETED_HASH
  /\ \A j \in 0 .. i - 1 : ~ empty_entry(t[j]) => \E l \in UsedIn(c, new) : c[l] = t[j]
  /\ \A l \in UsedIn(c, new) : \E j \in 0 .. i - 1 : ~ empty_entry(t[j]) /\ c[l] = t[j]

\* What resize_table() does with slot j of t.
CopySlot(c, new, t, j) ==
  IF empty_entry(t[j]) THEN c ELSE [c EXCEPT ![lookup(c, new, t[j].key)] = t[j]]

\* It starts with an empty table,
LEMMA CopyStart ==
  ASSUME NEW new \in TableSizes, NEW t
  PROVE  Copied(EmptyTable(new), new, t, 0)
<1>1. new \in Nat /\ new >= 8
  BY SizesAreGreat
<1>2. EmptyTable(new) \in [0 .. new - 1 -> {EmptySlot, Tombstone} \union UsedSlot]
  BY DEF EmptyTable
<1>3. \A i \in 0 .. new - 1 : EmptyTable(new)[i] = EmptySlot
  BY DEF EmptyTable
<1>4. empty_entry(EmptySlot) /\ EmptySlot.hash # DELETED_HASH
  BY HashTableAssumption DEF EmptySlot, empty_entry, EMPTY_HASH, DELETED_HASH
<1>5. UsedIn(EmptyTable(new), new) = {}
  BY <1>3, <1>4 DEF UsedIn
<1>6. Good(EmptyTable(new), new)
  BY <1>2, <1>3, <1>4 DEF Good, IsTable
<1> QED
  BY <1>3, <1>4, <1>5, <1>6 DEF Copied

\* and each step copies the entry of one slot.
LEMMA CopyStep ==
  ASSUME NEW size, NEW t, Good(t, size), NEW new \in TableSizes,
         Cardinality(UsedIn(t, size)) < new,
         NEW i \in 0 .. size - 1, NEW c, Copied(c, new, t, i)
  PROVE  Copied(CopySlot(c, new, t, i), new, t, i + 1)
<1>1. /\ IsTable(t, size) /\ size \in Nat /\ new \in Nat /\ IsTable(c, new) /\ Good(c, new)
      /\ t[i] \in {EmptySlot, Tombstone} \union UsedSlot
  BY SizesAreGreat DEF Copied, Good, IsTable
<1>2. /\ \A l \in 0 .. new - 1 : c[l].hash # DELETED_HASH
      /\ \A j \in 0 .. i - 1 : ~ empty_entry(t[j]) => \E l \in UsedIn(c, new) : c[l] = t[j]
      /\ \A l \in UsedIn(c, new) : \E j \in 0 .. i - 1 : ~ empty_entry(t[j]) /\ c[l] = t[j]
  BY DEF Copied
<1>3. \A j : j \in 0 .. i <=> j \in 0 .. i - 1 \/ j = i
  BY <1>1
<1>4. (i + 1) - 1 = i
  BY <1>1
<1>5. CASE empty_entry(t[i])
  <2>1. CopySlot(c, new, t, i) = c
    BY <1>5 DEF CopySlot
  <2>2. \A j \in 0 .. i : ~ empty_entry(t[j]) => \E l \in UsedIn(c, new) : c[l] = t[j]
    BY <1>2, <1>3, <1>5
  <2>3. \A l \in UsedIn(c, new) : \E j \in 0 .. i : ~ empty_entry(t[j]) /\ c[l] = t[j]
    BY <1>2, <1>3
  <2> QED
    BY <1>1, <1>2, <1>4, <2>1, <2>2, <2>3 DEF Copied
<1>6. CASE ~ empty_entry(t[i])
  <2>1. PICK k \in Keys, v \in Values : t[i] = Entry(k, v)
    <3>1. t[i] \in UsedSlot /\ t[i].hash = compute_hash(t[i].key)
      BY <1>1, <1>6, SlotKinds DEF Good
    <3>2. t[i].key \in Keys /\ t[i].value \in Values
      BY <3>1 DEF UsedSlot
    <3>3. t[i] = Entry(t[i].key, t[i].value)
      BY <3>1 DEF Entry, UsedSlot
    <3> QED
      BY <3>2, <3>3
  <2>2. t[i].key = k
    BY <2>1 DEF Entry
  <2>3. HasEmpty(c, new)
    <3>1. Within(c, new, t, size)
      <4> SUFFICES ASSUME NEW l \in UsedIn(c, new) PROVE \E j \in UsedIn(t, size) : t[j] = c[l]
        BY DEF Within
      <4>1. PICK j \in 0 .. i - 1 : ~ empty_entry(t[j]) /\ c[l] = t[j]
        BY <1>2
      <4>2. j \in UsedIn(t, size)
        BY <1>1, <4>1 DEF UsedIn
      <4> QED
        BY <4>1, <4>2
    <3>2. Cardinality(UsedIn(c, new)) <= Cardinality(UsedIn(t, size))
      BY <1>1, <3>1, NoMoreEntries
    <3>3. FilledIn(c, new) = UsedIn(c, new)
      BY <1>2 DEF FilledIn, UsedIn, empty_entry
    <3>4. Cardinality(UsedIn(c, new)) \in Nat /\ Cardinality(UsedIn(t, size)) \in Nat
      <4>1. UsedIn(c, new) \in SUBSET (0 .. new - 1) /\ UsedIn(t, size) \in SUBSET (0 .. size - 1)
        BY DEF UsedIn
      <4> QED
        BY <1>1, <4>1, Counts
    <3>5. Cardinality(FilledIn(c, new)) < new
      BY <1>1, <3>2, <3>3, <3>4
    <3> QED
      BY <1>1, <3>5, EmptyLeft
  <2>4. ~ Has(c, new, k)
    <3> SUFFICES ASSUME NEW l \in 0 .. new - 1, ~ empty_entry(c[l]), c[l].key = k PROVE FALSE
      BY DEF Has
    <3>1. l \in UsedIn(c, new)
      BY DEF UsedIn
    <3>2. PICK j \in 0 .. i - 1 : ~ empty_entry(t[j]) /\ c[l] = t[j]
      BY <1>2, <3>1
    <3>3. j \in 0 .. size - 1 /\ j # i /\ t[j].key = t[i].key
      BY <1>1, <2>2, <3>2
    <3> QED
      BY <1>6, <3>2, <3>3, KeyOnce
  <2>5. PICK s : s = lookup(c, new, k)
    OBVIOUS
  <2>6. s \in 0 .. new - 1 /\ empty_entry(c[s])
    BY <1>1, <2>3, <2>4, <2>5, KeyAbsent
  <2>7. PICK d : d = [c EXCEPT ![s] = t[i]]
    OBVIOUS
  <2>8. CopySlot(c, new, t, i) = d
    BY <1>6, <2>2, <2>5, <2>7 DEF CopySlot
  <2>9. Good(d, new)
    <3>1. Good(Put(c, s, k, v), new)
      BY <1>1, <2>3, <2>5, PutGood
    <3> QED
      BY <2>1, <2>7, <3>1 DEF Put
  <2>10. d[s] = t[i] /\ \A l \in 0 .. new - 1 : l # s => d[l] = c[l]
    BY <1>1, <2>6, <2>7 DEF IsTable
  <2>11. \A l \in 0 .. new - 1 : d[l].hash # DELETED_HASH
    BY <1>2, <1>6, <2>10 DEF empty_entry
  <2>12. s \in UsedIn(d, new)
    BY <1>6, <2>6, <2>10 DEF UsedIn
  <2>13. ASSUME NEW l \in 0 .. new - 1, l # s PROVE l \in UsedIn(d, new) <=> l \in UsedIn(c, new)
    BY <2>10, <2>13 DEF UsedIn
  <2>14. ASSUME NEW j \in 0 .. i, ~ empty_entry(t[j]) PROVE \E l \in UsedIn(d, new) : d[l] = t[j]
    <3>1. CASE j = i
      BY <2>10, <2>12, <3>1
    <3>2. CASE j # i
      <4>1. PICK l \in UsedIn(c, new) : c[l] = t[j]
        BY <1>2, <1>3, <2>14, <3>2
      <4>2. l \in 0 .. new - 1 /\ l # s
        BY <2>6 DEF UsedIn
      <4> QED
        BY <2>10, <2>13, <4>1, <4>2
    <3> QED
      BY <3>1, <3>2
  <2>15. ASSUME NEW l \in UsedIn(d, new) PROVE \E j \in 0 .. i : ~ empty_entry(t[j]) /\ d[l] = t[j]
    <3>1. l \in 0 .. new - 1
      BY DEF UsedIn
    <3>2. CASE l = s
      BY <1>3, <1>6, <2>10, <3>2
    <3>3. CASE l # s
      <4>1. PICK j \in 0 .. i - 1 : ~ empty_entry(t[j]) /\ c[l] = t[j]
        BY <1>2, <2>13, <3>1, <3>3
      <4> QED
        BY <1>3, <2>10, <3>1, <3>3, <4>1
    <3> QED
      BY <3>2, <3>3
  <2> QED
    BY <1>4, <2>8, <2>9, <2>11, <2>14, <2>15 DEF Copied
<1> QED
  BY <1>5, <1>6

\* What Rehashed() computes: a table with the same entries and no tombstone.
LEMMA RehashedIs ==
  ASSUME NEW size, NEW t, Good(t, size), NEW new \in TableSizes,
         Cardinality(UsedIn(t, size)) < new
  PROVE  Copied(Rehashed(t, size, new), new, t, size)
<1> DEFINE S == [0 .. new - 1 -> {EmptySlot, Tombstone} \union UsedSlot]
           first == EmptyTable(new)
           Step(i, c) == CopySlot(c, new, t, i - 1)
<1>1. size \in Nat /\ IsTable(t, size)
  BY SizesAreGreat DEF Good, IsTable
<1>2. first \in S
  BY CopyStart DEF Copied, Good, IsTable
<1>3. ASSUME NEW i \in 1 .. size, NEW c \in S PROVE Step(i, c) \in S
  <2>1. i - 1 \in 0 .. size - 1
    BY <1>1
  <2>2. PICK x \in {EmptySlot, Tombstone} \union UsedSlot : x = t[i - 1]
    BY <1>1, <2>1 DEF IsTable
  <2>3. PICK s : s = lookup(c, new, t[i - 1].key)
    OBVIOUS
  <2>4. [c EXCEPT ![s] = x] \in S
    OBVIOUS
  <2>5. Step(i, c) = IF empty_entry(t[i - 1]) THEN c ELSE [c EXCEPT ![s] = x]
    BY <2>2, <2>3 DEF CopySlot
  <2> QED
    BY <2>4, <2>5
<1>4. PICK next : /\ next \in [1 .. size -> [S -> S]]
                  /\ \A i \in 1 .. size, c \in S : next[i][c] = Step(i, c)
  <2> DEFINE f == [i \in 1 .. size |-> [c \in S |-> Step(i, c)]]
  <2> HIDE DEF S, Step
  <2>1. f \in [1 .. size -> [S -> S]] /\ \A i \in 1 .. size, c \in S : f[i][c] = Step(i, c)
    BY <1>3
  <2> HIDE DEF f
  <2> QED
    BY <2>1
<1>5. PICK f : Recursion(f, S, first, size, next)
  <2> HIDE DEF S, first
  <2> QED
    BY <1>1, <1>2, <1>4, RecursionExists
<1>6. f = [i \in 0 .. size |-> IF i = 0 THEN first ELSE Step(i, f[i - 1])]
  <2> HIDE DEF S, first, Step
  <2>1. f \in [0 .. size -> S] /\ f[0] = first /\ \A i \in 1 .. size : f[i] = next[i][f[i - 1]]
    BY <1>5 DEF Recursion
  <2>2. \A i \in 0 .. size : f[i] = IF i = 0 THEN first ELSE Step(i, f[i - 1])
    <3> SUFFICES ASSUME NEW i \in 0 .. size
                 PROVE  f[i] = IF i = 0 THEN first ELSE Step(i, f[i - 1])
      OBVIOUS
    <3>1. i # 0 => i \in 1 .. size /\ f[i - 1] \in S
      BY <1>1, <2>1
    <3> QED
      BY <1>4, <2>1, <3>1
  <2> QED
    BY <2>1, <2>2
<1> DEFINE g == CHOOSE h : h = [i \in 0 .. size |->
                  IF i = 0 THEN EmptyTable(new)
                  ELSE IF empty_entry(t[i - 1]) THEN h[i - 1]
                  ELSE [h[i - 1] EXCEPT ![lookup(h[i - 1], new, t[i - 1].key)] = t[i - 1]]]
<1>7. Rehashed(t, size, new) = g[size]
  BY DEF Rehashed
<1>8. g = [i \in 0 .. size |-> IF i = 0 THEN first ELSE Step(i, g[i - 1])]
  <2>1. \E h : h = [i \in 0 .. size |-> IF i = 0 THEN first ELSE Step(i, h[i - 1])]
    <3> HIDE DEF first, Step
    <3> QED
      BY <1>6
  <2> QED
    BY <2>1 DEF CopySlot
<1> HIDE DEF g
<1>9. PICK q : q = g
  OBVIOUS
<1>10. \A i \in 0 .. size : q[i] = IF i = 0 THEN first ELSE Step(i, q[i - 1])
  <2> HIDE DEF first, Step
  <2> DEFINE h == [i \in 0 .. size |-> IF i = 0 THEN first ELSE Step(i, q[i - 1])]
  <2>1. q = h
    BY <1>8, <1>9
  <2>2. \A i \in 0 .. size : h[i] = IF i = 0 THEN first ELSE Step(i, q[i - 1])
    OBVIOUS
  <2> HIDE DEF h
  <2> QED
    BY <2>1, <2>2
<1> DEFINE T == {i \in 0 .. size : Copied(q[i], new, t, i)}
<1>11. 0 \in T
  <2>1. 0 \in 0 .. size /\ q[0] = first
    BY <1>1, <1>10
  <2> QED
    BY <2>1, CopyStart
<1>12. \A i \in 0 .. size - 1 : i \in T => i + 1 \in T
  <2> SUFFICES ASSUME NEW i \in 0 .. size - 1, Copied(q[i], new, t, i)
               PROVE  i + 1 \in 0 .. size /\ Copied(q[i + 1], new, t, i + 1)
    OBVIOUS
  <2>1. i + 1 \in 0 .. size /\ i + 1 # 0 /\ (i + 1) - 1 = i
    BY <1>1
  <2>2. q[i + 1] = CopySlot(q[i], new, t, i)
    BY <1>10, <2>1
  <2> QED
    BY <2>1, <2>2, CopyStep
<1>13. \A i \in 0 .. size : i \in T
  <2> HIDE DEF T
  <2> QED
    BY <1>1, <1>11, <1>12, UpTo
<1>14. Copied(q[size], new, t, size)
  BY <1>1, <1>13
<1> QED
  BY <1>7, <1>9, <1>14

\* The entries, one for one, and so the counts.
LEMMA RehashedKeeps ==
  ASSUME NEW size, NEW t, Good(t, size), NEW new \in TableSizes,
         Cardinality(UsedIn(t, size)) < new, NEW r, r = Rehashed(t, size, new)
  PROVE  /\ Good(r, new)
         /\ Within(r, new, t, size) /\ Within(t, size, r, new)
         /\ Cardinality(FilledIn(r, new)) = Cardinality(UsedIn(t, size))
         /\ Cardinality(TombsIn(r, new)) = 0
<1>1. Copied(r, new, t, size)
  BY RehashedIs
<1>2. Good(r, new) /\ IsTable(r, new) /\ IsTable(t, size)
  BY <1>1 DEF Copied, Good
<1>3. Within(r, new, t, size)
  BY <1>1 DEF Copied, Within, UsedIn
<1>4. Within(t, size, r, new)
  BY <1>1 DEF Copied, Within, UsedIn
<1>5. /\ Cardinality(UsedIn(r, new)) <= Cardinality(UsedIn(t, size))
      /\ Cardinality(UsedIn(t, size)) <= Cardinality(UsedIn(r, new))
  BY <1>2, <1>3, <1>4, NoMoreEntries
<1>6. Cardinality(UsedIn(t, size)) \in Nat /\ Cardinality(UsedIn(r, new)) \in Nat
  <2>1. UsedIn(t, size) \in SUBSET (0 .. size - 1) /\ UsedIn(r, new) \in SUBSET (0 .. new - 1)
    BY DEF UsedIn
  <2> QED
    BY <1>2, <2>1, Counts
<1>7. FilledIn(r, new) = UsedIn(r, new) /\ TombsIn(r, new) = {}
  BY <1>1 DEF Copied, FilledIn, UsedIn, TombsIn, empty_entry
<1> QED
  BY <1>2, <1>3, <1>4, <1>5, <1>6, <1>7, FS_EmptySet

\* The new size is one of a table, and leaves room.
LEMMA NewSizeFits ==
  ASSUME NEW live \in Nat, live <= Cardinality(Keys), NEW n \in Sizes \union {0}
  PROVE  /\ NewSize(live, n) \in TableSizes /\ NewSize(live, n) >= 2 * live
         /\ NewSize(live, n) > live /\ 3 * live < 2 * (NewSize(live, n) - 1)
<1>1. n \in Nat /\ Cardinality(Keys) \in Nat
  BY HashTableAssumption, FS_CardinalityType
<1>2. TableSizes \subseteq Nat
  BY SizesAreGreat
<1> DEFINE Fit == {size \in TableSizes : size >= n /\ size >= 2 * live}
<1>3. PICK a \in TableSizes : a >= 2 * Cardinality(Keys)
  BY HashTableAssumption
<1>4. PICK b \in TableSizes : b >= n
  BY <1>1, <1>2, <1>3, HashTableAssumption
<1>5. a \in Nat /\ b \in Nat /\ a >= 2 * live
  BY <1>1, <1>2, <1>3
<1>6. Fit # {}
  <2>1. CASE a >= b
    BY <1>1, <1>4, <1>5, <2>1
  <2>2. CASE b >= a
    BY <1>1, <1>4, <1>5, <2>2
  <2> QED
    BY <1>5, <2>1, <2>2
<1>7. Fit \in SUBSET Nat
  BY <1>2
<1>8. NewSize(live, n) = Min(Fit)
  BY DEF NewSize
<1>9. NewSize(live, n) \in Fit
  <2> HIDE DEF Fit
  <2>1. \E size \in Fit : \A m \in Fit : size <= m
    BY <1>6, <1>7, LeastNat
  <2> QED
    BY <1>8, <2>1 DEF Min
<1>10. PICK size \in TableSizes : size = NewSize(live, n) /\ size >= 2 * live
  BY <1>9
<1>11. size \in Nat /\ size >= 8
  BY SizesAreGreat
<1> QED
  BY <1>10, <1>11

-------------------------------------------------------------------------------
(* The table with its counts, and what the calls make of it.               *)

\* The table t of this size has e slots that are not empty, d of them tombstones, and room.
Counted(t, size, e, d) ==
  /\ Good(t, size)
  /\ e = Cardinality(FilledIn(t, size))
  /\ d = Cardinality(TombsIn(t, size))
  /\ 3 * e < 2 * (size - 1)

\* A walk at index x has returned the keys v, and has m still to return.
Walked(t, size, x, v, m) ==
  /\ x \in 0 .. size /\ v \subseteq Keys /\ m \subseteq Keys
  /\ x = 0 => v = {} /\ m = {}
  /\ \A i \in x .. size - 1 : ~ empty_entry(t[i]) => t[i].key \notin v
  /\ \A k \in m : \E i \in x .. size - 1 : ~ empty_entry(t[i]) /\ t[i].key = k

\* The invariant of the proofs.
IInv ==
  /\ Counted(table, Size, entries, deleted)
  /\ ret \in Values \union {NoValue}
  /\ Walked(table, Size, ix, visited, missing)

\* What the counts say.
LEMMA CountedHas ==
  ASSUME NEW t, NEW size, NEW e, NEW d, Counted(t, size, e, d)
  PROVE  /\ Good(t, size) /\ IsTable(t, size) /\ HasEmpty(t, size)
         /\ t \in [0 .. size - 1 -> {EmptySlot, Tombstone} \union UsedSlot]
         /\ size \in TableSizes /\ size \in Nat /\ size >= 8
         /\ e \in Nat /\ d \in Nat /\ e - d = Cardinality(UsedIn(t, size))
         /\ e - d \in Nat /\ e - d <= Cardinality(Keys) /\ Cardinality(Keys) \in Nat
         /\ Cardinality(DOMAIN t) = size
<1>1. /\ Good(t, size) /\ IsTable(t, size) /\ size \in TableSizes
      /\ t \in [0 .. size - 1 -> {EmptySlot, Tombstone} \union UsedSlot]
  BY DEF Counted, Good, IsTable
<1>2. size \in Nat /\ size >= 8
  BY <1>1, SizesAreGreat
<1>3. e \in Nat /\ d \in Nat /\ Cardinality(UsedIn(t, size)) \in Nat
  <2>1. /\ FilledIn(t, size) \in SUBSET (0 .. size - 1)
        /\ TombsIn(t, size) \in SUBSET (0 .. size - 1)
        /\ UsedIn(t, size) \in SUBSET (0 .. size - 1)
    BY DEF FilledIn, TombsIn, UsedIn
  <2> QED
    BY <1>1, <2>1, Counts DEF Counted
<1>4. e - d = Cardinality(UsedIn(t, size))
  BY <1>1, FilledIsBoth DEF Counted
<1>5. e - d \in Nat /\ e - d <= Cardinality(Keys) /\ Cardinality(Keys) \in Nat
  BY <1>1, <1>3, <1>4, NoMoreThanKeys
<1>6. HasEmpty(t, size)
  <2>1. 3 * e < 2 * (size - 1) /\ e = Cardinality(FilledIn(t, size))
    BY DEF Counted
  <2>2. e < size
    BY <1>2, <1>3, <2>1
  <2> QED
    BY <1>1, <2>1, <2>2, EmptyLeft
<1>7. Cardinality(DOMAIN t) = size
  <2>1. DOMAIN t = 0 .. size - 1
    BY <1>1
  <2> QED
    BY <1>1, <2>1, Counts
<1> QED
  BY <1>1, <1>2, <1>3, <1>4, <1>5, <1>6, <1>7

\* An entry that is put changes the counts as hash_table_insert() does.
LEMMA PutCounts ==
  ASSUME NEW size, NEW t, IsTable(t, size), NEW s \in 0 .. size - 1,
         NEW k \in Keys, NEW v \in Values, NEW u, u = Put(t, s, k, v)
  PROVE  /\ Cardinality(FilledIn(u, size)) = IF t[s].hash = EMPTY_HASH
                                               THEN Cardinality(FilledIn(t, size)) + 1
                                               ELSE Cardinality(FilledIn(t, size))
         /\ Cardinality(TombsIn(u, size)) = IF t[s].hash = DELETED_HASH
                                              THEN Cardinality(TombsIn(t, size)) - 1
                                              ELSE Cardinality(TombsIn(t, size))
<1>1. /\ FilledIn(t, size) \in SUBSET (0 .. size - 1)
      /\ TombsIn(t, size) \in SUBSET (0 .. size - 1)
  BY DEF FilledIn, TombsIn
<1>2. IsFiniteSet(FilledIn(t, size)) /\ IsFiniteSet(TombsIn(t, size))
  BY <1>1, Counts
<1>3. /\ u[s].hash # EMPTY_HASH /\ u[s].hash # DELETED_HASH
      /\ \A i \in 0 .. size - 1 : i # s => u[i] = t[i]
  <2>1. u[s] = Entry(k, v) /\ \A i \in 0 .. size - 1 : i # s => u[i] = t[i]
    BY DEF IsTable, Put
  <2> QED
    BY <2>1, HashOfKey DEF Entry
<1>4. FilledIn(u, size) = FilledIn(t, size) \union {s}
  BY <1>3 DEF FilledIn
<1>5. TombsIn(u, size) = TombsIn(t, size) \ {s}
  BY <1>3 DEF TombsIn
<1>6. /\ s \in FilledIn(t, size) <=> t[s].hash # EMPTY_HASH
      /\ s \in TombsIn(t, size) <=> t[s].hash = DELETED_HASH
  BY DEF FilledIn, TombsIn
<1>7. Cardinality(FilledIn(t, size) \union {s}) =
        IF s \in FilledIn(t, size) THEN Cardinality(FilledIn(t, size))
                                   ELSE Cardinality(FilledIn(t, size)) + 1
  BY <1>2, FS_AddElement
<1>8. Cardinality(TombsIn(t, size) \ {s}) =
        IF s \in TombsIn(t, size) THEN Cardinality(TombsIn(t, size)) - 1
                                  ELSE Cardinality(TombsIn(t, size))
  BY <1>2, FS_RemoveElement
<1> QED
  BY <1>4, <1>5, <1>6, <1>7, <1>8

\* A tombstone in the place of an entry is one more tombstone.
LEMMA DeleteCounted ==
  ASSUME NEW t, NEW size, NEW e, NEW d, Counted(t, size, e, d),
         NEW s \in 0 .. size - 1, ~ empty_entry(t[s])
  PROVE  Counted(Bury(t, s), size, e, d + 1)
<1>1. PICK u : u = Bury(t, s)
  OBVIOUS
<1>2. Good(t, size) /\ IsTable(t, size)
  BY CountedHas
<1>3. Good(u, size)
  BY <1>1, <1>2, DeleteGood
<1>4. u[s] = Tombstone /\ \A i \in 0 .. size - 1 : i # s => u[i] = t[i]
  BY <1>1, <1>2 DEF IsTable, Bury
<1>5. u[s].hash # EMPTY_HASH /\ u[s].hash = DELETED_HASH
  BY <1>4, HashTableAssumption DEF Tombstone, DELETED_HASH, EMPTY_HASH
<1>6. t[s].hash # EMPTY_HASH /\ t[s].hash # DELETED_HASH
  BY DEF empty_entry
<1>7. FilledIn(u, size) = FilledIn(t, size)
  BY <1>4, <1>5, <1>6 DEF FilledIn
<1>8. TombsIn(u, size) = TombsIn(t, size) \union {s} /\ s \notin TombsIn(t, size)
  BY <1>4, <1>5, <1>6 DEF TombsIn
<1>9. IsFiniteSet(TombsIn(t, size))
  <2>1. TombsIn(t, size) \in SUBSET (0 .. size - 1)
    BY DEF TombsIn
  <2> QED
    BY <1>2, <2>1, Counts
<1>10. Cardinality(TombsIn(u, size)) = d + 1
  BY <1>8, <1>9, FS_AddElement DEF Counted
<1> QED
  BY <1>1, <1>3, <1>7, <1>10 DEF Counted

\* A table that is rehashed is counted afresh.
LEMMA ResizeCounted ==
  ASSUME NEW t, NEW size, Good(t, size), NEW n \in Sizes \union {0},
         NEW live, live = Cardinality(UsedIn(t, size)),
         NEW new, new = NewSize(live, n), NEW r, r = Rehashed(t, size, new)
  PROVE  /\ Counted(r, new, live, 0)
         /\ Within(r, new, t, size) /\ Within(t, size, r, new)
<1>1. live \in Nat /\ live <= Cardinality(Keys)
  <2>1. UsedIn(t, size) \in SUBSET (0 .. size - 1) /\ IsTable(t, size)
    BY DEF UsedIn, Good
  <2> QED
    BY <2>1, Counts, NoMoreThanKeys
<1>2. new \in TableSizes /\ new > live /\ 3 * live < 2 * (new - 1)
  BY <1>1, NewSizeFits
<1>3. new \in Nat
  BY <1>2, SizesAreGreat
<1>4. Cardinality(UsedIn(t, size)) < new
  BY <1>1, <1>2, <1>3
<1>5. /\ Good(r, new) /\ Within(r, new, t, size) /\ Within(t, size, r, new)
      /\ Cardinality(FilledIn(r, new)) = Cardinality(UsedIn(t, size))
      /\ Cardinality(TombsIn(r, new)) = 0
  BY <1>2, <1>4, RehashedKeeps
<1> QED
  BY <1>2, <1>5 DEF Counted

-------------------------------------------------------------------------------
(* The values that the table shows.                                        *)

\* What hash_table_lookup() returns.
Value(t, size, k) == t[lookup(t, size, k)].value

\* The value of a key is in its slot, and there is none without a slot.
LEMMA ValueIs ==
  ASSUME NEW size, NEW t, Good(t, size), HasEmpty(t, size), NEW k \in Keys
  PROVE  /\ \A i \in 0 .. size - 1 :
              ~ empty_entry(t[i]) /\ t[i].key = k => Value(t, size, k) = t[i].value
         /\ ~ Has(t, size, k) => Value(t, size, k) = NoValue
         /\ Value(t, size, k) \in Values \union {NoValue}
<1>1. IsTable(t, size) /\ t \in [0 .. size - 1 -> {EmptySlot, Tombstone} \union UsedSlot]
  BY DEF Good, IsTable
<1>2. \A i \in 0 .. size - 1 : t[i] \in {EmptySlot, Tombstone} \union UsedSlot
  BY <1>1
<1>3. ASSUME NEW i \in 0 .. size - 1, ~ empty_entry(t[i]), t[i].key = k
      PROVE  Value(t, size, k) = t[i].value /\ Value(t, size, k) \in Values \union {NoValue}
  <2>1. lookup(t, size, k) = i
    BY <1>3, KeyFound
  <2> QED
    BY <1>2, <2>1, SlotKinds DEF Value
<1>4. ASSUME ~ Has(t, size, k) PROVE Value(t, size, k) = NoValue
  <2>1. PICK s : s = lookup(t, size, k)
    OBVIOUS
  <2>2. s \in 0 .. size - 1 /\ empty_entry(t[s])
    BY <1>1, <1>4, <2>1, KeyAbsent
  <2> QED
    BY <1>2, <2>1, <2>2, SlotKinds DEF Value
<1> QED
  BY <1>3, <1>4 DEF Has

\* Tables with the same entries show the same values.
LEMMA SameValues ==
  ASSUME NEW m, NEW a, Good(a, m), HasEmpty(a, m), NEW n, NEW b, Good(b, n), HasEmpty(b, n),
         Within(a, m, b, n), Within(b, n, a, m), NEW k \in Keys
  PROVE  Value(a, m, k) = Value(b, n, k)
<1>1. CASE Has(a, m, k)
  <2>1. PICK i \in 0 .. m - 1 : ~ empty_entry(a[i]) /\ a[i].key = k
    BY <1>1 DEF Has
  <2>2. PICK j \in UsedIn(b, n) : b[j] = a[i]
    BY <2>1 DEF Within, UsedIn
  <2>3. j \in 0 .. n - 1 /\ ~ empty_entry(b[j]) /\ b[j].key = k
    BY <2>1, <2>2 DEF UsedIn
  <2>4. Value(a, m, k) = a[i].value
    BY <2>1, ValueIs
  <2>5. Value(b, n, k) = b[j].value
    BY <2>3, ValueIs
  <2> QED
    BY <2>2, <2>4, <2>5
<1>2. CASE ~ Has(a, m, k)
  <2>1. ~ Has(b, n, k)
    <3> SUFFICES ASSUME NEW j \in 0 .. n - 1, ~ empty_entry(b[j]), b[j].key = k PROVE FALSE
      BY DEF Has
    <3>1. PICK i \in UsedIn(a, m) : a[i] = b[j]
      BY DEF Within, UsedIn
    <3> QED
      BY <1>2, <3>1 DEF Has, UsedIn
  <2> QED
    BY <1>2, <2>1, ValueIs
<1> QED
  BY <1>1, <1>2

\* The values after an insertion, in the table itself or rehashed.
LEMMA PutValues ==
  ASSUME NEW size, NEW t, Good(t, size), HasEmpty(t, size), NEW k \in Keys, NEW v \in Values,
         NEW s, s = lookup(t, size, k), NEW u, u = Put(t, s, k, v),
         NEW new, NEW r, Good(r, new), HasEmpty(r, new),
         Within(r, new, u, size), Within(u, size, r, new), NEW q \in Keys
  PROVE  Value(r, new, q) = IF q = k THEN v ELSE Value(t, size, q)
<1>1. /\ s \in 0 .. size - 1
      /\ empty_entry(t[s]) \/ t[s].key = k
      /\ \A i \in 0 .. size - 1 : ~ empty_entry(t[i]) /\ t[i].key = k => i = s
  BY PutGood
<1>2. u[s] = Entry(k, v) /\ \A i \in 0 .. size - 1 : i # s => u[i] = t[i]
  BY <1>1 DEF Good, IsTable, Put
<1>3. u[s].key = k /\ u[s].value = v /\ ~ empty_entry(u[s])
  BY <1>2, HashOfKey DEF Entry, empty_entry
<1>4. \A i \in 0 .. size - 1 : ~ empty_entry(u[i]) /\ u[i].key = q =>
        Value(r, new, q) = u[i].value
  <2> SUFFICES ASSUME NEW i \in 0 .. size - 1, ~ empty_entry(u[i]), u[i].key = q
               PROVE  Value(r, new, q) = u[i].value
    OBVIOUS
  <2>1. PICK j \in UsedIn(r, new) : r[j] = u[i]
    BY DEF Within, UsedIn
  <2>2. j \in 0 .. new - 1 /\ ~ empty_entry(r[j]) /\ r[j].key = q
    BY <2>1 DEF UsedIn
  <2> QED
    BY <2>1, <2>2, ValueIs
<1>5. CASE q = k
  BY <1>1, <1>3, <1>4, <1>5
<1>6. CASE q # k
  <2>1. CASE Has(t, size, q)
    <3>1. PICK i \in 0 .. size - 1 : ~ empty_entry(t[i]) /\ t[i].key = q
      BY <2>1 DEF Has
    <3>2. i # s
      BY <1>1, <1>6, <3>1
    <3>3. u[i] = t[i]
      BY <1>2, <3>2
    <3>4. Value(r, new, q) = t[i].value
      BY <1>4, <3>1, <3>3
    <3>5. Value(t, size, q) = t[i].value
      BY <3>1, ValueIs
    <3> QED
      BY <1>6, <3>4, <3>5
  <2>2. CASE ~ Has(t, size, q)
    <3>1. ~ Has(r, new, q)
      <4> SUFFICES ASSUME NEW j \in 0 .. new - 1, ~ empty_entry(r[j]), r[j].key = q PROVE FALSE
        BY DEF Has
      <4>1. PICK i \in UsedIn(u, size) : u[i] = r[j]
        BY DEF Within, UsedIn
      <4>2. i \in 0 .. size - 1 /\ ~ empty_entry(u[i]) /\ u[i].key = q
        BY <4>1 DEF UsedIn
      <4>3. i # s
        BY <1>3, <1>6, <4>2
      <4> QED
        BY <1>2, <2>2, <4>2, <4>3 DEF Has
    <3>2. Value(r, new, q) = NoValue /\ Value(t, size, q) = NoValue
      BY <2>2, <3>1, ValueIs
    <3> QED
      BY <1>6, <3>2
  <2> QED
    BY <2>1, <2>2
<1> QED
  BY <1>5, <1>6

\* The values after a deletion.
LEMMA DeleteValues ==
  ASSUME NEW size, NEW t, Good(t, size), HasEmpty(t, size), NEW s \in 0 .. size - 1,
         ~ empty_entry(t[s]), NEW u, u = Bury(t, s),
         Good(u, size), HasEmpty(u, size), NEW q \in Keys
  PROVE  Value(u, size, q) = IF q = t[s].key THEN NoValue ELSE Value(t, size, q)
<1>1. u[s] = Tombstone /\ \A i \in 0 .. size - 1 : i # s => u[i] = t[i]
  BY DEF Good, IsTable, Bury
<1>2. empty_entry(u[s])
  BY <1>1 DEF Tombstone, empty_entry
<1>3. CASE q = t[s].key
  <2>1. ~ Has(u, size, q)
    <3> SUFFICES ASSUME NEW i \in 0 .. size - 1, ~ empty_entry(u[i]), u[i].key = q PROVE FALSE
      BY DEF Has
    <3>1. i # s
      BY <1>2
    <3>2. ~ empty_entry(t[i]) /\ t[i].key = t[s].key
      BY <1>1, <1>3, <3>1
    <3> QED
      BY <3>1, <3>2, KeyOnce
  <2> QED
    BY <1>3, <2>1, ValueIs
<1>4. CASE q # t[s].key
  <2>1. CASE Has(t, size, q)
    <3>1. PICK i \in 0 .. size - 1 : ~ empty_entry(t[i]) /\ t[i].key = q
      BY <2>1 DEF Has
    <3>2. i # s
      BY <1>4, <3>1
    <3>3. u[i] = t[i]
      BY <1>1, <3>2
    <3>4. Value(u, size, q) = t[i].value
      BY <3>1, <3>3, ValueIs
    <3>5. Value(t, size, q) = t[i].value
      BY <3>1, ValueIs
    <3> QED
      BY <1>4, <3>4, <3>5
  <2>2. CASE ~ Has(t, size, q)
    <3>1. ~ Has(u, size, q)
      <4> SUFFICES ASSUME NEW i \in 0 .. size - 1, ~ empty_entry(u[i]), u[i].key = q PROVE FALSE
        BY DEF Has
      <4> QED
        BY <1>1, <1>2, <2>2 DEF Has
    <3>2. Value(u, size, q) = NoValue /\ Value(t, size, q) = NoValue
      BY <2>2, <3>1, ValueIs
    <3> QED
      BY <1>4, <3>2
  <2> QED
    BY <2>1, <2>2
<1> QED
  BY <1>3, <1>4

-------------------------------------------------------------------------------
(* The calls.                                                              *)

\* hash_table_insert() makes of the table t and its counts the table r and its counts.
Inserted(t, size, e, d, k, v, r, x, y) ==
  LET s    == lookup(t, size, k)
      put  == Put(t, s, k, v)
      ents == IF t[s].hash = EMPTY_HASH THEN e + 1 ELSE e
      dels == IF t[s].hash = DELETED_HASH THEN d - 1 ELSE d
  IN  IF 3 * ents >= 2 * (size - 1)
        THEN r = Rehashed(put, size, NewSize(ents - dels, 0)) /\ x = ents - dels /\ y = 0
        ELSE r = put /\ x = ents /\ y = dels

\* They are right, and the value of the key is changed.
LEMMA InsertTable ==
  ASSUME NEW t, NEW size, NEW e, NEW d, Counted(t, size, e, d), NEW k \in Keys, NEW v \in Values,
         NEW r, NEW x, NEW y, Inserted(t, size, e, d, k, v, r, x, y)
  PROVE  \E new : /\ Counted(r, new, x, y)
                  /\ \A q \in Keys : Value(r, new, q) = IF q = k THEN v ELSE Value(t, size, q)
<1>1. PICK s, put, ents, dels :
        /\ s = lookup(t, size, k)
        /\ put = Put(t, s, k, v)
        /\ ents = IF t[s].hash = EMPTY_HASH THEN e + 1 ELSE e
        /\ dels = IF t[s].hash = DELETED_HASH THEN d - 1 ELSE d
  OBVIOUS
<1>2. IF 3 * ents >= 2 * (size - 1)
        THEN r = Rehashed(put, size, NewSize(ents - dels, 0)) /\ x = ents - dels /\ y = 0
        ELSE r = put /\ x = ents /\ y = dels
  BY <1>1 DEF Inserted
<1>3. /\ Good(t, size) /\ IsTable(t, size) /\ HasEmpty(t, size)
      /\ e \in Nat /\ d \in Nat /\ size \in Nat
  BY CountedHas
<1>4. s \in 0 .. size - 1 /\ Good(put, size)
  BY <1>1, <1>3, PutGood
<1>5. ents = Cardinality(FilledIn(put, size)) /\ dels = Cardinality(TombsIn(put, size))
  BY <1>1, <1>3, <1>4, PutCounts DEF Counted
<1>6. IsTable(put, size)
  BY <1>4 DEF Good
<1>7. ents - dels = Cardinality(UsedIn(put, size))
  BY <1>5, <1>6, FilledIsBoth
<1>8. ASSUME NEW new, Counted(r, new, x, y), Within(r, new, put, size), Within(put, size, r, new)
      PROVE  \E n : /\ Counted(r, n, x, y)
                    /\ \A q \in Keys : Value(r, n, q) = IF q = k THEN v ELSE Value(t, size, q)
  <2>1. Good(r, new) /\ HasEmpty(r, new)
    BY <1>8, CountedHas
  <2>2. \A q \in Keys : Value(r, new, q) = IF q = k THEN v ELSE Value(t, size, q)
    BY <1>1, <1>3, <1>8, <2>1, PutValues
  <2> QED
    BY <1>8, <2>2
<1>9. CASE 3 * ents >= 2 * (size - 1)
  <2>1. PICK new : new = NewSize(ents - dels, 0)
    OBVIOUS
  <2>2. r = Rehashed(put, size, new) /\ x = ents - dels /\ y = 0
    BY <1>2, <1>9, <2>1
  <2>3. Counted(r, new, x, 0) /\ Within(r, new, put, size) /\ Within(put, size, r, new)
    BY <1>4, <1>7, <2>1, <2>2, ResizeCounted
  <2> QED
    BY <1>8, <2>2, <2>3
<1>10. CASE ~ (3 * ents >= 2 * (size - 1))
  <2>1. r = put /\ x = ents /\ y = dels
    BY <1>2, <1>10
  <2>2. ents \in Nat
    BY <1>1, <1>3
  <2>3. 3 * ents < 2 * (size - 1)
    BY <1>3, <1>10, <2>2
  <2>4. Counted(r, size, x, y)
    BY <1>4, <1>5, <2>1, <2>3 DEF Counted
  <2>5. Within(put, size, put, size)
    BY DEF Within
  <2> QED
    BY <1>8, <2>1, <2>4, <2>5
<1> QED
  BY <1>9, <1>10

\* hash_table_delete() finds the key if it is there.
LEMMA FoundIs ==
  ASSUME NEW t, NEW size, Good(t, size), HasEmpty(t, size), NEW k \in Keys,
         NEW s, s = lookup(t, size, k)
  PROVE  /\ Match(t, s, k) => s \in 0 .. size - 1 /\ ~ empty_entry(t[s]) /\ t[s].key = k
         /\ ~ Match(t, s, k) => ~ Has(t, size, k)
<1>1. IsTable(t, size)
  BY DEF Good
<1>2. ASSUME Has(t, size, k) PROVE s \in 0 .. size - 1 /\ Match(t, s, k)
  <2>1. PICK i \in 0 .. size - 1 : ~ empty_entry(t[i]) /\ t[i].key = k
    BY <1>2 DEF Has
  <2>2. s = i
    BY <2>1, KeyFound
  <2>3. t[i].hash = compute_hash(k)
    BY <2>1 DEF Good
  <2> QED
    BY <2>1, <2>2, <2>3 DEF Match
<1>3. s \in 0 .. size - 1
  BY <1>1, <1>2, KeyAbsent
<1> QED
  BY <1>1, <1>2, <1>3, MatchIsUse

\* The table after a deletion.
LEMMA DeleteTable ==
  ASSUME NEW t, NEW size, NEW e, NEW d, Counted(t, size, e, d), NEW k \in Keys,
         NEW s, s = lookup(t, size, k), NEW r, NEW y,
         IF Match(t, s, k) THEN r = Bury(t, s) /\ y = d + 1 ELSE r = t /\ y = d
  PROVE  /\ Counted(r, size, e, y)
         /\ \A q \in Keys : Value(r, size, q) = IF q = k THEN NoValue ELSE Value(t, size, q)
         /\ \A i \in 0 .. size - 1 : ~ empty_entry(r[i]) => r[i] = t[i]
         /\ \A i \in 0 .. size - 1 : ~ empty_entry(t[i]) /\ t[i].key # k => r[i] = t[i]
<1>1. Good(t, size) /\ IsTable(t, size) /\ HasEmpty(t, size)
  BY CountedHas
<1>2. CASE Match(t, s, k)
  <2>1. s \in 0 .. size - 1 /\ ~ empty_entry(t[s]) /\ t[s].key = k
    BY <1>1, <1>2, FoundIs
  <2>2. r = Bury(t, s) /\ y = d + 1
    BY <1>2
  <2>3. Counted(r, size, e, y)
    BY <2>1, <2>2, DeleteCounted
  <2>4. Good(r, size) /\ HasEmpty(r, size)
    BY <2>3, CountedHas
  <2>5. \A q \in Keys : Value(r, size, q) = IF q = k THEN NoValue ELSE Value(t, size, q)
    BY <1>1, <2>1, <2>2, <2>4, DeleteValues
  <2>6. r[s] = Tombstone /\ \A i \in 0 .. size - 1 : i # s => r[i] = t[i]
    BY <1>1, <2>1, <2>2 DEF IsTable, Bury
  <2>7. empty_entry(r[s])
    BY <2>6 DEF Tombstone, empty_entry
  <2>8. \A i \in 0 .. size - 1 : ~ empty_entry(r[i]) => r[i] = t[i]
    BY <2>6, <2>7
  <2>9. \A i \in 0 .. size - 1 : ~ empty_entry(t[i]) /\ t[i].key # k => r[i] = t[i]
    BY <2>1, <2>6
  <2> QED
    BY <2>3, <2>5, <2>8, <2>9
<1>3. CASE ~ Match(t, s, k)
  <2>1. r = t /\ y = d
    BY <1>3
  <2>2. ~ Has(t, size, k)
    BY <1>1, <1>3, FoundIs
  <2>3. Value(t, size, k) = NoValue
    BY <1>1, <2>2, ValueIs
  <2> QED
    BY <2>1, <2>3
<1> QED
  BY <1>2, <1>3

-------------------------------------------------------------------------------
(* The invariant.                                                          *)

\* The size after a step.
LEMMA SizeAfter ==
  ASSUME NEW new, NEW e, NEW d, Counted(table', new, e, d)
  PROVE  Size' = new
BY CountedHas DEF Size

\* A walk that is given up.
LEMMA NoWalk ==
  ASSUME NEW t, NEW size \in Nat
  PROVE  Walked(t, size, 0, {}, {})
BY DEF Walked

\* hash_table_insert().
LEMMA InsertDoes ==
  ASSUME IInv, NEW k \in Keys, NEW v \in Values, Insert(k, v)
  PROVE  /\ IInv'
         /\ ret' = Value(table, Size, k)
         /\ \A q \in Keys : Value(table', Size', q) = IF q = k THEN v ELSE Value(table, Size, q)
<1>1. /\ Inserted(table, Size, entries, deleted, k, v, table', entries', deleted')
      /\ ret' = Value(table, Size, k)
      /\ ix' = 0 /\ visited' = {} /\ missing' = {}
  BY DEF Insert, Slot, Inserted, Put, Entry, Value
<1>2. Counted(table, Size, entries, deleted)
  BY DEF IInv
<1>3. PICK new :
        /\ Counted(table', new, entries', deleted')
        /\ \A q \in Keys : Value(table', new, q) = IF q = k THEN v ELSE Value(table, Size, q)
  BY <1>1, <1>2, InsertTable
<1>4. Size' = new /\ new \in Nat
  BY <1>3, SizeAfter, CountedHas
<1>5. ret' \in Values \union {NoValue}
  <2>1. Good(table, Size) /\ HasEmpty(table, Size)
    BY <1>2, CountedHas
  <2> QED
    BY <1>1, <2>1, ValueIs
<1>6. Walked(table', new, ix', visited', missing')
  BY <1>1, <1>4, NoWalk
<1>7. IInv'
  BY <1>3, <1>4, <1>5, <1>6 DEF IInv
<1> QED
  BY <1>1, <1>3, <1>4, <1>7

\* hash_table_delete().
LEMMA DeleteDoes ==
  ASSUME IInv, NEW k \in Keys, Delete(k)
  PROVE  /\ IInv'
         /\ ret' = Value(table, Size, k)
         /\ \A q \in Keys :
              Value(table', Size', q) = IF q = k THEN NoValue ELSE Value(table, Size, q)
<1>1. PICK s : s = lookup(table, Size, k)
  OBVIOUS
<1>2. /\ IF Match(table, s, k) THEN table' = Bury(table, s) /\ deleted' = deleted + 1
                               ELSE table' = table /\ deleted' = deleted
      /\ ret' = table[s].value
      /\ entries' = entries /\ ix' = ix /\ visited' = visited
      /\ missing' = missing \ {k}
  BY <1>1 DEF Delete, Slot, Found, Bury
<1>3. Counted(table, Size, entries, deleted) /\ Walked(table, Size, ix, visited, missing)
  BY DEF IInv
<1>4. /\ Counted(table', Size, entries', deleted')
      /\ \A q \in Keys : Value(table', Size, q) = IF q = k THEN NoValue ELSE Value(table, Size, q)
      /\ \A i \in 0 .. Size - 1 : ~ empty_entry(table'[i]) => table'[i] = table[i]
      /\ \A i \in 0 .. Size - 1 :
           ~ empty_entry(table[i]) /\ table[i].key # k => table'[i] = table[i]
  BY <1>1, <1>2, <1>3, DeleteTable
<1>5. Size' = Size
  BY <1>4, SizeAfter
<1>6. Good(table, Size) /\ HasEmpty(table, Size) /\ Size \in Nat
  BY <1>3, CountedHas
<1>7. ret' = Value(table, Size, k) /\ ret' \in Values \union {NoValue}
  BY <1>1, <1>2, <1>6, ValueIs DEF Value
<1>8. Walked(table', Size, ix', visited', missing')
  <2>1. /\ ix \in 0 .. Size /\ visited \subseteq Keys /\ missing \subseteq Keys
        /\ ix = 0 => visited = {} /\ missing = {}
        /\ \A i \in ix .. Size - 1 : ~ empty_entry(table[i]) => table[i].key \notin visited
        /\ \A q \in missing : \E i \in ix .. Size - 1 : ~ empty_entry(table[i]) /\ table[i].key = q
    BY <1>3 DEF Walked
  <2>2. \A i \in ix .. Size - 1 : i \in 0 .. Size - 1
    BY <1>6, <2>1
  <2>3. \A i \in ix .. Size - 1 : ~ empty_entry(table'[i]) => table'[i].key \notin visited
    BY <1>4, <2>1, <2>2
  <2>4. ASSUME NEW q \in missing, q # k
        PROVE  \E i \in ix .. Size - 1 : ~ empty_entry(table'[i]) /\ table'[i].key = q
    <3>1. PICK i \in ix .. Size - 1 : ~ empty_entry(table[i]) /\ table[i].key = q
      BY <2>1
    <3>2. table'[i] = table[i]
      BY <1>4, <2>2, <2>4, <3>1
    <3> QED
      BY <3>1, <3>2
  <2> QED
    BY <1>2, <2>1, <2>3, <2>4 DEF Walked
<1>9. IInv'
  BY <1>4, <1>5, <1>7, <1>8 DEF IInv
<1> QED
  BY <1>4, <1>5, <1>7, <1>9

\* hash_table_resize().
LEMMA ResizeDoes ==
  ASSUME IInv, NEW n \in Sizes, Resize(n)
  PROVE  IInv' /\ \A q \in Keys : Value(table', Size', q) = Value(table, Size, q)
<1>1. Counted(table, Size, entries, deleted)
  BY DEF IInv
<1>2. /\ Good(table, Size) /\ HasEmpty(table, Size)
      /\ entries - deleted = Cardinality(UsedIn(table, Size))
  BY <1>1, CountedHas
<1>3. PICK new : new = NewSize(entries - deleted, n)
  OBVIOUS
<1>4. /\ table' = Rehashed(table, Size, new)
      /\ entries' = entries - deleted /\ deleted' = 0
      /\ ix' = 0 /\ visited' = {} /\ missing' = {}
      /\ ret' = ret
  BY <1>3 DEF Resize
<1>5. /\ Counted(table', new, entries', deleted')
      /\ Within(table', new, table, Size) /\ Within(table, Size, table', new)
  BY <1>2, <1>3, <1>4, ResizeCounted
<1>6. Size' = new /\ new \in Nat /\ Good(table', new) /\ HasEmpty(table', new)
  BY <1>5, SizeAfter, CountedHas
<1>7. Walked(table', new, ix', visited', missing')
  BY <1>4, <1>6, NoWalk
<1>8. IInv'
  BY <1>4, <1>5, <1>6, <1>7 DEF IInv
<1>9. \A q \in Keys : Value(table', new, q) = Value(table, Size, q)
  BY <1>2, <1>5, <1>6, SameValues
<1> QED
  BY <1>6, <1>8, <1>9

\* hash_table_walk() returns a key for the first time, and leaves none out.
LEMMA WalkDoes ==
  ASSUME IInv, Walk
  PROVE  IInv' /\ visited' # visited
<1>1. Counted(table, Size, entries, deleted) /\ Walked(table, Size, ix, visited, missing)
  BY DEF IInv
<1>2. /\ Good(table, Size) /\ Size \in Nat /\ DOMAIN table = 0 .. Size - 1
      /\ \A i \in 0 .. Size - 1 : table[i] \in {EmptySlot, Tombstone} \union UsedSlot
  BY <1>1, CountedHas
<1>3. /\ ix \in 0 .. Size /\ visited \subseteq Keys /\ missing \subseteq Keys
      /\ ix = 0 => visited = {} /\ missing = {}
      /\ \A i \in ix .. Size - 1 : ~ empty_entry(table[i]) => table[i].key \notin visited
      /\ \A q \in missing : \E i \in ix .. Size - 1 : ~ empty_entry(table[i]) /\ table[i].key = q
  BY <1>1 DEF Walked
<1>4. PICK i \in 0 .. Size - 1 :
        /\ i >= ix /\ ~ empty_entry(table[i])
        /\ \A j \in ix .. i - 1 : empty_entry(table[j])
        /\ ix' = i + 1
        /\ visited' = visited \union {table[i].key}
        /\ missing' = Todo \ {table[i].key}
        /\ table' = table /\ entries' = entries /\ deleted' = deleted /\ ret' = ret
  BY <1>2 DEF Walk, tableVars
<1>5. PICK k \in Keys : k = table[i].key
  BY <1>2, <1>4, SlotKinds
<1>6. k \notin visited
  <2>1. i \in ix .. Size - 1
    BY <1>2, <1>3, <1>4
  <2> QED
    BY <1>3, <1>4, <1>5, <2>1
<1>7. Size' = Size
  BY <1>4 DEF Size
<1>8. /\ Todo \subseteq Keys
      /\ \A q \in Todo : \E j \in ix .. Size - 1 : ~ empty_entry(table[j]) /\ table[j].key = q
  <2>1. CASE ix = 0
    <3>1. Todo = Live
      BY <2>1 DEF Todo
    <3> QED
      BY <1>2, <2>1, <3>1 DEF Live
  <2>2. CASE ix # 0
    BY <1>3, <2>2 DEF Todo
  <2> QED
    BY <2>1, <2>2
<1>9. Walked(table, Size, i + 1, visited \union {k}, Todo \ {k})
  <2>1. i + 1 \in 0 .. Size /\ i + 1 # 0
    BY <1>2
  <2>2. ASSUME NEW j \in i + 1 .. Size - 1, ~ empty_entry(table[j])
        PROVE  table[j].key \notin visited \union {k}
    <3>1. j \in ix .. Size - 1 /\ j \in 0 .. Size - 1 /\ j # i
      BY <1>2, <1>3, <1>4
    <3>2. table[j].key # k
      BY <1>2, <1>4, <1>5, <2>2, <3>1, KeyOnce
    <3> QED
      BY <1>3, <2>2, <3>1, <3>2
  <2>3. ASSUME NEW q \in Todo, q # k
        PROVE  \E j \in i + 1 .. Size - 1 : ~ empty_entry(table[j]) /\ table[j].key = q
    <3>1. PICK j \in ix .. Size - 1 : ~ empty_entry(table[j]) /\ table[j].key = q
      BY <1>8
    <3>2. j # i
      BY <1>5, <2>3, <3>1
    <3>3. ~ (j \in ix .. i - 1)
      BY <1>4, <3>1
    <3>4. j \in i + 1 .. Size - 1
      BY <1>2, <1>3, <3>2, <3>3
    <3> QED
      BY <3>1, <3>4
  <2> QED
    BY <1>3, <1>5, <1>8, <2>1, <2>2, <2>3 DEF Walked
<1>10. IInv'
  BY <1>1, <1>4, <1>5, <1>7, <1>9 DEF IInv
<1> QED
  BY <1>4, <1>5, <1>6, <1>10

\* hash_table_walk() ends when it has returned every key.
LEMMA WalkEndDoes ==
  ASSUME IInv, WalkEnd
  PROVE  IInv' /\ Todo = {}
<1>1. Counted(table, Size, entries, deleted) /\ Walked(table, Size, ix, visited, missing)
  BY DEF IInv
<1>2. Size \in Nat /\ DOMAIN table = 0 .. Size - 1
  BY <1>1, CountedHas
<1>3. /\ ix \in 0 .. Size
      /\ \A q \in missing : \E i \in ix .. Size - 1 : ~ empty_entry(table[i]) /\ table[i].key = q
  BY <1>1 DEF Walked
<1>4. /\ \A i \in 0 .. Size - 1 : i >= ix => empty_entry(table[i])
      /\ ix' = 0 /\ visited' = {} /\ missing' = {}
      /\ table' = table /\ entries' = entries /\ deleted' = deleted /\ ret' = ret
  BY <1>2 DEF WalkEnd, tableVars
<1>5. missing = {}
  <2>1. \A i \in ix .. Size - 1 : empty_entry(table[i])
    BY <1>2, <1>3, <1>4
  <2> QED
    BY <1>3, <2>1
<1>6. ix = 0 => Live = {}
  BY <1>2, <1>4 DEF Live
<1>7. Size' = Size
  BY <1>4 DEF Size
<1>8. Walked(table', Size', ix', visited', missing')
  BY <1>2, <1>4, <1>7, NoWalk
<1>9. IInv'
  BY <1>1, <1>4, <1>7, <1>8 DEF IInv
<1> QED
  BY <1>5, <1>6, <1>9 DEF Todo

\* hash_table_lookup().
LEMMA LookupDoes ==
  ASSUME IInv, NEW k \in Keys, Lookup(k)
  PROVE  /\ IInv' /\ ret' = Value(table, Size, k)
         /\ table' = table
<1>1. Good(table, Size) /\ HasEmpty(table, Size)
  BY CountedHas DEF IInv
<1>2. /\ ret' = Value(table, Size, k)
      /\ table' = table /\ entries' = entries /\ deleted' = deleted
      /\ ix' = ix /\ visited' = visited /\ missing' = missing
  BY DEF Lookup, Slot, Value, tableVars, walkVars
<1>3. Size' = Size
  BY <1>2 DEF Size
<1>4. ret' \in Values \union {NoValue}
  BY <1>1, <1>2, ValueIs
<1> QED
  BY <1>2, <1>3, <1>4 DEF IInv

\* The new table.
LEMMA InitIInv == Init => IInv
<1> SUFFICES ASSUME Init PROVE IInv
  OBVIOUS
<1>1. INITIAL_SIZE \in TableSizes /\ INITIAL_SIZE \in Nat /\ INITIAL_SIZE >= 8
  BY HashTableAssumption, SizesAreGreat
<1>2. Good(EmptyTable(INITIAL_SIZE), INITIAL_SIZE)
  BY <1>1, CopyStart DEF Copied
<1>3. /\ FilledIn(EmptyTable(INITIAL_SIZE), INITIAL_SIZE) = {}
      /\ TombsIn(EmptyTable(INITIAL_SIZE), INITIAL_SIZE) = {}
  BY HashTableAssumption
     DEF FilledIn, TombsIn, EmptyTable, EmptySlot, EMPTY_HASH, DELETED_HASH
<1>4. Counted(EmptyTable(INITIAL_SIZE), INITIAL_SIZE, 0, 0)
  BY <1>1, <1>2, <1>3, FS_EmptySet DEF Counted
<1>5. table = EmptyTable(INITIAL_SIZE) /\ entries = 0 /\ deleted = 0 /\ ret = NoValue
  BY DEF Init
<1>6. Size = INITIAL_SIZE
  BY <1>4, <1>5, CountedHas DEF Size
<1>7. Walked(table, Size, ix, visited, missing)
  BY <1>1, <1>6, NoWalk DEF Init
<1> QED
  BY <1>4, <1>5, <1>6, <1>7 DEF IInv

\* No step breaks it.
LEMMA NextIInv == IInv /\ [Next]_vars => IInv'
<1> SUFFICES ASSUME IInv, [Next]_vars PROVE IInv'
  OBVIOUS
<1>1. ASSUME NEW k \in Keys, NEW v \in Values, Insert(k, v) PROVE IInv'
  BY <1>1, InsertDoes
<1>2. ASSUME NEW k \in Keys, Delete(k) PROVE IInv'
  BY <1>2, DeleteDoes
<1>3. ASSUME NEW k \in Keys, Lookup(k) PROVE IInv'
  BY <1>3, LookupDoes
<1>4. ASSUME NEW n \in Sizes, Resize(n) PROVE IInv'
  BY <1>4, ResizeDoes
<1>5. CASE Walk
  BY <1>5, WalkDoes
<1>6. CASE WalkEnd
  BY <1>6, WalkEndDoes
<1>7. CASE UNCHANGED vars
  BY <1>7 DEF IInv, Size, vars, tableVars, walkVars
<1> QED
  BY <1>1, <1>2, <1>3, <1>4, <1>5, <1>6, <1>7 DEF Next

-------------------------------------------------------------------------------
(* The theorems.                                                           *)

\* The invariant holds whatever the keys, their hash values, and the calls are.
LEMMA AlwaysIInv == Spec => []IInv
<1>1. Init => IInv
  BY InitIInv
<1>2. IInv /\ [Next]_vars => IInv'
  BY NextIInv
<1> QED
  BY <1>1, <1>2, PTL DEF Spec

\* The slots hold what a slot may hold, and the counts that decide on a resize are
\* those of the slots.
THEOREM HashTableTypes == Spec => []TypeOK
<1>1. IInv => TypeOK
  <2> SUFFICES ASSUME IInv PROVE TypeOK
    OBVIOUS
  <2>1. Counted(table, Size, entries, deleted) /\ Walked(table, Size, ix, visited, missing)
    BY DEF IInv
  <2>2. /\ IsTable(table, Size) /\ DOMAIN table = 0 .. Size - 1
        /\ table \in [0 .. Size - 1 -> {EmptySlot, Tombstone} \union UsedSlot]
    BY <2>1, CountedHas
  <2>3. \A i \in DOMAIN table :
          \/ table[i] \in {EmptySlot, Tombstone}
          \/ table[i] \in [hash : 1 .. HashMax - 1, key : Keys, value : Values]
    BY <2>2 DEF UsedSlot
  <2>4. /\ entries = Cardinality({i \in DOMAIN table : table[i].hash # EMPTY_HASH})
        /\ deleted = Cardinality({i \in DOMAIN table : table[i].hash = DELETED_HASH})
    BY <2>1, <2>2 DEF Counted, FilledIn, TombsIn
  <2> QED
    BY <2>1, <2>2, <2>3, <2>4 DEF TypeOK, IInv, Walked
<1> QED
  BY <1>1, AlwaysIInv, PTL

\* The probes of lookup() come to an end for every key, in the table or not: they reach
\* every slot, and one of them is always empty.
THEOREM LookupsEnd == Spec => []LookupEnds
<1>1. IInv => LookupEnds
  <2> SUFFICES ASSUME IInv, NEW k \in Keys
               PROVE  \E i \in DOMAIN Probes[k][Size] : Ends(table, Probes[k][Size][i], k)
    BY DEF LookupEnds
  <2>1. HasEmpty(table, Size) /\ Size \in TableSizes
    BY CountedHas DEF IInv
  <2>2. PICK slot \in 0 .. Size - 1 : table[slot].hash = EMPTY_HASH
    BY <2>1 DEF HasEmpty
  <2>3. DOMAIN Probes[k][Size] = 0 .. MaxPerturb + Size
    BY <2>1, ProbesReach
  <2>4. PICK i \in 0 .. MaxPerturb + Size : Probes[k][Size][i] = slot
    BY <2>1, ProbesReach
  <2> QED
    BY <2>2, <2>3, <2>4 DEF Ends
<1> QED
  BY <1>1, AlwaysIInv, PTL

\* lookup() finds every key in its slot, whatever was inserted, deleted and resized.
THEOREM EachIsFound == Spec => []EachFound
<1>1. IInv => EachFound
  <2> SUFFICES ASSUME IInv, NEW i \in DOMAIN table, ~ empty_entry(table[i])
               PROVE  Slot(table[i].key) = i
    BY DEF EachFound
  <2>1. Good(table, Size) /\ HasEmpty(table, Size) /\ DOMAIN table = 0 .. Size - 1
    BY CountedHas DEF IInv
  <2> QED
    BY <2>1, KeyFound DEF Slot
<1> QED
  BY <1>1, AlwaysIInv, PTL

\* A walk returns no key twice and none too few.
THEOREM WalksVisitOnce == Spec => WalkVisitsOnce
<1>1. IInv /\ [Next]_vars => [/\ Walk => visited' # visited
                              /\ WalkEnd => Todo = {}]_vars
  BY WalkDoes, WalkEndDoes
<1> QED
  BY <1>1, AlwaysIInv, PTL DEF Spec, WalkVisitsOnce

\* The table implements a dictionary.
THEOREM TableIsDictionary == Spec => ImplementsDict
<1> DEFINE dict == [k \in Keys |-> table[Slot(k)].value]
<1>1. dict = [k \in Keys |-> Value(table, Size, k)]
  BY DEF Slot, Value
<1>2. Init => Dictionary!DictInit
  <2> SUFFICES ASSUME Init PROVE dict = [k \in Keys |-> NoValue] /\ ret = NoValue
    BY DEF Dictionary!DictInit
  <2>1. Good(table, Size) /\ HasEmpty(table, Size)
    BY InitIInv, CountedHas DEF IInv
  <2>2. UsedIn(table, Size) = {}
    <3>1. DOMAIN table = 0 .. Size - 1
      BY InitIInv, CountedHas DEF IInv
    <3>2. \A i \in DOMAIN table : empty_entry(table[i])
      BY DEF Init, EmptyTable, EmptySlot, empty_entry
    <3> QED
      BY <3>1, <3>2 DEF UsedIn
  <2>3. ASSUME NEW k \in Keys PROVE Value(table, Size, k) = NoValue
    <3>1. ~ Has(table, Size, k)
      BY <2>2 DEF Has, UsedIn
    <3> QED
      BY <2>1, <3>1, ValueIs
  <2> QED
    BY <1>1, <2>3 DEF Init
<1>3. dict' = [k \in Keys |-> Value(table', Size', k)]
  BY DEF Slot, Value
<1>4. ASSUME IInv, NEW k \in Keys, NEW v \in Values, Insert(k, v)
      PROVE  Dictionary!DictNext
  <2>1. ret' = dict[k] /\ dict' = [dict EXCEPT ![k] = v]
    <3>1. /\ ret' = Value(table, Size, k)
          /\ \A q \in Keys : Value(table', Size', q) = IF q = k THEN v ELSE Value(table, Size, q)
      BY <1>4, InsertDoes
    <3> HIDE DEF dict
    <3> QED
      BY <1>1, <1>3, <3>1
  <2>2. Dictionary!DictInsert(k, v)
    BY <2>1 DEF Dictionary!DictInsert
  <2> QED
    BY <2>2 DEF Dictionary!DictNext
<1>5. ASSUME IInv, NEW k \in Keys, Delete(k)
      PROVE  Dictionary!DictNext
  <2>1. ret' = dict[k] /\ dict' = [dict EXCEPT ![k] = NoValue]
    <3>1. /\ ret' = Value(table, Size, k)
          /\ \A q \in Keys :
               Value(table', Size', q) = IF q = k THEN NoValue ELSE Value(table, Size, q)
      BY <1>5, DeleteDoes
    <3> HIDE DEF dict
    <3> QED
      BY <1>1, <1>3, <3>1
  <2>2. Dictionary!DictDelete(k)
    BY <2>1 DEF Dictionary!DictDelete
  <2> QED
    BY <2>2 DEF Dictionary!DictNext
<1>6. ASSUME table' = table
      PROVE  dict' = dict
  <2>1. Size' = Size
    BY <1>6 DEF Size
  <2> HIDE DEF dict
  <2> QED
    BY <1>1, <1>3, <1>6, <2>1
<1>7. ASSUME IInv, NEW k \in Keys, Lookup(k)
      PROVE  Dictionary!DictNext
  <2>1. ret' = dict[k] /\ dict' = dict
    <3>1. ret' = Value(table, Size, k) /\ table' = table
      BY <1>7, LookupDoes
    <3>2. dict' = dict
      BY <1>6, <3>1
    <3> HIDE DEF dict
    <3> QED
      BY <1>1, <3>1, <3>2
  <2>2. Dictionary!DictLookup(k)
    BY <2>1 DEF Dictionary!DictLookup
  <2> QED
    BY <2>2 DEF Dictionary!DictNext
<1>8. ASSUME IInv, NEW n \in Sizes, Resize(n)
      PROVE  UNCHANGED Dictionary!dictVars
  <2>1. dict' = dict
    <3>1. \A q \in Keys : Value(table', Size', q) = Value(table, Size, q)
      BY <1>8, ResizeDoes
    <3> HIDE DEF dict
    <3> QED
      BY <1>1, <1>3, <3>1
  <2>2. ret' = ret
    BY <1>8 DEF Resize
  <2> QED
    BY <2>1, <2>2 DEF Dictionary!dictVars
<1>9. ASSUME Walk \/ WalkEnd \/ UNCHANGED vars
      PROVE  UNCHANGED Dictionary!dictVars
  <2>1. table' = table /\ ret' = ret
    BY <1>9 DEF Walk, WalkEnd, vars, tableVars
  <2>2. dict' = dict
    BY <1>6, <2>1
  <2> QED
    BY <2>1, <2>2 DEF Dictionary!dictVars
<1>10. IInv /\ [Next]_vars => [Dictionary!DictNext]_Dictionary!dictVars
  BY <1>4, <1>5, <1>7, <1>8, <1>9 DEF Next
<1> QED
  BY <1>2, <1>10, AlwaysIInv, PTL DEF Spec, ImplementsDict, Dictionary!DictSpec
===============================================================================
