------------------------------- MODULE Induction -------------------------------
(***************************************************************************)
(* Induction over numbers without a predicate parameter: the numbers for   *)
(* which something holds are a set, and a set that has 0 and with every    *)
(* number the next one is Nat.  With it, definitions by recursion can be   *)
(* unfolded: what a binary search answers, what a loop leaves of a list,   *)
(* what a sum is.  Also quotients and remainders.                          *)
(***************************************************************************)
EXTENDS Integers, Sequences, WellFoundedInduction, TLAPS

(* A nonempty set of numbers has a least one, and a set that has 0 and     *)
(* with each number the next one has them all: induction, for definitions  *)
(* by recursion.                                                           *)
LEMMA LeastNumber ==
    ASSUME NEW S \in SUBSET Nat, S # {}
    PROVE  \E m \in S : \A k \in S : m <= k
<1>1. IsWellFoundedOn(OpToRel(<, Nat), Nat)
  BY NatLessThanWellFounded
<1>2. PICK m \in S : \A k \in S : ~ (<<k, m>> \in OpToRel(<, Nat))
  BY <1>1, WFMin
<1>3. \A k \in S : ~(k < m)
  <2>1. TAKE k \in S
  <2>2. <<k, m>> \in Nat \X Nat
    OBVIOUS
  <2>3. <<k, m>> \notin OpToRel(<, Nat)
    BY <1>2
  <2> QED BY <2>2, <2>3 DEF OpToRel
<1> QED BY <1>3

LEMMA EveryNumber ==
    ASSUME NEW S \in SUBSET Nat, 0 \in S, \A n \in S : n + 1 \in S
    PROVE  S = Nat
<1>1. SUFFICES ASSUME Nat \ S # {} PROVE FALSE
  OBVIOUS
<1>2. PICK m \in Nat \ S : \A k \in Nat \ S : m <= k
  BY <1>1, LeastNumber
<1>3. m # 0 /\ m - 1 \in Nat
  BY <1>2
<1>4. m - 1 \in S
  BY <1>2, <1>3
<1> QED BY <1>2, <1>3, <1>4

(* Definitions by recursion on 0 .. N have a value.                        *)
Recursion(N, V, a, step) ==
    {f \in [0 .. N -> V] : f[0] = a /\ \A i \in 1 .. N : f[i] = step[i][f[i - 1]]}

LEMMA RecursionTo ==
    ASSUME NEW N \in Nat, NEW V, NEW a \in V, NEW step \in [1 .. N -> [V -> V]]
    PROVE  Recursion(N, V, a, step) # {}
<1> DEFINE Good(n, f) == /\ f \in [0 .. n -> V]
                         /\ \A i \in 0 .. n : f[i] = IF i = 0 THEN a ELSE step[i][f[i - 1]]
           S == {n \in Nat : n <= N => \E f : Good(n, f)}
<1>1. 0 \in S
  <2> DEFINE f == [i \in 0 .. 0 |-> a]
  <2>1. Good(0, f)
    OBVIOUS
  <2> HIDE DEF Good
  <2> QED BY <2>1
<1>2. ASSUME NEW n \in S PROVE n + 1 \in S
  <2>1. SUFFICES ASSUME n + 1 <= N PROVE \E f : Good(n + 1, f)
    <3> HIDE DEF Good
    <3> QED OBVIOUS
  <2>2. PICK f : Good(n, f)
    BY <2>1
  <2> DEFINE g == [i \in 0 .. n + 1 |-> IF i = n + 1 THEN step[n + 1][f[n]] ELSE f[i]]
  <2>3. f[n] \in V /\ n + 1 \in 1 .. N
    BY <2>1, <2>2
  <2>4. step[n + 1][f[n]] \in V
    BY <2>3
  <2>5. g \in [0 .. n + 1 -> V]
    BY <2>2, <2>4
  <2>6. ASSUME NEW i \in 0 .. n + 1
        PROVE  g[i] = IF i = 0 THEN a ELSE step[i][g[i - 1]]
    <3>1. CASE i = n + 1
      <4>1. i # 0 /\ i - 1 = n /\ n \in 0 .. n + 1 /\ n # n + 1
        BY <3>1
      <4>2. g[n] = f[n]
        BY <4>1
      <4>3. g[i] = step[i][f[n]]
        BY <3>1
      <4> QED BY <4>1, <4>2, <4>3
    <3>2. CASE i # n + 1
      <4>1. i \in 0 .. n /\ g[i] = f[i]
        BY <3>2
      <4>2. i # 0 => i - 1 \in 0 .. n + 1 /\ i - 1 # n + 1 /\ i - 1 \in 0 .. n
        BY <4>1
      <4>3. i # 0 => g[i - 1] = f[i - 1]
        BY <4>2
      <4>4. f[i] = IF i = 0 THEN a ELSE step[i][f[i - 1]]
        BY <2>2, <4>1
      <4> QED BY <4>1, <4>3, <4>4
    <3> QED BY <3>1, <3>2
  <2> HIDE DEF g
  <2>7. Good(n + 1, g)
    BY <2>5, <2>6
  <2>8. \E k : Good(n + 1, k)
    <3> HIDE DEF Good
    <3> QED BY <2>7
  <2> HIDE DEF Good
  <2> QED BY <2>8
<1>3. S = Nat
  <2>1. S \in SUBSET Nat
    OBVIOUS
  <2> HIDE DEF S
  <2> QED BY <1>1, <1>2, <2>1, EveryNumber
<1>4. PICK f : Good(N, f)
  <2>1. N \in S
    <3> HIDE DEF S
    <3> QED BY <1>3
  <2> HIDE DEF Good
  <2> QED BY <2>1
<1>5. 0 \in 0 .. N /\ \A i \in 1 .. N : i \in 0 .. N /\ i # 0
  OBVIOUS
<1> QED BY <1>4, <1>5 DEF Recursion

(* Definitions by recursion on things that have a rank have a value, if    *)
(* each value depends on those of lower ranks only.                        *)
Recursive(D, V, step) == {f \in [D -> V] : \A r \in D : f[r] = step[r][f]}

Below(D, rank, r) == {q \in D : rank[q] < rank[r]}

Founded(D, V, rank, step) ==
    \A r \in D, f, g \in [D -> V] :
        (\A q \in Below(D, rank, r) : f[q] = g[q]) => step[r][f] = step[r][g]

LEMMA RecursionByRank ==
    ASSUME NEW D, NEW V, NEW a \in V, NEW N \in Nat, NEW rank \in [D -> Nat],
           \A r \in D : rank[r] < N,
           NEW step \in [D -> [[D -> V] -> V]], Founded(D, V, rank, step)
    PROVE  Recursive(D, V, step) # {}
<1> DEFINE Good(n, f) == f \in [D -> V] /\ \A r \in D : rank[r] < n => f[r] = step[r][f]
           S == {n \in Nat : \E f : Good(n, f)}
<1>1. 0 \in S
  <2>1. Good(0, [r \in D |-> a])
    OBVIOUS
  <2> HIDE DEF Good
  <2> QED BY <2>1
<1>2. ASSUME NEW n \in S PROVE n + 1 \in S
  <2>1. PICK f : Good(n, f)
    OBVIOUS
  <2>2. \A r \in D : step[r][f] \in V
    <3>1. TAKE r \in D
    <3>2. step[r] \in [[D -> V] -> V]
      OBVIOUS
    <3> QED BY <2>1, <3>2
  <2> DEFINE g == [r \in D |-> step[r][f]]
  <2>3. g \in [D -> V]
    BY <2>2
  <2>4. \A r \in D : g[r] = step[r][f]
    OBVIOUS
  <2> HIDE DEF g
  <2>5. ASSUME NEW r \in D, rank[r] < n + 1 PROVE g[r] = step[r][g]
    <3>1. ASSUME NEW q \in Below(D, rank, r) PROVE f[q] = g[q]
      <4>1. q \in D /\ rank[q] < rank[r]
        BY DEF Below
      <4>2. rank[q] < n
        BY <2>5, <4>1
      <4> QED BY <2>1, <2>4, <4>1, <4>2
    <3>2. f \in [D -> V]
      BY <2>1
    <3>3. step[r][f] = step[r][g]
      BY <2>3, <3>1, <3>2 DEF Founded
    <3> QED BY <2>4, <3>3
  <2>6. Good(n + 1, g)
    BY <2>3, <2>5
  <2>7. \E k : Good(n + 1, k)
    <3> HIDE DEF Good
    <3> QED BY <2>6
  <2> HIDE DEF Good
  <2> QED BY <2>7
<1>3. S = Nat
  <2>1. S \in SUBSET Nat
    OBVIOUS
  <2> HIDE DEF S
  <2> QED BY <1>1, <1>2, <2>1, EveryNumber
<1>4. PICK f : Good(N, f)
  <2>1. N \in S
    <3> HIDE DEF S
    <3> QED BY <1>3
  <2> HIDE DEF Good
  <2> QED BY <2>1
<1> QED BY <1>4 DEF Recursive

-----------------------------------------------------------------------------
(* Quotients and remainders.                                               *)
LEMMA Quotient ==
    ASSUME NEW b \in Nat, b > 0, NEW a \in Nat
    PROVE  \E q \in Int, r \in Int : a = q * b + r /\ r = a % b /\ q = a \div b /\ 0 <= r /\ r < b
<1>1. PICK q \in Int, r \in Int : a = q * b + r /\ r = a % b /\ q = a \div b
  OBVIOUS
<1>2. a % b \in 0 .. b - 1
  OBVIOUS
<1> QED BY <1>1, <1>2

LEMMA Remainder ==
    ASSUME NEW b \in Nat, b > 0, NEW k \in Int, NEW m \in Int, 0 <= m, m < b
    PROVE  (k * b + m) % b = m
  OBVIOUS

LEMMA DoubledHash ==
    ASSUME NEW x \in Nat, NEW s \in Nat \ {0}
    PROVE  (x % (2 * s)) % s = x % s /\ x % s <= x % (2 * s) /\ x % s \in 0 .. s - 1
           /\ x % (2 * s) \in 0 .. 2 * s - 1
<1>1. PICK q \in Int, r \in Int : x = q * (2 * s) + r /\ r = x % (2 * s) /\ 0 <= r /\ r < 2 * s
  <2>1. 2 * s \in Nat /\ 2 * s > 0
    OBVIOUS
  <2> QED BY <2>1, Quotient
<1>2. x % s = IF r < s THEN r ELSE r - s
  <2>1. PICK d \in Int : d = q + q
    OBVIOUS
  <2>2. q * (2 * s) = d * s
    BY <2>1
  <2>3. CASE r < s
    <3>1. x = d * s + r
      BY <1>1, <2>2
    <3>2. (d * s + r) % s = r
      <4>1. s \in Nat /\ s > 0 /\ 0 <= r /\ r < s /\ r \in Int /\ d \in Int
        BY <1>1, <2>3
      <4> QED BY <4>1, Remainder
    <3> QED BY <2>3, <3>1, <3>2
  <2>4. CASE ~(r < s)
    <3>1. d * s + s = (d + 1) * s
      OBVIOUS
    <3>2. PICK y \in Int : y = (d + 1) * s
      OBVIOUS
    <3>3. PICK z \in Int : z = d * s
      OBVIOUS
    <3>4. x = z + r /\ y = z + s
      BY <1>1, <2>2, <3>1, <3>2, <3>3
    <3>5. x = y + (r - s)
      BY <1>1, <3>4
    <3>6. x = (d + 1) * s + (r - s)
      BY <3>2, <3>5
    <3>7. 0 <= r - s /\ r - s < s /\ r - s \in Int /\ d + 1 \in Int
      BY <1>1, <2>4
    <3> QED BY <2>4, <3>6, <3>7, Remainder
  <2> QED BY <2>3, <2>4
<1>3. r % s = IF r < s THEN r ELSE r - s
  <2>1. CASE r < s
    BY <1>1, <2>1
  <2>2. CASE ~(r < s)
    <3>1. r = 1 * s + (r - s) /\ 0 <= r - s /\ r - s < s /\ r - s \in Int
      BY <1>1, <2>2
    <3> QED BY <2>2, <3>1, Remainder
  <2> QED BY <2>1, <2>2
<1>4. x % s <= r /\ x % s \in 0 .. s - 1
  BY <1>1, <1>2
<1>5. r % s = x % s
  BY <1>2, <1>3
<1> QED BY <1>1, <1>4, <1>5
===============================================================================
