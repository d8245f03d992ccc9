------------------------------ MODULE GroupProofs ------------------------------
(***************************************************************************)
(* Proofs about groups.  Multicast: what combine_queue makes of the queues *)
(* and the members, and that the count of a message is right after every   *)
(* step.  GroupManager: that harbors that have a group have tunnels to     *)
(* each other, or these are on their way.                                  *)
(***************************************************************************)
EXTENDS Multicast, GroupManager, Induction, SequenceTheorems, FiniteSetTheorems, TLAPS

-----------------------------------------------------------------------------
(* combine_queue sorts the enter and the leave queue, merges the one into  *)
(* the members and takes the other out of them.                            *)

NotFalling(s) == \A i, j \in 1 .. Len(s) : i < j => s[i] <= s[j]

(* The first n entries of s, and those from the n-th on.                   *)
Upto(s, n) == {s[i] : i \in 1 .. n}
From(s, n) == {s[i] : i \in n .. Len(s)}

Handles == Seq(Member)

LEMMA HandleSequence ==
    ASSUME Member \subseteq Nat, NEW s \in Handles
    PROVE  Len(s) \in Nat /\ \A i \in 1 .. Len(s) : s[i] \in Member /\ s[i] \in Nat
  BY LenProperties, ElementOfSeq DEF Handles

LEMMA AppendRises ==
    ASSUME Member \subseteq Nat, NEW u \in Handles, NEW x \in Member, Rising(u),
           \A y \in Elements(u) : y < x
    PROVE  /\ Append(u, x) \in Handles /\ Rising(Append(u, x))
           /\ Elements(Append(u, x)) = Elements(u) \cup {x}
<1>1. PICK w : w = Append(u, x)
  OBVIOUS
<1>2. /\ w \in Handles /\ Len(u) \in Nat /\ Len(w) = Len(u) + 1 /\ w[Len(u) + 1] = x
      /\ \A i \in 1 .. Len(u) : w[i] = u[i]
  BY <1>1, AppendProperties, LenProperties DEF Handles
<1>3. \A i \in 1 .. Len(u) : u[i] \in Elements(u) /\ u[i] \in Nat /\ u[i] < x
  BY HandleSequence DEF Elements
<1>4. ASSUME NEW j \in 1 .. Len(w), NEW k \in 1 .. Len(w), j < k PROVE w[j] < w[k]
  <2>1. j \in 1 .. Len(u) /\ w[j] = u[j]
    BY <1>2, <1>4
  <2>2. CASE k = Len(u) + 1
    BY <1>2, <1>3, <2>1, <2>2
  <2>3. CASE k # Len(u) + 1
    <3>1. k \in 1 .. Len(u) /\ w[k] = u[k]
      BY <1>2, <2>3
    <3>2. u[j] < u[k]
      BY <1>4, <2>1, <3>1 DEF Rising
    <3> QED BY <2>1, <3>1, <3>2
  <2> QED BY <2>2, <2>3
<1>5. Elements(w) = Elements(u) \cup {x}
  <2>1. ASSUME NEW y \in Elements(w) PROVE y \in Elements(u) \cup {x}
    <3>1. PICK i \in 1 .. Len(w) : y = w[i]
      BY DEF Elements
    <3>2. i \in 1 .. Len(u) \/ i = Len(u) + 1
      BY <1>2
    <3> QED BY <1>2, <3>1, <3>2 DEF Elements
  <2>2. x \in Elements(w)
    <3>1. Len(u) + 1 \in 1 .. Len(w)
      BY <1>2
    <3> QED BY <1>2, <3>1 DEF Elements
  <2>3. ASSUME NEW y \in Elements(u) PROVE y \in Elements(w)
    <3>1. PICK i \in 1 .. Len(u) : y = u[i]
      BY DEF Elements
    <3>2. i \in 1 .. Len(w) /\ w[i] = y
      BY <1>2, <3>1
    <3> QED BY <3>2 DEF Elements
  <2> QED BY <2>1, <2>2, <2>3
<1>6. Rising(w)
  BY <1>4 DEF Rising
<1> QED BY <1>1, <1>2, <1>5, <1>6

LEMMA PrependRises ==
    ASSUME Member \subseteq Nat, NEW u \in Handles, NEW x \in Member, Rising(u),
           \A y \in Elements(u) : x < y
    PROVE  /\ <<x>> \o u \in Handles /\ Rising(<<x>> \o u)
           /\ Elements(<<x>> \o u) = {x} \cup Elements(u)
<1>1. PICK w : w = <<x>> \o u
  OBVIOUS
<1>2. /\ w \in Handles /\ Len(u) \in Nat /\ Len(w) = Len(u) + 1 /\ w[1] = x
      /\ \A i \in 2 .. Len(u) + 1 : w[i] = u[i - 1]
  <2>1. <<x>> \in Seq(Member) /\ Len(<<x>>) = 1
    OBVIOUS
  <2>2. /\ w \in Seq(Member) /\ Len(w) = Len(<<x>>) + Len(u)
        /\ \A i \in 1 .. Len(<<x>>) + Len(u) : w[i] =
              IF i <= Len(<<x>>) THEN <<x>>[i] ELSE u[i - Len(<<x>>)]
    BY <1>1, <2>1, ConcatProperties DEF Handles
  <2>3. Len(u) \in Nat
    BY HandleSequence
  <2>4. \A i \in 1 .. 1 + Len(u) : w[i] = IF i <= 1 THEN <<x>>[i] ELSE u[i - 1]
    BY <2>1, <2>2
  <2>5. w[1] = <<x>>[1]
    BY <2>3, <2>4
  <2> QED BY <2>1, <2>2, <2>3, <2>4, <2>5 DEF Handles
<1>3. \A i \in 1 .. Len(u) : u[i] \in Elements(u) /\ u[i] \in Nat /\ x < u[i]
  BY HandleSequence DEF Elements
<1>4. ASSUME NEW j \in 1 .. Len(w), NEW k \in 1 .. Len(w), j < k PROVE w[j] < w[k]
  <2>1. k - 1 \in 1 .. Len(u) /\ w[k] = u[k - 1]
    BY <1>2, <1>4
  <2>2. CASE j = 1
    BY <1>2, <1>3, <2>1, <2>2
  <2>3. CASE j # 1
    <3>1. j - 1 \in 1 .. Len(u) /\ w[j] = u[j - 1] /\ j - 1 < k - 1
      BY <1>2, <1>4, <2>3
    <3>2. u[j - 1] < u[k - 1]
      BY <2>1, <3>1 DEF Rising
    <3> QED BY <2>1, <3>1, <3>2
  <2> QED BY <2>2, <2>3
<1>5. Elements(w) = {x} \cup Elements(u)
  <2>1. ASSUME NEW y \in Elements(w) PROVE y \in {x} \cup Elements(u)
    <3>1. PICK i \in 1 .. Len(w) : y = w[i]
      BY DEF Elements
    <3>2. i = 1 \/ (i \in 2 .. Len(u) + 1 /\ i - 1 \in 1 .. Len(u))
      BY <1>2
    <3> QED BY <1>2, <3>1, <3>2 DEF Elements
  <2>2. x \in Elements(w)
    <3>1. 1 \in 1 .. Len(w)
      BY <1>2
    <3> QED BY <1>2, <3>1 DEF Elements
  <2>3. ASSUME NEW y \in Elements(u) PROVE y \in Elements(w)
    <3>1. PICK i \in 1 .. Len(u) : y = u[i]
      BY DEF Elements
    <3>2. i + 1 \in 1 .. Len(w) /\ i + 1 \in 2 .. Len(u) + 1 /\ (i + 1) - 1 = i
      BY <1>2
    <3>3. w[i + 1] = y
      BY <1>2, <3>1, <3>2
    <3> QED BY <3>2, <3>3 DEF Elements
  <2> QED BY <2>1, <2>2, <2>3
<1>6. Rising(w)
  BY <1>4 DEF Rising
<1> QED BY <1>1, <1>2, <1>5, <1>6

LEMMA PartRises ==
    ASSUME Member \subseteq Nat, NEW d \in Handles, Rising(d),
           NEW a \in Nat, NEW b \in Nat, 1 <= a, b <= Len(d)
    PROVE  /\ SubSeq(d, a, b) \in Handles /\ Rising(SubSeq(d, a, b))
           /\ Elements(SubSeq(d, a, b)) = {d[i] : i \in a .. b}
<1>1. PICK w : w = SubSeq(d, a, b)
  OBVIOUS
<1>2. Len(d) \in Nat /\ \A i \in 1 .. Len(d) : d[i] \in Member /\ d[i] \in Nat
  BY HandleSequence
<1>3. \A i \in a .. b : d[i] \in Member
  BY <1>2
<1>4. /\ w \in Handles /\ Len(w) = IF a <= b THEN b - a + 1 ELSE 0
      /\ \A i \in 1 .. b - a + 1 : w[i] = d[a + i - 1]
  BY <1>1, <1>3, SubSeqProperties DEF Handles
<1>5. \A i \in 1 .. Len(w) : a + i - 1 \in a .. b /\ a + i - 1 \in 1 .. Len(d) /\ w[i] = d[a + i - 1]
  BY <1>2, <1>4
<1>6. Rising(w)
  <2>1. SUFFICES ASSUME NEW j \in 1 .. Len(w), NEW k \in 1 .. Len(w), j < k PROVE w[j] < w[k]
    BY DEF Rising
  <2>2. Len(w) \in Nat
    BY <1>4
  <2>3. a + j - 1 < a + k - 1
    BY <2>1, <2>2
  <2>4. d[a + j - 1] < d[a + k - 1]
    BY <1>5, <2>3 DEF Rising
  <2> QED BY <1>5, <2>4
<1>7. Elements(w) = {d[i] : i \in a .. b}
  <2>1. ASSUME NEW y \in Elements(w) PROVE y \in {d[i] : i \in a .. b}
    <3>1. PICK i \in 1 .. Len(w) : y = w[i]
      BY DEF Elements
    <3> QED BY <1>5, <3>1
  <2>2. ASSUME NEW i \in a .. b PROVE d[i] \in Elements(w)
    <3>1. i - a + 1 \in 1 .. Len(w) /\ a + (i - a + 1) - 1 = i
      BY <1>4
    <3>2. w[i - a + 1] = d[i]
      BY <1>5, <3>1
    <3> QED BY <3>1, <3>2 DEF Elements
  <2> QED BY <2>1, <2>2
<1> QED BY <1>1, <1>4, <1>6, <1>7

LEMMA SomeOrder ==
    ASSUME NEW s \in Seq(Nat)
    PROVE  \E p \in [1 .. Len(s) -> 1 .. Len(s)] : Sorts(p, s)
<1> DEFINE Q == Seq(Nat)
           Sorted(n) == \A u \in Q : Len(u) = n => \E p \in [1 .. n -> 1 .. n] : Sorts(p, u)
           S == {n \in Nat : Sorted(n)}
<1>0. \A u : u \in Q <=> u \in Seq(Nat)
  OBVIOUS
<1>a. \A u \in Q : Len(u) \in Nat /\ \A i \in 1 .. Len(u) : u[i] \in Nat
  <2>1. ASSUME NEW u \in Seq(Nat) PROVE Len(u) \in Nat /\ \A i \in 1 .. Len(u) : u[i] \in Nat
    BY LenProperties, ElementOfSeq
  <2> QED BY <2>1
<1> HIDE DEF Q
<1>1. 0 \in S
  <2>1. ASSUME NEW u \in Q, Len(u) = 0
        PROVE  \E p \in [1 .. 0 -> 1 .. 0] : Sorts(p, u)
    <3>1. [k \in 1 .. 0 |-> k] \in [1 .. 0 -> 1 .. 0]
      OBVIOUS
    <3>2. Sorts([k \in 1 .. 0 |-> k], u)
      BY <2>1 DEF Sorts
    <3> QED BY <3>1, <3>2
  <2> QED BY <2>1
<1>2. ASSUME NEW n \in S PROVE n + 1 \in S
  <2>1. SUFFICES ASSUME NEW u \in Q, Len(u) = n + 1
                 PROVE  \E p \in [1 .. n + 1 -> 1 .. n + 1] : Sorts(p, u)
    <3>1. n + 1 \in Nat
      OBVIOUS
    <3> QED BY <3>1
  <2>a. n \in Nat /\ \A w \in Q : Len(w) = n => \E p \in [1 .. n -> 1 .. n] : Sorts(p, w)
    OBVIOUS
  <2> HIDE DEF S
  <2>2. PICK w : w = SubSeq(u, 1, n)
    OBVIOUS
  <2>3. w \in Q /\ Len(w) = n /\ \A i \in 1 .. n : w[i] = u[i]
    <3>1. n \in Nat /\ 1 \in Int /\ n \in Int /\ \A i \in 1 .. n : u[i] \in Nat
      BY <1>a, <2>1, <2>a
    <3>3. /\ w \in Seq(Nat) /\ Len(w) = IF 1 <= n THEN n - 1 + 1 ELSE 0
          /\ \A i \in 1 .. n - 1 + 1 : w[i] = u[1 + i - 1]
      BY <2>2, <3>1, SubSeqProperties
    <3>4. \A i \in 1 .. n : i \in 1 .. n - 1 + 1 /\ 1 + i - 1 = i
      BY <2>a
    <3> QED BY <1>0, <3>1, <3>3, <3>4
  <2>4. PICK p \in [1 .. n -> 1 .. n] : Sorts(p, w)
    BY <2>3, <2>a
  <2>5. \A i \in 1 .. n + 1 : u[i] \in Nat
    BY <1>a, <2>1, <2>a
  <2>6. \A i \in 1 .. n : p[i] \in 1 .. n /\ p[i] \in 1 .. n + 1 /\ w[p[i]] = u[p[i]]
    <3>1. TAKE i \in 1 .. n
    <3>2. p[i] \in 1 .. n /\ p[i] \in 1 .. n + 1
      BY <2>a
    <3> QED BY <2>3, <3>2
  <2> DEFINE A == {k \in 1 .. n + 1 : k = n + 1 \/ u[n + 1] <= u[p[k]]}
  <2>7. PICK k \in A : \A l \in A : k <= l
    <3>1. n + 1 \in A /\ A \in SUBSET Nat
      BY <2>a
    <3> QED BY <3>1, LeastNumber
  <2>b. /\ k \in 1 .. n + 1 /\ (k = n + 1 \/ u[n + 1] <= u[p[k]])
        /\ \A l \in 1 .. n + 1 : l = n + 1 \/ u[n + 1] <= u[p[l]] => k <= l
    BY <2>7
  <2> HIDE DEF A
  <2>8. /\ k \in 1 .. n + 1
        /\ \A i \in 1 .. n : i < k => u[p[i]] < u[n + 1]
        /\ \A i \in 1 .. n : i >= k => u[n + 1] <= u[p[i]]
    <3>1. k \in 1 .. n + 1
      BY <2>b
    <3>2. ASSUME NEW i \in 1 .. n, i < k PROVE u[p[i]] < u[n + 1]
      <4>1. ~(u[n + 1] <= u[p[i]]) /\ i \in 1 .. n + 1 /\ i # n + 1
        BY <2>a, <2>b, <3>1, <3>2
      <4> QED BY <2>a, <2>5, <2>6, <4>1
    <3>3. ASSUME NEW i \in 1 .. n, i >= k PROVE u[n + 1] <= u[p[i]]
      <4>1. k \in 1 .. n
        BY <2>a, <3>1, <3>3
      <4>2. u[n + 1] <= u[p[k]]
        BY <2>a, <4>1, <2>b
      <4>3. k = i \/ w[p[k]] <= w[p[i]]
        <5>1. k < i => w[p[k]] <= w[p[i]]
          BY <2>a, <2>3, <2>4, <4>1 DEF Sorts
        <5>2. k \in Nat /\ i \in Nat /\ k <= i
          BY <2>a, <3>3, <4>1
        <5> QED BY <2>a, <5>1, <5>2
      <4>4. u[p[k]] \in Nat /\ u[p[i]] \in Nat /\ u[n + 1] \in Nat
        BY <2>a, <2>5, <2>6, <4>1
      <4>5. w[p[k]] = u[p[k]] /\ w[p[i]] = u[p[i]]
        BY <2>a, <2>6, <4>1
      <4>6. u[p[k]] <= u[p[i]]
        <5>1. CASE k = i
          BY <4>4, <5>1
        <5>2. CASE w[p[k]] <= w[p[i]]
          BY <4>5, <5>2
        <5> QED BY <4>3, <5>1, <5>2
      <4>7. PICK x \in Nat, y \in Nat, z \in Nat : x = u[n + 1] /\ y = u[p[k]] /\ z = u[p[i]]
        BY <4>4
      <4>8. x <= y /\ y <= z
        BY <4>2, <4>6, <4>7
      <4>9. x <= z
        BY <4>8
      <4> QED BY <4>7, <4>9
    <3> QED BY <2>a, <3>1, <3>2, <3>3
  <2> DEFINE q == [i \in 1 .. n + 1 |-> IF i < k THEN p[i] ELSE IF i = k THEN n + 1 ELSE p[i - 1]]
  <2>9. \A i \in 1 .. n + 1 : /\ i < k => i \in 1 .. n /\ q[i] = p[i]
                              /\ i = k => q[i] = n + 1
                              /\ i > k => i - 1 \in 1 .. n /\ q[i] = p[i - 1]
    BY <2>a, <2>8
  <2>10. q \in [1 .. n + 1 -> 1 .. n + 1]
    BY <2>a, <2>6, <2>8
  <2> HIDE DEF q
  <2>11. ASSUME NEW l \in 1 .. n + 1 PROVE \E i \in 1 .. n + 1 : q[i] = l
    <3>1. CASE l = n + 1
      BY <2>a, <2>8, <2>9, <3>1
    <3>2. CASE l # n + 1
      <4>1. PICK i \in 1 .. n : p[i] = l
        <5>1. l \in 1 .. Len(w)
          BY <2>a, <2>3, <3>2
        <5> QED BY <2>a, <2>3, <2>4, <5>1 DEF Sorts
      <4>2. CASE i < k
        <5>1. i \in 1 .. n + 1 /\ q[i] = l
          BY <2>a, <2>9, <4>1, <4>2
        <5> QED BY <2>a, <5>1
      <4>3. CASE ~(i < k)
        <5>1. i + 1 \in 1 .. n + 1 /\ i + 1 > k /\ (i + 1) - 1 = i
          BY <2>a, <2>8, <4>3
        <5>2. q[i + 1] = l
          BY <2>a, <2>9, <4>1, <5>1
        <5> QED BY <2>a, <5>1, <5>2
      <4> QED BY <2>a, <4>2, <4>3
    <3> QED BY <2>a, <3>1, <3>2
  <2>12. ASSUME NEW i \in 1 .. n + 1, NEW j \in 1 .. n + 1, i < j PROVE u[q[i]] <= u[q[j]]
    <3>1. \A x, y \in 1 .. n : x < y => u[p[x]] <= u[p[y]]
      BY <2>a, <2>3, <2>4, <2>6 DEF Sorts
    <3>2. u[n + 1] \in Nat /\ \A x \in 1 .. n : u[p[x]] \in Nat
      BY <2>a, <2>5, <2>6
    <3>3. CASE j < k
      <4>1. i < k /\ i \in 1 .. n /\ j \in 1 .. n
        BY <2>a, <2>8, <2>12, <3>3
      <4>2. q[i] = p[i] /\ q[j] = p[j]
        BY <2>a, <2>9, <3>3, <4>1
      <4> QED BY <2>a, <2>12, <3>1, <4>1, <4>2
    <3>4. CASE j = k
      <4>1. i < k /\ q[j] = n + 1
        BY <2>a, <2>9, <2>12, <3>4
      <4>2. i \in 1 .. n /\ q[i] = p[i]
        BY <2>a, <2>9, <4>1
      <4>3. u[p[i]] < u[n + 1]
        BY <2>a, <2>8, <4>1, <4>2
      <4> QED BY <2>a, <3>2, <4>1, <4>2, <4>3
    <3>5. CASE j > k
      <4>1. j - 1 \in 1 .. n /\ q[j] = p[j - 1]
        BY <2>a, <2>9, <3>5
      <4>2. CASE i < k
        <5>1. i \in 1 .. n /\ q[i] = p[i] /\ i < j - 1
          BY <2>a, <2>8, <2>9, <3>5, <4>2
        <5> QED BY <2>a, <3>1, <4>1, <5>1
      <4>3. CASE i = k
        <5>1. q[i] = n + 1 /\ j - 1 >= k
          BY <2>a, <2>8, <2>9, <3>5, <4>3
        <5> QED BY <2>a, <2>8, <4>1, <5>1
      <4>4. CASE i > k
        <5>1. i - 1 \in 1 .. n /\ q[i] = p[i - 1] /\ i - 1 < j - 1
          BY <2>a, <2>9, <2>12, <4>4
        <5> QED BY <2>a, <3>1, <4>1, <5>1
      <4> QED BY <2>a, <2>8, <4>2, <4>3, <4>4
    <3> QED BY <2>a, <2>8, <3>3, <3>4, <3>5
  <2>13. Sorts(q, u)
    BY <2>a, <2>1, <2>11, <2>12 DEF Sorts
  <2> QED BY <2>a, <2>10, <2>13
<1>3. S = Nat
  <2>1. S \in SUBSET Nat
    OBVIOUS
  <2> HIDE DEF S
  <2> QED BY <1>1, <1>2, <2>1, EveryNumber
<1>4. Len(s) \in Nat /\ s \in Q
  BY <1>0, LenProperties
<1>5. Sorted(Len(s))
  <2> HIDE DEF Sorted
  <2> QED BY <1>3, <1>4
<1> QED BY <1>4, <1>5

LEMMA AscendingSorts ==
    ASSUME Member \subseteq Nat, NEW s \in Seq(Member)
    PROVE  /\ Ascending(s) \in Seq(Member) /\ NotFalling(Ascending(s))
           /\ Elements(Ascending(s)) = Elements(s)
<1>1. s \in Seq(Nat) /\ Len(s) \in Nat
  <2>1. s \in [1 .. Len(s) -> Member] /\ Len(s) \in Nat
    BY LenProperties
  <2>2. s \in [1 .. Len(s) -> Nat]
    BY <2>1
  <2> QED BY <2>1, <2>2, SeqDef
<1> DEFINE p == CHOOSE p \in [1 .. Len(s) -> 1 .. Len(s)] : Sorts(p, s)
           a == [i \in 1 .. Len(s) |-> s[p[i]]]
<1>2. p \in [1 .. Len(s) -> 1 .. Len(s)] /\ Sorts(p, s)
  <2>1. \E o \in [1 .. Len(s) -> 1 .. Len(s)] : Sorts(o, s)
    BY <1>1, SomeOrder
  <2> QED BY <2>1
<1>3. Ascending(s) = a
  BY DEF Ascending
<1> HIDE DEF p
<1>4. \A i \in 1 .. Len(s) : s[i] \in Member
  BY ElementOfSeq
<1>5. a \in [1 .. Len(s) -> Member]
  BY <1>2, <1>4
<1>6. a \in Seq(Member) /\ Len(a) = Len(s)
  BY <1>1, <1>5, SeqDef, LenProperties
<1>7. NotFalling(a)
  BY <1>2, <1>6 DEF Sorts, NotFalling
<1>8. Elements(a) = Elements(s)
  <2>1. ASSUME NEW i \in 1 .. Len(s) PROVE a[i] \in Elements(s)
    BY <1>2 DEF Elements
  <2>2. ASSUME NEW k \in 1 .. Len(s) PROVE s[k] \in Elements(a)
    <3>1. PICK i \in 1 .. Len(s) : p[i] = k
      BY <1>2 DEF Sorts
    <3> QED BY <1>6, <3>1 DEF Elements
  <2> QED BY <1>6, <2>1, <2>2 DEF Elements
<1> QED BY <1>3, <1>6, <1>7, <1>8

(* The entries still to do, in the loop that merges the enter queue.       *)
Todo(e, d) == (0 .. Len(e)) \X (0 .. Len(d)) \X (Member \cup {0})

(* A round of that loop, if f is what the rounds after it make.            *)
EnterRound(e, d, f, r) ==
    LET i == r[1]
        j == r[2]
    IN  IF i = 0 THEN SubSeq(d, 1, j)
        ELSE IF e[i] = r[3] THEN f[<<i - 1, j, r[3]>>]
        ELSE IF j = 0 THEN Append(f[<<i - 1, 0, e[i]>>], e[i])
        ELSE IF e[i] = d[j] THEN f[<<i - 1, j, e[i]>>]
        ELSE IF e[i] > d[j] THEN Append(f[<<i - 1, j, e[i]>>], e[i])
        ELSE Append(f[<<i, j - 1, 0>>], d[j])

(* What it should make of the first i entries of e and j members of d.     *)
Merged(e, d, i, j, last, v) ==
    v \in Handles /\ Rising(v) /\ Elements(v) = (Upto(e, i) \ {last}) \cup Upto(d, j)

Fits(e, i, last) == i = 0 \/ last = 0 \/ e[i] <= last

LEMMA EnterRoundMerges ==
    ASSUME Member \subseteq Nat \ {0}, NEW e \in Handles, NEW d \in Handles,
           NotFalling(e), Rising(d),
           NEW i \in 0 .. Len(e), NEW j \in 0 .. Len(d), NEW last \in Member \cup {0},
           Fits(e, i, last), NEW f,
           \A k \in 0 .. Len(e), l \in 0 .. Len(d), x \in Member \cup {0} :
               k + l < i + j /\ Fits(e, k, x) => Merged(e, d, k, l, x, f[<<k, l, x>>])
    PROVE  Merged(e, d, i, j, last, EnterRound(e, d, f, <<i, j, last>>))
<1>1. /\ Len(e) \in Nat /\ \A k \in 1 .. Len(e) : e[k] \in Member /\ e[k] \in Nat /\ e[k] # 0
      /\ Len(d) \in Nat /\ \A l \in 1 .. Len(d) : d[l] \in Member /\ d[l] \in Nat /\ d[l] # 0
      /\ last \in Nat /\ Member \subseteq Nat
  <2>1. Member \subseteq Nat /\ 0 \notin Member
    OBVIOUS
  <2>2. Len(e) \in Nat /\ \A k \in 1 .. Len(e) : e[k] \in Member /\ e[k] \in Nat
    BY <2>1, HandleSequence
  <2>3. Len(d) \in Nat /\ \A k \in 1 .. Len(d) : d[k] \in Member /\ d[k] \in Nat
    BY <2>1, HandleSequence
  <2> QED BY <2>1, <2>2, <2>3
<1>2. CASE i = 0
  <2>1. EnterRound(e, d, f, <<i, j, last>>) = SubSeq(d, 1, j)
    BY <1>2 DEF EnterRound
  <2>2. SubSeq(d, 1, j) \in Handles /\ Rising(SubSeq(d, 1, j)) /\ Elements(SubSeq(d, 1, j)) = Upto(d, j)
    <3>1. j \in Nat /\ 1 \in Nat /\ 1 <= 1 /\ j <= Len(d)
      BY <1>1
    <3> QED BY <1>1, <3>1, PartRises DEF Upto
  <2>3. Upto(e, i) = {}
    BY <1>2 DEF Upto
  <2> QED BY <2>1, <2>2, <2>3 DEF Merged
<1>3. CASE i # 0
  <2>1. i \in 1 .. Len(e) /\ i - 1 \in 0 .. Len(e) /\ e[i] \in Member /\ e[i] \in Nat
    BY <1>1, <1>3
  <2>2. PICK x \in Member : x = e[i]
    BY <2>1
  <2>3. x \in Nat /\ x # 0
    BY <1>1, <2>1, <2>2
  <2>4. Upto(e, i) = Upto(e, i - 1) \cup {x}
    <3>1. \A k \in 1 .. i : k \in 1 .. i - 1 \/ k = i
      BY <2>1
    <3>2. \A k \in 1 .. i - 1 : k \in 1 .. i
      BY <2>1
    <3>3. i \in 1 .. i
      BY <2>1
    <3> QED BY <2>2, <3>1, <3>2, <3>3 DEF Upto
  <2>5. \A y \in Upto(e, i) : y \in Nat /\ y <= x
    <3>1. ASSUME NEW k \in 1 .. i PROVE e[k] \in Nat /\ e[k] <= x
      <4>1. k \in 1 .. Len(e) /\ (k < i \/ k = i)
        BY <2>1
      <4>2. k < i => e[k] <= e[i]
        BY <2>1, <4>1 DEF NotFalling
      <4> QED BY <1>1, <2>1, <2>2, <4>1, <4>2
    <3> QED BY <3>1 DEF Upto
  <2>6. Fits(e, i - 1, x) /\ Fits(e, i - 1, last) /\ Fits(e, i, 0)
    <3>1. CASE i - 1 = 0
      BY <3>1 DEF Fits
    <3>2. CASE i - 1 # 0
      <4>1. i - 1 \in 1 .. Len(e) /\ i - 1 < i
        BY <2>1, <3>2
      <4>2. e[i - 1] <= e[i]
        BY <2>1, <4>1 DEF NotFalling
      <4>3. e[i - 1] \in Nat
        BY <1>1, <4>1
      <4>4. last = 0 \/ e[i] <= last
        BY <1>3 DEF Fits
      <4> QED BY <1>1, <2>1, <2>2, <4>2, <4>3, <4>4 DEF Fits
    <3> QED BY <3>1, <3>2 DEF Fits
  <2>7. i - 1 + j < i + j /\ 0 \in 0 .. Len(d)
    BY <1>1
  <2>8. CASE x = last
    <3>1. EnterRound(e, d, f, <<i, j, last>>) = f[<<i - 1, j, last>>]
      BY <1>3, <2>2, <2>8 DEF EnterRound
    <3>2. Merged(e, d, i - 1, j, last, f[<<i - 1, j, last>>])
      BY <2>1, <2>6, <2>7
    <3> QED BY <2>4, <2>8, <3>1, <3>2 DEF Merged
  <2>9. CASE x # last
    <3>1. last \notin Upto(e, i)
      <4>1. last = 0 \/ x < last
        BY <1>1, <1>3, <2>2, <2>3, <2>9 DEF Fits
      <4>2. 0 \notin Upto(e, i)
        BY <1>1, <2>1 DEF Upto
      <4> QED BY <1>1, <2>3, <2>5, <4>1, <4>2
    <3>2. Upto(e, i) \ {last} = Upto(e, i)
      BY <3>1
    <3>3. ASSUME NEW l \in 0 .. Len(d), l <= j
          PROVE  Merged(e, d, i - 1, l, x, f[<<i - 1, l, x>>])
      <4>1. i - 1 + l < i + j
        BY <1>1, <2>1, <3>3
      <4> QED BY <2>1, <2>6, <4>1
    <3>4. \A y \in Upto(e, i - 1) \ {x} : y < x
      <4>1. ASSUME NEW y \in Upto(e, i - 1), y # x PROVE y < x
        <5>1. y \in Upto(e, i)
          BY <2>4
        <5> QED BY <2>3, <2>5, <4>1, <5>1
      <4> QED BY <4>1
    <3>5. CASE j = 0
      <4>1. EnterRound(e, d, f, <<i, j, last>>) = Append(f[<<i - 1, 0, x>>], x)
        BY <1>3, <2>2, <2>9, <3>5 DEF EnterRound
      <4>2. PICK u : u = f[<<i - 1, 0, x>>] /\ Merged(e, d, i - 1, 0, x, u)
        BY <2>7, <3>3, <3>5
      <4>3. Upto(d, 0) = {}
        BY DEF Upto
      <4>4. u \in Handles /\ Rising(u) /\ Elements(u) = Upto(e, i - 1) \ {x}
        BY <4>2, <4>3 DEF Merged
      <4>5. /\ Append(u, x) \in Handles /\ Rising(Append(u, x))
            /\ Elements(Append(u, x)) = Elements(u) \cup {x}
        BY <1>1, <3>4, <4>4, AppendRises
      <4> QED BY <2>4, <3>2, <3>5, <4>1, <4>2, <4>3, <4>4, <4>5 DEF Merged
    <3>6. CASE j # 0
      <4>1. j \in 1 .. Len(d) /\ j - 1 \in 0 .. Len(d)
        BY <1>1, <3>6
      <4>2. PICK y \in Member : y = d[j]
        BY <1>1, <4>1
      <4>3. y \in Nat
        BY <1>1
      <4>4. Upto(d, j) = Upto(d, j - 1) \cup {y}
        <5>1. \A k \in 1 .. j : k \in 1 .. j - 1 \/ k = j
          BY <4>1
        <5>2. \A k \in 1 .. j - 1 : k \in 1 .. j
          BY <4>1
        <5>3. j \in 1 .. j
          BY <4>1
        <5> QED BY <4>2, <5>1, <5>2, <5>3 DEF Upto
      <4>5. \A z \in Upto(d, j - 1) : z \in Nat /\ z < y
        <5>1. ASSUME NEW k \in 1 .. j - 1 PROVE d[k] \in Nat /\ d[k] < y
          <6>1. k \in 1 .. Len(d) /\ k < j
            BY <1>1, <4>1
          <6>2. d[k] < d[j]
            BY <4>1, <6>1 DEF Rising
          <6> QED BY <1>1, <4>2, <6>1, <6>2
        <5> QED BY <5>1 DEF Upto
      <4>6. CASE x = y
        <5>1. EnterRound(e, d, f, <<i, j, last>>) = f[<<i - 1, j, x>>]
          BY <1>3, <2>2, <2>9, <3>6, <4>2, <4>6 DEF EnterRound
        <5>2. Merged(e, d, i - 1, j, x, f[<<i - 1, j, x>>])
          BY <1>1, <3>3
        <5>3. (Upto(e, i - 1) \ {x}) \cup Upto(d, j) = Upto(e, i) \cup Upto(d, j)
          BY <2>4, <4>4, <4>6
        <5> QED BY <3>2, <5>1, <5>2, <5>3 DEF Merged
      <4>7. CASE x # y /\ x > y
        <5>1. EnterRound(e, d, f, <<i, j, last>>) = Append(f[<<i - 1, j, x>>], x)
          BY <1>3, <2>2, <2>9, <3>6, <4>2, <4>7 DEF EnterRound
        <5>2. PICK u : u = f[<<i - 1, j, x>>] /\ Merged(e, d, i - 1, j, x, u)
          BY <1>1, <3>3
        <5>3. \A z \in Upto(d, j) : z < x
          <6>1. ASSUME NEW z \in Upto(d, j) PROVE z < x
            <7>1. z = y \/ (z \in Nat /\ z < y)
              BY <4>4, <4>5
            <7> QED BY <2>3, <4>3, <4>7, <7>1
          <6> QED BY <6>1
        <5>4. u \in Handles /\ Rising(u) /\ Elements(u) = (Upto(e, i - 1) \ {x}) \cup Upto(d, j)
          BY <5>2 DEF Merged
        <5>5. \A z \in Elements(u) : z < x
          BY <3>4, <5>3, <5>4
        <5>6. /\ Append(u, x) \in Handles /\ Rising(Append(u, x))
              /\ Elements(Append(u, x)) = Elements(u) \cup {x}
          BY <1>1, <5>4, <5>5, AppendRises
        <5>7. Elements(u) \cup {x} = Upto(e, i) \cup Upto(d, j)
          BY <2>4, <5>4
        <5> QED BY <3>2, <5>1, <5>2, <5>6, <5>7 DEF Merged
      <4>8. CASE x # y /\ ~(x > y)
        <5>1. EnterRound(e, d, f, <<i, j, last>>) = Append(f[<<i, j - 1, 0>>], y)
          BY <1>3, <2>2, <2>9, <3>6, <4>2, <4>8 DEF EnterRound
        <5>2. i + (j - 1) < i + j
          BY <1>1, <2>1
        <5>3. PICK u : u = f[<<i, j - 1, 0>>] /\ Merged(e, d, i, j - 1, 0, u)
          BY <2>6, <4>1, <5>2
        <5>4. 0 \notin Upto(e, i)
          BY <1>1, <2>1 DEF Upto
        <5>5. u \in Handles /\ Rising(u) /\ Elements(u) = Upto(e, i) \cup Upto(d, j - 1)
          BY <5>3, <5>4 DEF Merged
        <5>6. \A z \in Elements(u) : z < y
          <6>1. ASSUME NEW z \in Elements(u) PROVE z < y
            <7>1. (z \in Nat /\ z <= x) \/ (z \in Nat /\ z < y)
              BY <2>5, <4>5, <5>5
            <7> QED BY <2>3, <4>3, <4>8, <7>1
          <6> QED BY <6>1
        <5>7. /\ Append(u, y) \in Handles /\ Rising(Append(u, y))
              /\ Elements(Append(u, y)) = Elements(u) \cup {y}
          BY <1>1, <5>5, <5>6, AppendRises
        <5>8. Elements(u) \cup {y} = Upto(e, i) \cup Upto(d, j)
          BY <4>4, <5>5
        <5> QED BY <3>2, <5>1, <5>3, <5>7, <5>8 DEF Merged
      <4> QED BY <4>6, <4>7, <4>8
    <3> QED BY <3>5, <3>6
  <2> QED BY <2>8, <2>9
<1> QED BY <1>2, <1>3

LEMMA TodoTriple ==
    ASSUME NEW e, NEW d, NEW r \in Todo(e, d)
    PROVE  \E i \in 0 .. Len(e), j \in 0 .. Len(d), last \in Member \cup {0} : r = <<i, j, last>>
<1>1. /\ r[1] \in 0 .. Len(e) /\ r[2] \in 0 .. Len(d) /\ r[3] \in Member \cup {0}
      /\ r = <<r[1], r[2], r[3]>>
  BY DEF Todo
<1> QED BY <1>1

(* A round looks only at what later rounds make.                           *)
LEMMA EnterRoundTyped ==
    ASSUME Member \subseteq Nat \ {0}, NEW e \in Handles, NEW d \in Handles, Rising(d),
           NEW r \in Todo(e, d), NEW f \in [Todo(e, d) -> Handles]
    PROVE  EnterRound(e, d, f, r) \in Handles
<1>1. Member \subseteq Nat
  OBVIOUS
<1>2. /\ Len(e) \in Nat /\ \A k \in 1 .. Len(e) : e[k] \in Member
      /\ Len(d) \in Nat /\ \A l \in 1 .. Len(d) : d[l] \in Member
  BY <1>1, HandleSequence
<1>3. PICK i \in 0 .. Len(e), j \in 0 .. Len(d), last \in Member \cup {0} : r = <<i, j, last>>
  BY TodoTriple
<1>4. CASE i = 0
  <2>1. j \in Nat /\ 1 \in Nat /\ 1 <= 1 /\ j <= Len(d)
    BY <1>2
  <2>2. SubSeq(d, 1, j) \in Handles
    BY <1>1, <2>1, PartRises
  <2> QED BY <1>3, <1>4, <2>2 DEF EnterRound
<1>5. CASE i # 0
  <2>1. i \in 1 .. Len(e) /\ i - 1 \in 0 .. Len(e) /\ e[i] \in Member
    BY <1>2, <1>5
  <2>2. <<i - 1, j, last>> \in Todo(e, d) /\ <<i - 1, j, e[i]>> \in Todo(e, d)
    BY <2>1 DEF Todo
  <2>3. \A u \in Handles, x \in Member : Append(u, x) \in Handles
    BY AppendProperties DEF Handles
  <2>4. CASE e[i] = last
    BY <1>3, <1>5, <2>2, <2>4 DEF EnterRound
  <2>5. CASE e[i] # last /\ j = 0
    BY <1>3, <1>5, <2>1, <2>2, <2>3, <2>5 DEF EnterRound
  <2>6. CASE e[i] # last /\ j # 0
    <3>1. j \in 1 .. Len(d) /\ j - 1 \in 0 .. Len(d) /\ d[j] \in Member
      BY <1>2, <2>6
    <3>2. <<i, j - 1, 0>> \in Todo(e, d)
      BY <3>1 DEF Todo
    <3>3. CASE e[i] = d[j]
      BY <1>3, <1>5, <2>2, <2>6, <3>3 DEF EnterRound
    <3>4. CASE e[i] # d[j] /\ e[i] > d[j]
      BY <1>3, <1>5, <2>1, <2>2, <2>3, <2>6, <3>4 DEF EnterRound
    <3>5. CASE e[i] # d[j] /\ ~(e[i] > d[j])
      BY <1>3, <1>5, <2>3, <2>6, <3>1, <3>2, <3>5 DEF EnterRound
    <3> QED BY <3>3, <3>4, <3>5
  <2> QED BY <2>4, <2>5, <2>6
<1> QED BY <1>4, <1>5

LEMMA EnterRoundLocal ==
    ASSUME Member \subseteq Nat \ {0}, NEW e \in Handles, NEW d \in Handles,
           NEW r \in Todo(e, d), NEW f, NEW f1,
           \A q \in Todo(e, d) : q[1] + q[2] < r[1] + r[2] => f[q] = f1[q]
    PROVE  EnterRound(e, d, f, r) = EnterRound(e, d, f1, r)
<1>1. Member \subseteq Nat
  OBVIOUS
<1>2. /\ Len(e) \in Nat /\ \A k \in 1 .. Len(e) : e[k] \in Member
      /\ Len(d) \in Nat /\ \A l \in 1 .. Len(d) : d[l] \in Member
  BY <1>1, HandleSequence
<1>3. PICK i \in 0 .. Len(e), j \in 0 .. Len(d), last \in Member \cup {0} : r = <<i, j, last>>
  BY TodoTriple
<1>4. \A k \in 0 .. Len(e), l \in 0 .. Len(d), x \in Member \cup {0} :
         k + l < i + j => f[<<k, l, x>>] = f1[<<k, l, x>>]
  <2>1. TAKE k \in 0 .. Len(e), l \in 0 .. Len(d), x \in Member \cup {0}
  <2>2. <<k, l, x>> \in Todo(e, d)
    BY DEF Todo
  <2> QED BY <1>3, <2>2
<1>5. CASE i = 0
  BY <1>3, <1>5 DEF EnterRound
<1>6. CASE i # 0
  <2>1. i \in 1 .. Len(e) /\ i - 1 \in 0 .. Len(e) /\ e[i] \in Member
    BY <1>2, <1>6
  <2>2. i - 1 + j < i + j
    BY <1>2, <2>1
  <2>3. f[<<i - 1, j, last>>] = f1[<<i - 1, j, last>>] /\ f[<<i - 1, j, e[i]>>] = f1[<<i - 1, j, e[i]>>]
    BY <1>4, <2>1, <2>2
  <2>4. CASE e[i] = last
    BY <1>3, <1>6, <2>3, <2>4 DEF EnterRound
  <2>5. CASE e[i] # last /\ j = 0
    BY <1>3, <1>6, <2>3, <2>5 DEF EnterRound
  <2>6. CASE e[i] # last /\ j # 0
    <3>1. j - 1 \in 0 .. Len(d) /\ i + (j - 1) < i + j
      BY <1>2, <2>6
    <3>2. f[<<i, j - 1, 0>>] = f1[<<i, j - 1, 0>>]
      BY <1>4, <3>1
    <3> QED BY <1>3, <1>6, <2>3, <2>6, <3>2 DEF EnterRound
  <2> QED BY <2>4, <2>5, <2>6
<1> QED BY <1>5, <1>6

LEMMA EnterValue ==
    ASSUME Member \subseteq Nat \ {0}, NEW e \in Handles, NEW d \in Handles, Rising(d)
    PROVE  \E f : f = [r \in Todo(e, d) |-> EnterRound(e, d, f, r)]
<1> DEFINE D == Todo(e, d)
           F == [D -> Handles]
           step == [r \in D |-> [f \in F |-> EnterRound(e, d, f, r)]]
           rank == [r \in D |-> r[1] + r[2]]
<1>1. Len(e) \in Nat /\ Len(d) \in Nat
  <2>1. Member \subseteq Nat
    OBVIOUS
  <2> QED BY <2>1, HandleSequence
<1>2. \A r \in D : r[1] + r[2] \in Nat /\ r[1] + r[2] < Len(e) + Len(d) + 1
  BY <1>1 DEF Todo
<1>3. rank \in [D -> Nat] /\ \A r \in D : rank[r] = r[1] + r[2]
  BY <1>2
<1>4. \A r \in D, f \in F : EnterRound(e, d, f, r) \in Handles
  BY EnterRoundTyped
<1>5. step \in [D -> [F -> Handles]]
  BY <1>4
<1>6. \A r \in D, f \in F : step[r][f] = EnterRound(e, d, f, r)
  OBVIOUS
<1> HIDE DEF step, rank
<1>7. Founded(D, Handles, rank, step)
  <2>1. SUFFICES ASSUME NEW r \in D, NEW f \in F, NEW f1 \in F,
                        \A q \in Below(D, rank, r) : f[q] = f1[q]
                 PROVE  step[r][f] = step[r][f1]
    BY DEF Founded
  <2>2. \A q \in D : q[1] + q[2] < r[1] + r[2] => f[q] = f1[q]
    BY <1>3, <2>1 DEF Below
  <2>3. EnterRound(e, d, f, r) = EnterRound(e, d, f1, r)
    BY <2>2, EnterRoundLocal
  <2> QED BY <1>6, <2>3
<1>8. <<>> \in Handles
  BY DEF Handles
<1>9. PICK f \in Recursive(D, Handles, step) : TRUE
  <2>1. Len(e) + Len(d) + 1 \in Nat /\ \A r \in D : rank[r] < Len(e) + Len(d) + 1
    BY <1>1, <1>2, <1>3
  <2>2. step \in [D -> [[D -> Handles] -> Handles]]
    BY <1>5
  <2> HIDE DEF D
  <2>3. Recursive(D, Handles, step) # {}
    BY <1>3, <1>7, <1>8, <2>1, <2>2, RecursionByRank
  <2> QED BY <2>3
<1>10. f \in F /\ \A r \in D : f[r] = EnterRound(e, d, f, r)
  BY <1>6, <1>9 DEF Recursive
<1>11. f = [r \in D |-> EnterRound(e, d, f, r)]
  BY <1>10
<1> QED BY <1>11

LEMMA EnterCombines ==
    ASSUME Member \subseteq Nat \ {0}, NEW e \in Handles, NEW d \in Handles,
           NotFalling(e), Rising(d)
    PROVE  /\ CombineEnter(e, d) \in Handles /\ Rising(CombineEnter(e, d))
           /\ Elements(CombineEnter(e, d)) = Elements(e) \cup Elements(d)
<1> DEFINE D == Todo(e, d)
<1>1. Len(e) \in Nat /\ Len(d) \in Nat
  <2>1. Member \subseteq Nat
    OBVIOUS
  <2> QED BY <2>1, HandleSequence
<1>2. PICK f : /\ f = [r \in D |-> EnterRound(e, d, f, r)]
               /\ CombineEnter(e, d) = f[<<Len(e), Len(d), 0>>]
  <2> DEFINE K == CHOOSE f : f = [r \in D |-> EnterRound(e, d, f, r)]
  <2>1. \E f : f = [r \in D |-> EnterRound(e, d, f, r)]
    BY EnterValue
  <2>2. K = [r \in D |-> EnterRound(e, d, K, r)]
    BY <2>1
  <2>3. CombineEnter(e, d) = K[<<Len(e), Len(d), 0>>]
    BY DEF CombineEnter, EnterRound, Todo
  <2> HIDE DEF K
  <2> QED BY <2>2, <2>3
<1>3. \A k \in 0 .. Len(e), l \in 0 .. Len(d), x \in Member \cup {0} :
         f[<<k, l, x>>] = EnterRound(e, d, f, <<k, l, x>>)
  <2>1. TAKE k \in 0 .. Len(e), l \in 0 .. Len(d), x \in Member \cup {0}
  <2>2. <<k, l, x>> \in D
    BY DEF Todo
  <2> QED BY <1>2, <2>2
<1> DEFINE Right(n) == \A k \in 0 .. Len(e), l \in 0 .. Len(d), x \in Member \cup {0} :
                           k + l < n /\ Fits(e, k, x) => Merged(e, d, k, l, x, f[<<k, l, x>>])
           S == {n \in Nat : Right(n)}
<1>4. 0 \in S
  BY <1>1
<1>5. ASSUME NEW n \in S PROVE n + 1 \in S
  <2>1. n \in Nat /\ Right(n)
    OBVIOUS
  <2>2. ASSUME NEW i \in 0 .. Len(e), NEW j \in 0 .. Len(d), NEW last \in Member \cup {0},
               i + j < n + 1, Fits(e, i, last)
        PROVE  Merged(e, d, i, j, last, f[<<i, j, last>>])
    <3>1. \A k \in 0 .. Len(e), l \in 0 .. Len(d), x \in Member \cup {0} :
             k + l < i + j /\ Fits(e, k, x) => Merged(e, d, k, l, x, f[<<k, l, x>>])
      <4>1. TAKE k \in 0 .. Len(e), l \in 0 .. Len(d), x \in Member \cup {0}
      <4>2. k + l < i + j => k + l < n
        BY <1>1, <2>1, <2>2
      <4> QED BY <2>1, <4>2
    <3>2. Merged(e, d, i, j, last, EnterRound(e, d, f, <<i, j, last>>))
      BY <2>2, <3>1, EnterRoundMerges
    <3>3. f[<<i, j, last>>] = EnterRound(e, d, f, <<i, j, last>>)
      BY <1>3
    <3> QED BY <3>2, <3>3
  <2>3. Right(n + 1)
    BY <2>2
  <2> HIDE DEF Right
  <2> QED BY <2>1, <2>3
<1>6. S = Nat
  <2>1. S \in SUBSET Nat
    OBVIOUS
  <2> HIDE DEF S
  <2> QED BY <1>4, <1>5, <2>1, EveryNumber
<1>7. Right(Len(e) + Len(d) + 1)
  <2>1. Len(e) + Len(d) + 1 \in S
    <3> HIDE DEF S
    <3> QED BY <1>1, <1>6
  <2> HIDE DEF Right
  <2> QED BY <2>1
<1>8. Merged(e, d, Len(e), Len(d), 0, f[<<Len(e), Len(d), 0>>])
  <2>1. Fits(e, Len(e), 0)
    BY DEF Fits
  <2>2. /\ Len(e) \in 0 .. Len(e) /\ Len(d) \in 0 .. Len(d)
        /\ Len(e) + Len(d) < Len(e) + Len(d) + 1
    BY <1>1
  <2> QED BY <1>7, <2>1, <2>2
<1>9. 0 \notin Upto(e, Len(e))
  <2>1. Member \subseteq Nat /\ 0 \notin Member
    OBVIOUS
  <2>2. \A k \in 1 .. Len(e) : e[k] \in Member
    BY <2>1, HandleSequence
  <2> QED BY <2>1, <2>2 DEF Upto
<1>10. Upto(e, Len(e)) = Elements(e) /\ Upto(d, Len(d)) = Elements(d)
  BY DEF Upto, Elements
<1> QED BY <1>2, <1>8, <1>9, <1>10 DEF Merged

(* The entries still to do, in the loop that takes out the leave queue.    *)
LeaveTodo(l, d) == (1 .. Len(l) + 1) \X (1 .. Len(d) + 1)

LeaveRound(l, d, f, r) ==
    LET i == r[1]
        k == r[2]
    IN  IF i > Len(l) THEN SubSeq(d, k, Len(d))
        ELSE IF k > Len(d) THEN <<>>
        ELSE IF l[i] = d[k] THEN f[<<i + 1, k + 1>>]
        ELSE IF l[i] > d[k] THEN <<d[k]>> \o f[<<i, k + 1>>]
        ELSE f[<<i + 1, k>>]

Reduced(l, d, i, k, v) ==
    v \in Handles /\ Rising(v) /\ Elements(v) = From(d, k) \ From(l, i)

LEMMA LeaveRoundReduces ==
    ASSUME Member \subseteq Nat, NEW l \in Handles, NEW d \in Handles,
           NotFalling(l), Rising(d),
           NEW i \in 1 .. Len(l) + 1, NEW k \in 1 .. Len(d) + 1, NEW f,
           \A a \in 1 .. Len(l) + 1, b \in 1 .. Len(d) + 1 :
               a + b > i + k => Reduced(l, d, a, b, f[<<a, b>>])
    PROVE  Reduced(l, d, i, k, LeaveRound(l, d, f, <<i, k>>))
<1>1. /\ Len(l) \in Nat /\ \A a \in 1 .. Len(l) : l[a] \in Member /\ l[a] \in Nat
      /\ Len(d) \in Nat /\ \A b \in 1 .. Len(d) : d[b] \in Member /\ d[b] \in Nat
  BY HandleSequence
<1>2. CASE i > Len(l)
  <2>1. LeaveRound(l, d, f, <<i, k>>) = SubSeq(d, k, Len(d))
    BY <1>2 DEF LeaveRound
  <2>2. /\ SubSeq(d, k, Len(d)) \in Handles /\ Rising(SubSeq(d, k, Len(d)))
        /\ Elements(SubSeq(d, k, Len(d))) = From(d, k)
    <3>1. k \in Nat /\ 1 <= k /\ Len(d) <= Len(d)
      BY <1>1
    <3> QED BY <1>1, <3>1, PartRises DEF From
  <2>3. From(l, i) = {}
    BY <1>1, <1>2 DEF From
  <2> QED BY <2>1, <2>2, <2>3 DEF Reduced
<1>3. CASE ~(i > Len(l)) /\ k > Len(d)
  <2>1. LeaveRound(l, d, f, <<i, k>>) = <<>>
    BY <1>3 DEF LeaveRound
  <2>2. <<>> \in Handles /\ Rising(<<>>) /\ Elements(<<>>) = {}
    BY DEF Handles, Rising, Elements
  <2>3. From(d, k) = {}
    BY <1>1, <1>3 DEF From
  <2> QED BY <2>1, <2>2, <2>3 DEF Reduced
<1>4. CASE ~(i > Len(l)) /\ ~(k > Len(d))
  <2>1. i \in 1 .. Len(l) /\ k \in 1 .. Len(d) /\ i + 1 \in 1 .. Len(l) + 1 /\ k + 1 \in 1 .. Len(d) + 1
    BY <1>1, <1>4
  <2>2. PICK x \in Member, y \in Member : x = l[i] /\ y = d[k]
    BY <1>1, <2>1
  <2>3. x \in Nat /\ y \in Nat
    OBVIOUS
  <2>4. From(l, i) = {x} \cup From(l, i + 1)
    <3>1. \A a \in i .. Len(l) : a = i \/ a \in i + 1 .. Len(l)
      BY <1>1, <2>1
    <3>2. \A a \in i + 1 .. Len(l) : a \in i .. Len(l)
      BY <1>1, <2>1
    <3>3. i \in i .. Len(l)
      BY <1>1, <2>1
    <3> QED BY <2>2, <3>1, <3>2, <3>3 DEF From
  <2>5. From(d, k) = {y} \cup From(d, k + 1)
    <3>1. \A a \in k .. Len(d) : a = k \/ a \in k + 1 .. Len(d)
      BY <1>1, <2>1
    <3>2. \A a \in k + 1 .. Len(d) : a \in k .. Len(d)
      BY <1>1, <2>1
    <3>3. k \in k .. Len(d)
      BY <1>1, <2>1
    <3> QED BY <2>2, <3>1, <3>2, <3>3 DEF From
  <2>6. \A z \in From(l, i) : z \in Nat /\ x <= z
    <3>1. ASSUME NEW a \in i .. Len(l) PROVE l[a] \in Nat /\ x <= l[a]
      <4>1. a \in 1 .. Len(l) /\ (a = i \/ i < a)
        BY <1>1, <2>1
      <4>2. i < a => l[i] <= l[a]
        BY <2>1, <4>1 DEF NotFalling
      <4> QED BY <1>1, <2>2, <2>3, <4>1, <4>2
    <3> QED BY <3>1 DEF From
  <2>7. \A z \in From(d, k + 1) : z \in Nat /\ y < z
    <3>1. ASSUME NEW a \in k + 1 .. Len(d) PROVE d[a] \in Nat /\ y < d[a]
      <4>1. a \in 1 .. Len(d) /\ k < a
        BY <1>1, <2>1
      <4>2. d[k] < d[a]
        BY <2>1, <4>1 DEF Rising
      <4> QED BY <1>1, <2>2, <4>1, <4>2
    <3> QED BY <3>1 DEF From
  <2>8. CASE x = y
    <3>1. LeaveRound(l, d, f, <<i, k>>) = f[<<i + 1, k + 1>>]
      BY <1>4, <2>2, <2>8 DEF LeaveRound
    <3>2. i + 1 + (k + 1) > i + k
      BY <1>1, <2>1
    <3>3. Reduced(l, d, i + 1, k + 1, f[<<i + 1, k + 1>>])
      BY <2>1, <3>2
    <3>4. x \notin From(d, k + 1)
      BY <2>3, <2>7, <2>8
    <3>5. From(d, k) \ From(l, i) = From(d, k + 1) \ From(l, i + 1)
      BY <2>4, <2>5, <2>8, <3>4
    <3> QED BY <3>1, <3>3, <3>5 DEF Reduced
  <2>9. CASE x # y /\ x > y
    <3>1. LeaveRound(l, d, f, <<i, k>>) = <<y>> \o f[<<i, k + 1>>]
      BY <1>4, <2>2, <2>9 DEF LeaveRound
    <3>2. i + (k + 1) > i + k
      BY <1>1, <2>1
    <3>3. PICK u : u = f[<<i, k + 1>>] /\ Reduced(l, d, i, k + 1, u)
      BY <2>1, <3>2
    <3>4. u \in Handles /\ Rising(u) /\ Elements(u) = From(d, k + 1) \ From(l, i)
      BY <3>3 DEF Reduced
    <3>5. \A z \in Elements(u) : y < z
      BY <2>7, <3>4
    <3>6. /\ <<y>> \o u \in Handles /\ Rising(<<y>> \o u)
          /\ Elements(<<y>> \o u) = {y} \cup Elements(u)
      BY <3>4, <3>5, PrependRises
    <3>7. y \notin From(l, i)
      BY <2>3, <2>6, <2>9
    <3>8. {y} \cup Elements(u) = From(d, k) \ From(l, i)
      BY <2>5, <3>4, <3>7
    <3> QED BY <3>1, <3>3, <3>6, <3>8 DEF Reduced
  <2>10. CASE x # y /\ ~(x > y)
    <3>1. LeaveRound(l, d, f, <<i, k>>) = f[<<i + 1, k>>]
      BY <1>4, <2>2, <2>10 DEF LeaveRound
    <3>2. i + 1 + k > i + k
      BY <1>1, <2>1
    <3>3. Reduced(l, d, i + 1, k, f[<<i + 1, k>>])
      BY <2>1, <3>2
    <3>4. x \notin From(d, k)
      BY <2>3, <2>5, <2>7, <2>10
    <3>5. From(d, k) \ From(l, i) = From(d, k) \ From(l, i + 1)
      BY <2>4, <3>4
    <3> QED BY <3>1, <3>3, <3>5 DEF Reduced
  <2> QED BY <2>8, <2>9, <2>10
<1> QED BY <1>2, <1>3, <1>4

LEMMA LeaveRoundTyped ==
    ASSUME Member \subseteq Nat, NEW l \in Handles, NEW d \in Handles, Rising(d),
           NEW r \in LeaveTodo(l, d), NEW f \in [LeaveTodo(l, d) -> Handles]
    PROVE  LeaveRound(l, d, f, r) \in Handles
<1>1. /\ Len(l) \in Nat /\ Len(d) \in Nat /\ \A b \in 1 .. Len(d) : d[b] \in Member
  BY HandleSequence
<1>2. PICK i \in 1 .. Len(l) + 1, k \in 1 .. Len(d) + 1 : r = <<i, k>>
  BY DEF LeaveTodo
<1>3. CASE i > Len(l)
  <2>1. k \in Nat /\ 1 <= k /\ Len(d) <= Len(d)
    BY <1>1
  <2>2. SubSeq(d, k, Len(d)) \in Handles
    BY <1>1, <2>1, PartRises
  <2> QED BY <1>2, <1>3, <2>2 DEF LeaveRound
<1>4. CASE ~(i > Len(l)) /\ k > Len(d)
  BY <1>2, <1>4 DEF LeaveRound, Handles
<1>5. CASE ~(i > Len(l)) /\ ~(k > Len(d))
  <2>1. /\ k \in 1 .. Len(d) /\ i + 1 \in 1 .. Len(l) + 1 /\ k + 1 \in 1 .. Len(d) + 1
        /\ d[k] \in Member
    BY <1>1, <1>5
  <2>2. /\ <<i + 1, k + 1>> \in LeaveTodo(l, d) /\ <<i, k + 1>> \in LeaveTodo(l, d)
        /\ <<i + 1, k>> \in LeaveTodo(l, d)
    BY <2>1 DEF LeaveTodo
  <2>3. \A u \in Handles, y \in Member : <<y>> \o u \in Handles
    <3>1. TAKE u \in Handles, y \in Member
    <3>2. <<y>> \in Seq(Member)
      OBVIOUS
    <3> QED BY <3>2, ConcatProperties DEF Handles
  <2>4. CASE l[i] = d[k]
    BY <1>2, <1>5, <2>2, <2>4 DEF LeaveRound
  <2>5. CASE l[i] # d[k] /\ l[i] > d[k]
    BY <1>2, <1>5, <2>1, <2>2, <2>3, <2>5 DEF LeaveRound
  <2>6. CASE l[i] # d[k] /\ ~(l[i] > d[k])
    BY <1>2, <1>5, <2>2, <2>6 DEF LeaveRound
  <2> QED BY <2>4, <2>5, <2>6
<1> QED BY <1>3, <1>4, <1>5

LEMMA LeaveRoundLocal ==
    ASSUME Member \subseteq Nat, NEW l \in Handles, NEW d \in Handles,
           NEW r \in LeaveTodo(l, d), NEW f, NEW f1,
           \A q \in LeaveTodo(l, d) : q[1] + q[2] > r[1] + r[2] => f[q] = f1[q]
    PROVE  LeaveRound(l, d, f, r) = LeaveRound(l, d, f1, r)
<1>1. Len(l) \in Nat /\ Len(d) \in Nat
  BY HandleSequence
<1>2. PICK i \in 1 .. Len(l) + 1, k \in 1 .. Len(d) + 1 : r = <<i, k>>
  BY DEF LeaveTodo
<1>3. CASE i > Len(l) \/ k > Len(d)
  BY <1>2, <1>3 DEF LeaveRound
<1>4. CASE ~(i > Len(l)) /\ ~(k > Len(d))
  <2>1. i + 1 \in 1 .. Len(l) + 1 /\ k + 1 \in 1 .. Len(d) + 1
    BY <1>1, <1>4
  <2>2. /\ <<i + 1, k + 1>> \in LeaveTodo(l, d) /\ <<i, k + 1>> \in LeaveTodo(l, d)
        /\ <<i + 1, k>> \in LeaveTodo(l, d)
    BY <2>1 DEF LeaveTodo
  <2>3. i + 1 + (k + 1) > i + k /\ i + (k + 1) > i + k /\ i + 1 + k > i + k
    BY <1>1
  <2>4. /\ f[<<i + 1, k + 1>>] = f1[<<i + 1, k + 1>>] /\ f[<<i, k + 1>>] = f1[<<i, k + 1>>]
        /\ f[<<i + 1, k>>] = f1[<<i + 1, k>>]
    BY <1>2, <2>2, <2>3
  <2> QED BY <1>2, <1>4, <2>4 DEF LeaveRound
<1> QED BY <1>3, <1>4

LEMMA LeaveValue ==
    ASSUME Member \subseteq Nat, NEW l \in Handles, NEW d \in Handles, Rising(d)
    PROVE  \E f : f = [r \in LeaveTodo(l, d) |-> LeaveRound(l, d, f, r)]
<1> DEFINE D == LeaveTodo(l, d)
           F == [D -> Handles]
           N == Len(l) + Len(d) + 2
           step == [r \in D |-> [f \in F |-> LeaveRound(l, d, f, r)]]
           rank == [r \in D |-> N - (r[1] + r[2])]
<1>1. Len(l) \in Nat /\ Len(d) \in Nat
  BY HandleSequence
<1>2. \A r \in D : r[1] + r[2] \in Nat /\ r[1] + r[2] <= N /\ r[1] + r[2] >= 1
  BY <1>1 DEF LeaveTodo
<1>3. rank \in [D -> Nat] /\ \A r \in D : rank[r] = N - (r[1] + r[2])
  BY <1>1, <1>2
<1>4. \A r \in D, f \in F : LeaveRound(l, d, f, r) \in Handles
  BY LeaveRoundTyped
<1>5. step \in [D -> [F -> Handles]]
  BY <1>4
<1>6. \A r \in D, f \in F : step[r][f] = LeaveRound(l, d, f, r)
  OBVIOUS
<1> HIDE DEF step, rank
<1>7. Founded(D, Handles, rank, step)
  <2>1. SUFFICES ASSUME NEW r \in D, NEW f \in F, NEW f1 \in F,
                        \A q \in Below(D, rank, r) : f[q] = f1[q]
                 PROVE  step[r][f] = step[r][f1]
    BY DEF Founded
  <2>2. ASSUME NEW q \in D, q[1] + q[2] > r[1] + r[2] PROVE f[q] = f1[q]
    <3>1. rank[q] < rank[r]
      BY <1>1, <1>2, <1>3, <2>2
    <3> QED BY <2>1, <3>1 DEF Below
  <2>3. LeaveRound(l, d, f, r) = LeaveRound(l, d, f1, r)
    BY <2>2, LeaveRoundLocal
  <2> QED BY <1>6, <2>3
<1>8. <<>> \in Handles
  BY DEF Handles
<1>9. PICK f \in Recursive(D, Handles, step) : TRUE
  <2>1. N \in Nat /\ \A r \in D : rank[r] < N
    BY <1>1, <1>2, <1>3
  <2>2. step \in [D -> [[D -> Handles] -> Handles]]
    BY <1>5
  <2> HIDE DEF D, N
  <2>3. Recursive(D, Handles, step) # {}
    BY <1>3, <1>7, <1>8, <2>1, <2>2, RecursionByRank
  <2> QED BY <2>3
<1>10. f \in F /\ \A r \in D : f[r] = LeaveRound(l, d, f, r)
  BY <1>6, <1>9 DEF Recursive
<1>11. f = [r \in D |-> LeaveRound(l, d, f, r)]
  BY <1>10
<1> QED BY <1>11

LEMMA LeaveCombines ==
    ASSUME Member \subseteq Nat, NEW l \in Handles, NEW d \in Handles,
           NotFalling(l), Rising(d)
    PROVE  /\ CombineLeave(l, d) \in Handles /\ Rising(CombineLeave(l, d))
           /\ Elements(CombineLeave(l, d)) = Elements(d) \ Elements(l)
<1> DEFINE D == LeaveTodo(l, d)
           N == Len(l) + Len(d) + 2
<1>1. Len(l) \in Nat /\ Len(d) \in Nat /\ N \in Nat
  BY HandleSequence
<1>2. PICK f : f = [r \in D |-> LeaveRound(l, d, f, r)] /\ CombineLeave(l, d) = f[<<1, 1>>]
  <2> DEFINE K == CHOOSE f : f = [r \in D |-> LeaveRound(l, d, f, r)]
  <2>1. \E f : f = [r \in D |-> LeaveRound(l, d, f, r)]
    BY LeaveValue
  <2>2. K = [r \in D |-> LeaveRound(l, d, K, r)]
    BY <2>1
  <2>3. CombineLeave(l, d) = K[<<1, 1>>]
    BY DEF CombineLeave, LeaveRound, LeaveTodo
  <2> HIDE DEF K
  <2> QED BY <2>2, <2>3
<1>3. \A a \in 1 .. Len(l) + 1, b \in 1 .. Len(d) + 1 :
         f[<<a, b>>] = LeaveRound(l, d, f, <<a, b>>)
  <2>1. TAKE a \in 1 .. Len(l) + 1, b \in 1 .. Len(d) + 1
  <2>2. <<a, b>> \in D
    BY DEF LeaveTodo
  <2> QED BY <1>2, <2>2
<1> DEFINE Right(n) == \A a \in 1 .. Len(l) + 1, b \in 1 .. Len(d) + 1 :
                           a + b > N - n => Reduced(l, d, a, b, f[<<a, b>>])
           S == {n \in Nat : Right(n)}
<1>4. 0 \in S
  BY <1>1
<1>5. ASSUME NEW n \in S PROVE n + 1 \in S
  <2>1. n \in Nat /\ Right(n)
    OBVIOUS
  <2>2. ASSUME NEW i \in 1 .. Len(l) + 1, NEW k \in 1 .. Len(d) + 1, i + k > N - (n + 1)
        PROVE  Reduced(l, d, i, k, f[<<i, k>>])
    <3>1. \A a \in 1 .. Len(l) + 1, b \in 1 .. Len(d) + 1 :
             a + b > i + k => Reduced(l, d, a, b, f[<<a, b>>])
      <4>1. TAKE a \in 1 .. Len(l) + 1, b \in 1 .. Len(d) + 1
      <4>2. a + b > i + k => a + b > N - n
        BY <1>1, <2>1, <2>2
      <4> QED BY <2>1, <4>2
    <3>2. Reduced(l, d, i, k, LeaveRound(l, d, f, <<i, k>>))
      BY <3>1, LeaveRoundReduces
    <3>3. f[<<i, k>>] = LeaveRound(l, d, f, <<i, k>>)
      BY <1>3
    <3> QED BY <3>2, <3>3
  <2>3. Right(n + 1)
    BY <2>2
  <2> HIDE DEF Right
  <2> QED BY <2>1, <2>3
<1>6. S = Nat
  <2>1. S \in SUBSET Nat
    OBVIOUS
  <2> HIDE DEF S
  <2> QED BY <1>4, <1>5, <2>1, EveryNumber
<1>7. Right(N)
  <2>1. N \in S
    <3> HIDE DEF S, N
    <3> QED BY <1>1, <1>6
  <2> HIDE DEF Right
  <2> QED BY <2>1
<1>8. Reduced(l, d, 1, 1, f[<<1, 1>>])
  <2>1. 1 \in 1 .. Len(l) + 1 /\ 1 \in 1 .. Len(d) + 1 /\ 1 + 1 > N - N
    BY <1>1
  <2> QED BY <1>7, <2>1
<1>9. From(l, 1) = Elements(l) /\ From(d, 1) = Elements(d)
  BY DEF From, Elements
<1> QED BY <1>2, <1>8, <1>9 DEF Reduced

-----------------------------------------------------------------------------
(* The copies of a message and its count.                                  *)

(* Copies and CopiesDue of other states.                                   *)
CopiesOf(b, m) ==
    UNION {{<<h, i>> : i \in {j \in 1 .. Len(b[h]) : b[h][j] = m}} : h \in Member}

DueOf(k, m) ==
    IF \E c \in Caster : k[c].m = m
    THEN LET c == CHOOSE c \in Caster : k[c].m = m IN Len(k[c].todo) + k[c].release
    ELSE 0

Boxes == [Member -> Seq(CastMessage)]

LEMMA CopyIs ==
    ASSUME NEW b, NEW m, NEW x \in CopiesOf(b, m)
    PROVE  \E h \in Member : \E i \in 1 .. Len(b[h]) : b[h][i] = m /\ x = <<h, i>>
  BY DEF CopiesOf

LEMMA CopyThere ==
    ASSUME NEW b, NEW m, NEW h \in Member, NEW i \in 1 .. Len(b[h]), b[h][i] = m
    PROVE  <<h, i>> \in CopiesOf(b, m)
  BY DEF CopiesOf

LEMMA ImageFinite ==
    ASSUME NEW S, IsFiniteSet(S), NEW f
    PROVE  IsFiniteSet({f[x] : x \in S})
<1> DEFINE T == {f[x] : x \in S}
           f1 == [x \in S |-> f[x]]
<1>1. f1 \in Surjection(S, T)
  BY DEF Surjection
<1> HIDE DEF T, f1
<1>2. IsFiniteSet(T)
  BY <1>1, FS_Surjection DEF ExistsSurjection
<1> QED BY <1>2 DEF T

LEMMA BoxTyped ==
    ASSUME NEW b \in Boxes, NEW h \in Member
    PROVE  Len(b[h]) \in Nat /\ b[h] \in Seq(CastMessage)
  BY LenProperties DEF Boxes

LEMMA CopiesFinite ==
    ASSUME IsFiniteSet(Member), NEW b \in Boxes, NEW m
    PROVE  IsFiniteSet(CopiesOf(b, m)) /\ Cardinality(CopiesOf(b, m)) \in Nat
<1> DEFINE In(h) == {<<h, i>> : i \in {j \in 1 .. Len(b[h]) : b[h][j] = m}}
           All == {In(h) : h \in Member}
<1>1. ASSUME NEW h \in Member PROVE IsFiniteSet(In(h))
  <2> DEFINE J == {j \in 1 .. Len(b[h]) : b[h][j] = m}
  <2>1. IsFiniteSet(1 .. Len(b[h]))
    BY BoxTyped, FS_Interval
  <2>2. IsFiniteSet(J)
    BY <2>1, FS_Subset
  <2> HIDE DEF J
  <2> DEFINE at == [i \in J |-> <<h, i>>]
  <2>3. IsFiniteSet({at[i] : i \in J})
    <3> HIDE DEF at
    <3> QED BY <2>2, ImageFinite
  <2>4. {at[i] : i \in J} = {<<h, i>> : i \in J}
    OBVIOUS
  <2> QED BY <2>3, <2>4 DEF J
<1> HIDE DEF In
<1>2. IsFiniteSet(All)
  <2> DEFINE in == [h \in Member |-> In(h)]
  <2>1. IsFiniteSet({in[h] : h \in Member})
    <3> HIDE DEF in
    <3> QED BY ImageFinite
  <2>2. {in[h] : h \in Member} = All
    OBVIOUS
  <2> QED BY <2>1, <2>2
<1>3. \A T \in All : IsFiniteSet(T)
  BY <1>1
<1>4. IsFiniteSet(UNION All)
  <2> HIDE DEF All
  <2> QED BY <1>2, <1>3, FS_UNION
<1>5. CopiesOf(b, m) = UNION All
  BY DEF CopiesOf, In
<1> QED BY <1>4, <1>5, FS_CardinalityType

(* A message is put into a mailbox.                                        *)
LEMMA CopyAdded ==
    ASSUME IsFiniteSet(Member), NEW b \in Boxes, NEW h \in Member, NEW m \in CastMessage,
           NEW a \in Boxes, a[h] = Append(b[h], m), \A k \in Member : k # h => a[k] = b[k]
    PROVE  /\ Cardinality(CopiesOf(a, m)) = Cardinality(CopiesOf(b, m)) + 1
           /\ \A x : x # m => CopiesOf(a, x) = CopiesOf(b, x)
<1>1. PICK n \in Nat : n = Len(b[h]) /\ b[h] \in Seq(CastMessage)
  BY BoxTyped
<1>2. a[h] = Append(b[h], m) /\ \A k \in Member : k # h => a[k] = b[k]
  OBVIOUS
<1>3. /\ a[h] \in Seq(CastMessage) /\ Len(a[h]) = n + 1 /\ a[h][n + 1] = m
      /\ \A i \in 1 .. n : a[h][i] = b[h][i]
  BY <1>1, <1>2, AppendProperties
<1>5. ASSUME NEW x, NEW y
      PROVE  y \in CopiesOf(a, x) <=> y \in CopiesOf(b, x) \/ (x = m /\ y = <<h, n + 1>>)
  <2>1. ASSUME y \in CopiesOf(a, x)
        PROVE  y \in CopiesOf(b, x) \/ (x = m /\ y = <<h, n + 1>>)
    <3>1a. PICK k \in Member : \E i \in 1 .. Len(a[k]) : a[k][i] = x /\ y = <<k, i>>
      BY <2>1, CopyIs
    <3>1. PICK i \in 1 .. Len(a[k]) : a[k][i] = x /\ y = <<k, i>>
      BY <3>1a
    <3>2. CASE k # h
      BY <1>2, <3>1, <3>2, CopyThere
    <3>3. CASE k = h
      <4>1. i = n + 1 \/ i \in 1 .. n
        BY <1>3, <3>1, <3>3
      <4>2. CASE i = n + 1
        BY <1>3, <3>1, <3>3, <4>2
      <4>3. CASE i \in 1 .. n
        <5>1. i \in 1 .. Len(b[k]) /\ b[k][i] = x
          BY <1>1, <1>3, <3>1, <3>3, <4>3
        <5> QED BY <3>1, <5>1, CopyThere
      <4> QED BY <4>1, <4>2, <4>3
    <3> QED BY <3>2, <3>3
  <2>2. ASSUME y \in CopiesOf(b, x) PROVE y \in CopiesOf(a, x)
    <3>1a. PICK k \in Member : \E i \in 1 .. Len(b[k]) : b[k][i] = x /\ y = <<k, i>>
      BY <2>2, CopyIs
    <3>1. PICK i \in 1 .. Len(b[k]) : b[k][i] = x /\ y = <<k, i>>
      BY <3>1a
    <3>2. i \in 1 .. Len(a[k]) /\ a[k][i] = x
      <4>1. CASE k # h
        BY <1>2, <3>1, <4>1
      <4>2. CASE k = h
        <5>1. b[k] = b[h] /\ a[k] = a[h]
          BY <4>2
        <5>2. i \in 1 .. n /\ b[h][i] = x
          BY <1>1, <3>1, <5>1
        <5>3. a[h][i] = x /\ i \in 1 .. Len(a[h])
          BY <1>3, <5>2
        <5> QED BY <5>1, <5>3
      <4> QED BY <4>1, <4>2
    <3> QED BY <3>1, <3>2, CopyThere
  <2>3. ASSUME x = m, y = <<h, n + 1>> PROVE y \in CopiesOf(a, x)
    <3>1. n + 1 \in 1 .. Len(a[h])
      BY <1>3
    <3> QED BY <1>3, <2>3, <3>1, CopyThere
  <2> QED BY <2>1, <2>2, <2>3
<1>6. <<h, n + 1>> \notin CopiesOf(b, m)
  <2>1. SUFFICES ASSUME <<h, n + 1>> \in CopiesOf(b, m) PROVE FALSE
    OBVIOUS
  <2>2a. PICK k \in Member : \E i \in 1 .. Len(b[k]) : <<h, n + 1>> = <<k, i>>
    BY <2>1, CopyIs
  <2>2. PICK i \in 1 .. Len(b[k]) : <<h, n + 1>> = <<k, i>>
    BY <2>2a
  <2> QED BY <1>1, <2>2
<1>7. CopiesOf(a, m) = CopiesOf(b, m) \cup {<<h, n + 1>>}
  BY <1>5
<1>8. ASSUME NEW x, x # m PROVE CopiesOf(a, x) = CopiesOf(b, x)
  <2>1. \A y : y \in CopiesOf(a, x) <=> y \in CopiesOf(b, x)
    BY <1>5, <1>8
  <2> QED BY <2>1
<1>9. Cardinality(CopiesOf(a, m)) = Cardinality(CopiesOf(b, m)) + 1
  BY <1>6, <1>7, CopiesFinite, FS_AddElement
<1> QED BY <1>8, <1>9

(* The first message of a mailbox is taken out.                            *)
LEMMA CopyTaken ==
    ASSUME IsFiniteSet(Member), NEW b \in Boxes, NEW h \in Member, b[h] # <<>>,
           NEW a \in Boxes, a[h] = Tail(b[h]), \A k \in Member : k # h => a[k] = b[k]
    PROVE  /\ Head(b[h]) \in CastMessage
           /\ Cardinality(CopiesOf(b, Head(b[h]))) = Cardinality(CopiesOf(a, Head(b[h]))) + 1
           /\ \A x : x # Head(b[h]) => Cardinality(CopiesOf(a, x)) = Cardinality(CopiesOf(b, x))
<1>1. PICK n \in Nat : n = Len(b[h]) /\ b[h] \in Seq(CastMessage)
  BY BoxTyped
<1>2. a[h] = Tail(b[h]) /\ \A k \in Member : k # h => a[k] = b[k]
  OBVIOUS
<1>3. PICK m : m = Head(b[h])
  OBVIOUS
<1>4. /\ n > 0 /\ a[h] \in Seq(CastMessage) /\ Len(a[h]) = n - 1
      /\ b[h][1] = m /\ m \in CastMessage
      /\ \A i \in 1 .. n - 1 : a[h][i] = b[h][i + 1]
  BY <1>1, <1>2, <1>3, HeadTailProperties, EmptySeq
<1>5. a \in Boxes
  OBVIOUS
<1>6. <<h, 1>> \in CopiesOf(b, m)
  <2>1. 1 \in 1 .. Len(b[h])
    BY <1>1, <1>4
  <2> QED BY <1>4, <2>1, CopyThere
<1>7. \A x : x # m => <<h, 1>> \notin CopiesOf(b, x)
  <2>1. SUFFICES ASSUME NEW x, <<h, 1>> \in CopiesOf(b, x) PROVE x = m
    OBVIOUS
  <2>2a. PICK k \in Member : \E i \in 1 .. Len(b[k]) : b[k][i] = x /\ <<h, 1>> = <<k, i>>
    BY <2>1, CopyIs
  <2>2. PICK i \in 1 .. Len(b[k]) : b[k][i] = x /\ <<h, 1>> = <<k, i>>
    BY <2>2a
  <2> QED BY <1>4, <2>2
<1>8. ASSUME NEW x
      PROVE  Cardinality(CopiesOf(a, x)) = Cardinality(CopiesOf(b, x) \ {<<h, 1>>})
  <2> DEFINE A == CopiesOf(a, x)
             B == CopiesOf(b, x) \ {<<h, 1>>}
             back == [y \in A |-> IF y[1] = h THEN <<h, y[2] + 1>> ELSE y]
  <2>1. \A y \in A : \E k \in Member : \E i \in 1 .. Len(a[k]) : a[k][i] = x /\ y = <<k, i>>
    BY CopyIs
  <2>2. ASSUME NEW y \in A PROVE back[y] \in B
    <3>1a. PICK k \in Member : \E i \in 1 .. Len(a[k]) : a[k][i] = x /\ y = <<k, i>>
      BY <2>1
    <3>1. PICK i \in 1 .. Len(a[k]) : a[k][i] = x /\ y = <<k, i>>
      BY <3>1a
    <3>2. CASE k = h
      <4>1. i \in 1 .. n - 1 /\ i + 1 \in 1 .. Len(b[h]) /\ b[h][i + 1] = x /\ i + 1 # 1
        <5>1. a[k] = a[h]
          BY <3>2
        <5>2. i \in 1 .. n - 1 /\ a[h][i] = x
          BY <1>4, <3>1, <5>1
        <5>3. b[h][i + 1] = x
          BY <1>4, <5>2
        <5> QED BY <1>1, <5>2, <5>3
      <4>2. back[y] = <<h, i + 1>>
        BY <3>1, <3>2
      <4>3. <<h, i + 1>> \in CopiesOf(b, x) /\ <<h, i + 1>> # <<h, 1>>
        BY <4>1, CopyThere
      <4> QED BY <4>2, <4>3
    <3>3. CASE k # h
      <4>1. back[y] = y /\ y # <<h, 1>>
        BY <3>1, <3>3
      <4>2. y \in CopiesOf(b, x)
        BY <1>2, <3>1, <3>3, CopyThere
      <4> QED BY <4>1, <4>2
    <3> QED BY <3>2, <3>3
  <2>3. ASSUME NEW y \in A, NEW z \in A, back[y] = back[z] PROVE y = z
    <3>1a. PICK k \in Member : \E i \in 1 .. Len(a[k]) : y = <<k, i>>
      BY <2>1
    <3>1. PICK i \in 1 .. Len(a[k]) : y = <<k, i>>
      BY <3>1a
    <3>2a. PICK o \in Member : \E j \in 1 .. Len(a[o]) : z = <<o, j>>
      BY <2>1
    <3>2. PICK j \in 1 .. Len(a[o]) : z = <<o, j>>
      BY <3>2a
    <3>3. back[y] = (IF k = h THEN <<h, i + 1>> ELSE <<k, i>>)
      BY <3>1
    <3>4. back[z] = (IF o = h THEN <<h, j + 1>> ELSE <<o, j>>)
      BY <3>2
    <3>5. i \in Int /\ j \in Int
      BY <1>5, BoxTyped
    <3>6. CASE k = h
      BY <2>3, <3>1, <3>2, <3>3, <3>4, <3>5, <3>6
    <3>7. CASE k # h
      BY <2>3, <3>1, <3>2, <3>3, <3>4, <3>5, <3>7
    <3> QED BY <3>6, <3>7
  <2>4. ASSUME NEW z \in B PROVE \E y \in A : back[y] = z
    <3>1a. PICK k \in Member : \E i \in 1 .. Len(b[k]) : b[k][i] = x /\ z = <<k, i>> /\ z # <<h, 1>>
      BY CopyIs
    <3>1. PICK i \in 1 .. Len(b[k]) : b[k][i] = x /\ z = <<k, i>> /\ z # <<h, 1>>
      BY <3>1a
    <3>2. CASE k = h
      <4>1. i # 1
        BY <3>1, <3>2
      <4>2. i - 1 \in 1 .. Len(a[h]) /\ i - 1 \in 1 .. n - 1 /\ (i - 1) + 1 = i
        BY <1>1, <1>4, <3>2, <4>1
      <4>3. a[h][i - 1] = x
        BY <1>4, <3>1, <3>2, <4>2
      <4>4. <<h, i - 1>> \in A
        BY <4>2, <4>3, CopyThere
      <4>5. back[<<h, i - 1>>] = <<h, (i - 1) + 1>>
        BY <4>4
      <4> QED BY <3>1, <3>2, <4>2, <4>4, <4>5
    <3>3. CASE k # h
      <4>1. z \in A
        BY <1>2, <3>1, <3>3, CopyThere
      <4>2. back[z] = z
        BY <3>1, <3>3, <4>1
      <4> QED BY <4>1, <4>2
    <3> QED BY <3>2, <3>3
  <2>5. back \in [A -> B]
    BY <2>2
  <2>6. IsFiniteSet(A)
    BY <1>5, CopiesFinite
  <2> HIDE DEF A, B, back
  <2>7. back \in Bijection(A, B)
    BY <2>3, <2>4, <2>5 DEF Bijection, Injection, Surjection, IsInjective
  <2>8. Cardinality(A) = Cardinality(B)
    BY <2>6, <2>7, FS_Bijection DEF ExistsBijection
  <2> QED BY <2>8 DEF A, B
<1>9. ASSUME NEW x, x # m PROVE Cardinality(CopiesOf(a, x)) = Cardinality(CopiesOf(b, x))
  <2>1. CopiesOf(b, x) \ {<<h, 1>>} = CopiesOf(b, x)
    BY <1>7, <1>9
  <2> QED BY <1>8, <2>1
<1>10. Cardinality(CopiesOf(b, m)) = Cardinality(CopiesOf(a, m)) + 1
  <2>1. Cardinality(CopiesOf(b, m) \ {<<h, 1>>}) = Cardinality(CopiesOf(b, m)) - 1
    BY <1>6, CopiesFinite, FS_RemoveElement
  <2>2. PICK u \in Nat : u = Cardinality(CopiesOf(b, m))
    BY CopiesFinite
  <2>3. Cardinality(CopiesOf(a, m)) = u - 1
    BY <1>8, <2>1, <2>2
  <2> QED BY <2>2, <2>3
<1> QED BY <1>3, <1>4, <1>9, <1>10

LEMMA NoCopies ==
    ASSUME IsFiniteSet(Member), NEW b \in Boxes, NEW m
    PROVE  CopiesOf(b, m) = {} <=> Cardinality(CopiesOf(b, m)) = 0
  BY CopiesFinite, FS_EmptySet

(* What a casting service still owes its message.                          *)
LEMMA DueIs ==
    ASSUME NEW k, NEW m, \A c, d \in Caster : k[c].m = m /\ k[d].m = m => c = d
    PROVE  /\ \A c \in Caster : k[c].m = m => DueOf(k, m) = Len(k[c].todo) + k[c].release
           /\ (\A c \in Caster : k[c].m # m) => DueOf(k, m) = 0
  BY DEF DueOf

LEMMA DueSame ==
    ASSUME NEW k, NEW l, NEW m, \A c \in Caster : k[c].m = m \/ l[c].m = m => k[c] = l[c]
    PROVE  DueOf(k, m) = DueOf(l, m)
<1>1. CASE \E c \in Caster : k[c].m = m
  <2>1. \A c \in Caster : k[c].m = m <=> l[c].m = m
    OBVIOUS
  <2>2. (CHOOSE c \in Caster : k[c].m = m) = (CHOOSE c \in Caster : l[c].m = m)
    BY <2>1
  <2>3. \E c \in Caster : l[c].m = m
    BY <1>1, <2>1
  <2> DEFINE c1 == CHOOSE c \in Caster : k[c].m = m
  <2>4. c1 \in Caster /\ k[c1].m = m
    BY <1>1
  <2>5. k[c1] = l[c1]
    BY <2>4
  <2>6. DueOf(k, m) = Len(k[c1].todo) + k[c1].release
    BY <1>1 DEF DueOf
  <2>7. DueOf(l, m) = Len(l[c1].todo) + l[c1].release
    BY <2>2, <2>3 DEF DueOf
  <2> QED BY <2>5, <2>6, <2>7
<1>2. CASE ~ \E c \in Caster : k[c].m = m
  <2>1. ~ \E c \in Caster : l[c].m = m
    BY <1>2
  <2> QED BY <1>2, <2>1 DEF DueOf
<1> QED BY <1>1, <1>2

LEMMA CombinedRight ==
    ASSUME MulticastAssumption, MulticastTypeOK, NEW i \in Inst
    PROVE  /\ Combined(i) \in Handles /\ Rising(Combined(i))
           /\ Elements(Combined(i)) = (Elements(data[i]) \cup Elements(enterQueue[i]))
                                        \ Elements(leaveQueue[i])
<1>1. Member \subseteq Nat \ {0} /\ Member \subseteq Nat
  BY DEF MulticastAssumption
<1>2. PICK e, l, d : e = enterQueue[i] /\ l = leaveQueue[i] /\ d = data[i]
  OBVIOUS
<1>3. e \in Seq(Member) /\ l \in Seq(Member) /\ d \in Handles /\ Rising(d)
  BY <1>2 DEF MulticastTypeOK, Handles
<1>4. PICK p, q : p = Ascending(e) /\ q = Ascending(l)
  OBVIOUS
<1>5. /\ p \in Handles /\ NotFalling(p) /\ Elements(p) = Elements(e)
      /\ q \in Handles /\ NotFalling(q) /\ Elements(q) = Elements(l)
  BY <1>1, <1>3, <1>4, AscendingSorts DEF Handles
<1>6. PICK u : u = CombineEnter(p, d)
  OBVIOUS
<1>7. u \in Handles /\ Rising(u) /\ Elements(u) = Elements(p) \cup Elements(d)
  BY <1>1, <1>3, <1>5, <1>6, EnterCombines
<1>8. PICK v : v = CombineLeave(q, u)
  OBVIOUS
<1>9. v \in Handles /\ Rising(v) /\ Elements(v) = Elements(u) \ Elements(q)
  BY <1>1, <1>5, <1>7, <1>8, LeaveCombines
<1>10. Combined(i) = v
  BY <1>2, <1>4, <1>6, <1>8 DEF Combined
<1> QED BY <1>2, <1>5, <1>7, <1>9, <1>10

(* The mailboxes of the casting services of other states.                  *)
CommandsOf == [Caster -> Seq(Commands)]
AskedIn(b, c, k, m) ==
    k \in 1 .. Len(b[c]) /\ b[c][k].cmd \in {"cast", "local"} /\ b[c][k].arg = m
LoneIn(b, m) ==
    \A c, d \in Caster : \A k, l \in Nat : AskedIn(b, c, k, m) /\ AskedIn(b, d, l, m) => c = d /\ k = l
NoneIn(b, m) == \A c \in Caster : \A k \in Nat : ~AskedIn(b, c, k, m)
LocalOnly(b) == \A c \in Caster : \A k \in 1 .. Len(b[c]) : b[c][k].cmd = "local" <=> c = localcast

LEMMA OrdersTyped ==
    ASSUME NEW b \in CommandsOf, NEW c \in Caster
    PROVE  b[c] \in Seq(Commands) /\ Len(b[c]) \in Nat
  BY LenProperties DEF CommandsOf

(* A command or message is put into a mailbox.                             *)
LEMMA OrderAdded ==
    ASSUME NEW b \in CommandsOf, NEW c \in Caster, NEW x \in Commands,
           NEW a \in CommandsOf, a[c] = Append(b[c], x), \A d \in Caster : d # c => a[d] = b[d]
    PROVE  /\ \A m : x.cmd \notin {"cast", "local"} \/ x.arg # m =>
                 (LoneIn(b, m) => LoneIn(a, m)) /\ (NoneIn(b, m) => NoneIn(a, m))
           /\ \A m : NoneIn(b, m) => LoneIn(a, m)
           /\ LocalOnly(b) /\ (x.cmd = "local" <=> c = localcast) => LocalOnly(a)
<1>1. PICK n \in Nat : n = Len(b[c]) /\ b[c] \in Seq(Commands)
  BY OrdersTyped
<1>2. a[c] = Append(b[c], x) /\ \A d \in Caster : d # c => a[d] = b[d]
  OBVIOUS
<1>3. Len(a[c]) = n + 1 /\ a[c][n + 1] = x /\ \A k \in 1 .. n : a[c][k] = b[c][k]
  BY <1>1, <1>2, AppendProperties
<1>4. ASSUME NEW d \in Caster, NEW k \in 1 .. Len(a[d])
      PROVE  \/ k \in 1 .. Len(b[d]) /\ a[d][k] = b[d][k]
             \/ d = c /\ k = n + 1 /\ a[d][k] = x
  <2>1. CASE d # c
    BY <1>2, <1>4, <2>1
  <2>2. CASE d = c
    <3>1. a[d] = a[c] /\ b[d] = b[c]
      BY <2>2
    <3>2. k \in 1 .. n \/ k = n + 1
      BY <1>3, <1>4, <3>1
    <3> QED BY <1>1, <1>3, <2>2, <3>1, <3>2
  <2> QED BY <2>1, <2>2
<1>5. ASSUME NEW m, NEW d \in Caster, NEW k \in Nat, AskedIn(a, d, k, m)
      PROVE  \/ AskedIn(b, d, k, m)
             \/ d = c /\ k = n + 1 /\ x.cmd \in {"cast", "local"} /\ x.arg = m
  BY <1>4, <1>5 DEF AskedIn
<1>6. ASSUME NEW m, x.cmd \notin {"cast", "local"} \/ x.arg # m
      PROVE  (LoneIn(b, m) => LoneIn(a, m)) /\ (NoneIn(b, m) => NoneIn(a, m))
  <2>1. \A d \in Caster : \A k \in Nat : AskedIn(a, d, k, m) => AskedIn(b, d, k, m)
    BY <1>5, <1>6
  <2> QED BY <2>1 DEF LoneIn, NoneIn
<1>7. ASSUME NEW m, NoneIn(b, m) PROVE LoneIn(a, m)
  <2>1. \A d \in Caster : \A k \in Nat : AskedIn(a, d, k, m) => d = c /\ k = n + 1
    BY <1>5, <1>7 DEF NoneIn
  <2> QED BY <2>1 DEF LoneIn
<1>8. ASSUME LocalOnly(b), x.cmd = "local" <=> c = localcast PROVE LocalOnly(a)
  BY <1>4, <1>8 DEF LocalOnly
<1> QED BY <1>6, <1>7, <1>8

(* The first of a mailbox is taken out.                                    *)
LEMMA OrderTaken ==
    ASSUME NEW b \in CommandsOf, NEW c \in Caster, b[c] # <<>>,
           NEW a \in CommandsOf, a[c] = Tail(b[c]), \A d \in Caster : d # c => a[d] = b[d]
    PROVE  /\ \A m : (LoneIn(b, m) => LoneIn(a, m)) /\ (NoneIn(b, m) => NoneIn(a, m))
           /\ \A m : LoneIn(b, m) /\ AskedIn(b, c, 1, m) => NoneIn(a, m)
           /\ LocalOnly(b) => LocalOnly(a)
           /\ Head(b[c]) \in Commands /\ Head(b[c]) = b[c][1] /\ 1 \in 1 .. Len(b[c])
<1>1. PICK n \in Nat : n = Len(b[c]) /\ b[c] \in Seq(Commands)
  BY OrdersTyped
<1>2. a[c] = Tail(b[c]) /\ \A d \in Caster : d # c => a[d] = b[d]
  OBVIOUS
<1>3. /\ n > 0 /\ Len(a[c]) = n - 1 /\ Head(b[c]) = b[c][1] /\ Head(b[c]) \in Commands
      /\ \A k \in 1 .. n - 1 : a[c][k] = b[c][k + 1]
  BY <1>1, <1>2, HeadTailProperties, EmptySeq
<1>4. ASSUME NEW d \in Caster, NEW k \in 1 .. Len(a[d])
      PROVE  \/ d # c /\ k \in 1 .. Len(b[d]) /\ a[d][k] = b[d][k]
             \/ d = c /\ k \in Nat /\ k > 0 /\ k + 1 \in 1 .. Len(b[d]) /\ a[d][k] = b[d][k + 1]
  <2>1. CASE d # c
    BY <1>2, <1>4, <2>1
  <2>2. CASE d = c
    <3>1. a[d] = a[c] /\ b[d] = b[c]
      BY <2>2
    <3>2. k \in 1 .. n - 1
      BY <1>3, <1>4, <3>1
    <3>3. k \in Nat /\ k > 0 /\ k + 1 \in 1 .. n
      BY <1>1, <3>2
    <3>4. a[c][k] = b[c][k + 1]
      BY <1>3, <3>2
    <3> QED BY <1>1, <2>2, <3>1, <3>3, <3>4
  <2> QED BY <2>1, <2>2
<1>5. ASSUME NEW m, NEW d \in Caster, NEW k \in Nat, AskedIn(a, d, k, m)
      PROVE  \/ d # c /\ AskedIn(b, d, k, m)
             \/ d = c /\ k > 0 /\ AskedIn(b, d, k + 1, m)
  BY <1>4, <1>5 DEF AskedIn
<1>6. ASSUME NEW m, LoneIn(b, m) PROVE LoneIn(a, m)
  <2>1. SUFFICES ASSUME NEW d \in Caster, NEW e \in Caster, NEW k \in Nat, NEW l \in Nat,
                        AskedIn(a, d, k, m), AskedIn(a, e, l, m)
                 PROVE  d = e /\ k = l
    BY DEF LoneIn
  <2>2. (d # c /\ AskedIn(b, d, k, m)) \/ (d = c /\ AskedIn(b, d, k + 1, m))
    BY <1>5, <2>1
  <2>3. (e # c /\ AskedIn(b, e, l, m)) \/ (e = c /\ AskedIn(b, e, l + 1, m))
    BY <1>5, <2>1
  <2>4. k + 1 \in Nat /\ l + 1 \in Nat
    OBVIOUS
  <2> QED BY <1>6, <2>2, <2>3, <2>4 DEF LoneIn
<1>7. ASSUME NEW m, NoneIn(b, m) PROVE NoneIn(a, m)
  <2>1. \A k \in Nat : k + 1 \in Nat
    OBVIOUS
  <2> QED BY <1>5, <1>7, <2>1 DEF NoneIn
<1>8. ASSUME NEW m, LoneIn(b, m), AskedIn(b, c, 1, m) PROVE NoneIn(a, m)
  <2>1. SUFFICES ASSUME NEW d \in Caster, NEW k \in Nat, AskedIn(a, d, k, m) PROVE FALSE
    BY DEF NoneIn
  <2>2. (d # c /\ AskedIn(b, d, k, m)) \/ (d = c /\ k > 0 /\ AskedIn(b, d, k + 1, m))
    BY <1>5, <2>1
  <2>3. k + 1 \in Nat /\ 1 \in Nat /\ (k > 0 => k + 1 # 1)
    OBVIOUS
  <2> QED BY <1>8, <2>2, <2>3 DEF LoneIn
<1>9. ASSUME LocalOnly(b) PROVE LocalOnly(a)
  BY <1>4, <1>9 DEF LocalOnly
<1>10. 1 \in 1 .. Len(b[c])
  BY <1>1, <1>3
<1> QED BY <1>3, <1>6, <1>7, <1>8, <1>9, <1>10

Casts == [Caster -> [m : CastMessage \cup {"none"}, todo : Seq(Member), release : Nat]]
Counts == [st : {"none", "sent", "live", "freed"}, ref : Int]
NCopies(x, m) == Cardinality(CopiesOf(x, m))

(* What the invariant says of one message, for the mailboxes b of the      *)
(* casting services and x of the members, the casts k and its count r.     *)
MessageRight(b, x, k, r, m) ==
    /\ LoneIn(b, m)
    /\ NoneIn(b, m) \/ r.st = "sent"
    /\ \A c, d \in Caster : k[c].m = m /\ k[d].m = m => c = d
    /\ r.st \in {"none", "sent"} => NCopies(x, m) = 0 /\ r.ref = 0 /\ \A c \in Caster : k[c].m # m
    /\ r.st = "freed" => r.ref = 0 /\ NCopies(x, m) = 0 /\ DueOf(k, m) = 0
    /\ r.st = "live" => r.ref = NCopies(x, m) + DueOf(k, m)
    /\ r.st = "live" /\ r.ref = 0 => \E c \in Inst : k[c].m = m

LEMMA LoneIs ==
    ASSUME NEW b \in CommandsOf, NEW m
    PROVE  /\ LoneIn(b, m) <=>
                \A c, d \in Caster : \A k \in 1 .. Len(b[c]) : \A l \in 1 .. Len(b[d]) :
                   /\ b[c][k].cmd \in {"cast", "local"} /\ b[c][k].arg = m
                   /\ b[d][l].cmd \in {"cast", "local"} /\ b[d][l].arg = m
                   => c = d /\ k = l
           /\ NoneIn(b, m) <=>
                \A c \in Caster : \A k \in 1 .. Len(b[c]) :
                   ~(b[c][k].cmd \in {"cast", "local"} /\ b[c][k].arg = m)
<1>1. \A c \in Caster : Len(b[c]) \in Nat
  BY OrdersTyped
<1>2. \A c \in Caster : \A k \in 1 .. Len(b[c]) : k \in Nat
  BY <1>1
<1> QED BY <1>2 DEF LoneIn, NoneIn, AskedIn

LEMMA InvIs ==
    ASSUME MulticastAssumption
    PROVE  /\ MulticastInv => /\ MulticastTypeOK /\ AtRest
                              /\ \A m \in CastMessage : MessageRight(inbox, mbox, casting, mc[m], m)
           /\ MulticastTypeOK' /\ AtRest'
              /\ (\A m \in CastMessage : MessageRight(inbox', mbox', casting', mc'[m], m))
              => MulticastInv'
<1>1. IsFiniteSet(Member)
  BY DEF MulticastAssumption
<1>2. \A x \in Boxes : \A m : CopiesOf(x, m) = {} <=> NCopies(x, m) = 0
  BY <1>1, NoCopies DEF NCopies
<1>3. MulticastTypeOK => mbox \in Boxes /\ inbox \in CommandsOf
  BY DEF MulticastTypeOK, Boxes, CommandsOf
<1>4. MulticastTypeOK' => mbox' \in Boxes /\ inbox' \in CommandsOf
  BY DEF MulticastTypeOK, Boxes, CommandsOf
<1>5. \A m : Copies(m) = CopiesOf(mbox, m) /\ CopiesDue(m) = DueOf(casting, m)
  BY DEF Copies, CopiesOf, CopiesDue, DueOf
<1>6. \A m : Copies(m)' = CopiesOf(mbox', m) /\ CopiesDue(m)' = DueOf(casting', m)
  BY DEF Copies, CopiesOf, CopiesDue, DueOf
<1>7. ASSUME MulticastInv, NEW m \in CastMessage
      PROVE  MessageRight(inbox, mbox, casting, mc[m], m)
  <2>1. MulticastTypeOK /\ CastOnce /\ CopiesCounted
    BY <1>7 DEF MulticastInv
  <2>2. LoneIn(inbox, m) /\ (NoneIn(inbox, m) \/ mc[m].st = "sent")
    <3>1. inbox \in CommandsOf
      BY <1>3, <2>1
    <3>2. \A c, d \in Caster : \A k \in 1 .. Len(inbox[c]) : \A l \in 1 .. Len(inbox[d]) :
             Asked(c, k, m) /\ Asked(d, l, m) => c = d /\ k = l
      BY <2>1 DEF CastOnce
    <3>3. \A c \in Caster : \A k \in 1 .. Len(inbox[c]) : Asked(c, k, m) => mc[m].st = "sent"
      BY <2>1 DEF CastOnce
    <3>4. LoneIn(inbox, m)
      BY <3>1, <3>2, LoneIs DEF Asked
    <3>5. mc[m].st # "sent" => NoneIn(inbox, m)
      BY <3>1, <3>3, LoneIs DEF Asked
    <3> QED BY <3>4, <3>5
  <2>3. CopiesOf(mbox, m) = {} <=> NCopies(mbox, m) = 0
    BY <1>2, <1>3, <2>1
  <2> QED BY <1>5, <2>1, <2>2, <2>3 DEF CastOnce, CopiesCounted, MessageRight, NCopies
<1>8. ASSUME MulticastTypeOK', AtRest',
             \A m \in CastMessage : MessageRight(inbox', mbox', casting', mc'[m], m)
      PROVE  MulticastInv'
  <2>1. ASSUME NEW m \in CastMessage
        PROVE  /\ \A c, d \in Caster : \A k \in 1 .. Len(inbox'[c]) : \A l \in 1 .. Len(inbox'[d]) :
                   Asked(c, k, m)' /\ Asked(d, l, m)' => c = d /\ k = l
               /\ \A c \in Caster : \A k \in 1 .. Len(inbox'[c]) : Asked(c, k, m)' => mc'[m].st = "sent"
    <3>1. LoneIn(inbox', m) /\ (NoneIn(inbox', m) \/ mc'[m].st = "sent")
      BY <1>8 DEF MessageRight
    <3>2. inbox' \in CommandsOf
      BY <1>4, <1>8
    <3>3. \A c, d \in Caster : \A k \in 1 .. Len(inbox'[c]) : \A l \in 1 .. Len(inbox'[d]) :
             Asked(c, k, m)' /\ Asked(d, l, m)' => c = d /\ k = l
      BY <3>1, <3>2, LoneIs DEF Asked
    <3>4. NoneIn(inbox', m) =>
             \A c \in Caster : \A k \in 1 .. Len(inbox'[c]) : ~Asked(c, k, m)'
      BY <3>2, LoneIs DEF Asked
    <3> QED BY <3>1, <3>3, <3>4
  <2>2. ASSUME NEW m \in CastMessage PROVE CopiesOf(mbox', m) = {} <=> NCopies(mbox', m) = 0
    BY <1>2, <1>4, <1>8
  <2>3. CastOnce'
    BY <1>6, <1>8, <2>1, <2>2 DEF CastOnce, MessageRight
  <2>4. CopiesCounted'
    BY <1>6, <1>8, <2>2 DEF CopiesCounted, MessageRight, NCopies
  <2> QED BY <1>8, <2>3, <2>4 DEF MulticastInv
<1>9. MulticastInv => MulticastTypeOK /\ AtRest
  BY DEF MulticastInv
<1> QED BY <1>7, <1>8, <1>9

(* A message that a step has nothing to do with.                           *)
LEMMA RightKept ==
    ASSUME NEW b, NEW x, NEW k, NEW r, NEW m, MessageRight(b, x, k, r, m),
           NEW b1, NEW x1, NEW k1,
           (LoneIn(b, m) => LoneIn(b1, m)) /\ (NoneIn(b, m) => NoneIn(b1, m)),
           NCopies(x1, m) = NCopies(x, m),
           \A c \in Caster : k[c].m = m \/ k1[c].m = m => k[c] = k1[c]
    PROVE  MessageRight(b1, x1, k1, r, m)
<1>1. DueOf(k1, m) = DueOf(k, m)
  BY DueSame
<1>2. \A c \in Caster : k[c].m = m <=> k1[c].m = m
  OBVIOUS
<1>3. Inst \subseteq Caster
  BY DEF Caster
<1> QED BY <1>1, <1>2, <1>3 DEF MessageRight

(* A command or a message is sent to a casting service.                    *)
LEMMA OrderSent ==
    ASSUME MulticastTypeOK, NEW c \in Caster, NEW x \in Commands,
           x.cmd = "local" <=> c = localcast, SendCommand(c, x)
    PROVE  /\ inbox' \in CommandsOf /\ LocalOnly(inbox')
           /\ inbox \in CommandsOf /\ inbox'[c] = Append(inbox[c], x)
           /\ \A d \in Caster : d # c => inbox'[d] = inbox[d]
<1>1. inbox \in CommandsOf /\ LocalOnly(inbox)
  BY DEF MulticastTypeOK, CommandsOf, LocalOnly
<1>2. inbox' = [inbox EXCEPT ![c] = Append(@, x)]
  BY DEF SendCommand
<1>3. inbox'[c] = Append(inbox[c], x) /\ \A d \in Caster : d # c => inbox'[d] = inbox[d]
  BY <1>1, <1>2 DEF CommandsOf
<1>4. Append(inbox[c], x) \in Seq(Commands)
  BY <1>1, OrdersTyped, AppendProperties
<1>5. inbox' \in CommandsOf
  BY <1>1, <1>2, <1>4 DEF CommandsOf
<1>6. (x.cmd = "local" <=> c = localcast)
  OBVIOUS
<1>7. LocalOnly(inbox')
  BY <1>1, <1>3, <1>5, <1>6, OrderAdded
<1> QED BY <1>1, <1>3, <1>5, <1>7

LEMMA CommandSent ==
    ASSUME MulticastAssumption, MulticastInv, NEW c \in Inst, NEW x \in Commands,
           x.cmd \in {"E", "L", "C"}, SendCommand(c, x),
           node' \in [GroupId -> 0 .. MaxInst], made' \in 0 .. MaxInst,
           UNCHANGED <<alive, mbox, groupVars, mc, casting>>
    PROVE  MulticastInv'
<1>1. /\ MulticastTypeOK /\ AtRest
      /\ \A m \in CastMessage : MessageRight(inbox, mbox, casting, mc[m], m)
  BY InvIs
<1>2. c \in Caster /\ c # localcast /\ x.cmd \notin {"cast", "local"}
  BY DEF MulticastAssumption, Caster, Inst, localcast
<1>3. /\ inbox' \in CommandsOf /\ LocalOnly(inbox')
      /\ inbox \in CommandsOf /\ inbox'[c] = Append(inbox[c], x)
      /\ \A d \in Caster : d # c => inbox'[d] = inbox[d]
  BY <1>1, <1>2, OrderSent
<1>4. MulticastTypeOK' /\ AtRest'
  BY <1>1, <1>3 DEF MulticastTypeOK, AtRest, CommandsOf, LocalOnly, groupVars, Rising
<1>5. ASSUME NEW m \in CastMessage
      PROVE  MessageRight(inbox', mbox', casting', mc'[m], m)
  <2>1. (LoneIn(inbox, m) => LoneIn(inbox', m)) /\ (NoneIn(inbox, m) => NoneIn(inbox', m))
    BY <1>2, <1>3, OrderAdded
  <2>2. mbox' = mbox /\ casting' = casting /\ mc' = mc
    OBVIOUS
  <2>3. MessageRight(inbox', mbox, casting, mc[m], m)
    BY <1>1, <2>1, RightKept
  <2> QED BY <2>2, <2>3
<1> QED BY <1>4, <1>5, InvIs

LEMMA MessageSent ==
    ASSUME MulticastAssumption, MulticastInv, NEW c \in Caster, NEW x \in Commands,
           NEW m \in CastMessage, x.arg = m, x.cmd = "local" <=> c = localcast,
           mc[m].st = "none", mc' = [mc EXCEPT ![m] = [st |-> "sent", ref |-> 0]],
           SendCommand(c, x),
           UNCHANGED <<alive, mbox, node, made, groupVars, casting>>
    PROVE  MulticastInv'
<1>1. /\ MulticastTypeOK /\ AtRest
      /\ \A n \in CastMessage : MessageRight(inbox, mbox, casting, mc[n], n)
  BY InvIs
<1>2. x.cmd = "local" <=> c = localcast
  OBVIOUS
<1>3. /\ inbox' \in CommandsOf /\ LocalOnly(inbox')
      /\ inbox \in CommandsOf /\ inbox'[c] = Append(inbox[c], x)
      /\ \A d \in Caster : d # c => inbox'[d] = inbox[d]
  BY <1>1, <1>2, OrderSent
<1>4. /\ mc'[m] = [st |-> "sent", ref |-> 0]
      /\ \A n \in CastMessage : n # m => mc'[n] = mc[n]
      /\ mc' \in [CastMessage -> [st : {"none", "sent", "live", "freed"}, ref : Int]]
  BY <1>1 DEF MulticastTypeOK
<1>5. MulticastTypeOK' /\ AtRest'
  BY <1>1, <1>3, <1>4 DEF MulticastTypeOK, AtRest, CommandsOf, LocalOnly, groupVars, Rising
<1>6. mbox' = mbox /\ casting' = casting
  OBVIOUS
<1>7. ASSUME NEW n \in CastMessage, n # m
      PROVE  MessageRight(inbox', mbox', casting', mc'[n], n)
  <2>1. (LoneIn(inbox, n) => LoneIn(inbox', n)) /\ (NoneIn(inbox, n) => NoneIn(inbox', n))
    BY <1>3, <1>7, OrderAdded
  <2>2. MessageRight(inbox', mbox, casting, mc[n], n)
    BY <1>1, <2>1, RightKept
  <2> QED BY <1>4, <1>6, <1>7, <2>2
<1>8. MessageRight(inbox', mbox', casting', mc'[m], m)
  <2>1. MessageRight(inbox, mbox, casting, mc[m], m)
    BY <1>1
  <2>2. NoneIn(inbox, m)
    BY <2>1 DEF MessageRight
  <2>3. LoneIn(inbox', m)
    BY <1>3, <2>2, OrderAdded
  <2> QED BY <1>4, <1>6, <2>1, <2>3 DEF MessageRight
<1> QED BY <1>5, <1>7, <1>8, InvIs

LEMMA GroupCommandsKeep ==
    ASSUME MulticastAssumption, MulticastInv,
           ServiceGroupCommand \/ SendToGroup \/ SendLocalcast \/ MemberDies
    PROVE  MulticastInv'
<1>1. MulticastTypeOK /\ AtRest /\ MaxInst \in Nat
  BY DEF MulticastInv, MulticastAssumption
<1>2. \A gid \in GroupId : Created(gid) =>
          /\ GroupOf(gid) \in Inst
          /\ node' \in [GroupId -> 0 .. MaxInst] /\ made' \in 0 .. MaxInst
  BY <1>1 DEF MulticastTypeOK, Created, GroupOf, Inst
<1>3. CASE GroupQuery
  <2>1. PICK gid \in GroupId : Created(gid)
    BY <1>3 DEF GroupQuery
  <2>2. UNCHANGED <<alive, mbox, inbox, groupVars, mc, casting>>
    BY <1>3 DEF GroupQuery
  <2>3. node' \in [GroupId -> 0 .. MaxInst] /\ made' \in 0 .. MaxInst
    BY <1>2, <2>1
  <2>4. MulticastTypeOK' /\ AtRest'
    BY <1>1, <2>2, <2>3 DEF MulticastTypeOK, AtRest, groupVars, Rising
  <2>5. \A m \in CastMessage : MessageRight(inbox', mbox', casting', mc'[m], m)
    BY <2>2, InvIs
  <2> QED BY <2>4, <2>5, InvIs
<1>4. CASE GroupEnter
  <2>1. PICK gid \in GroupId, h \in Member :
            Created(gid) /\ SendCommand(GroupOf(gid), [cmd |-> "E", arg |-> h])
    BY <1>4 DEF GroupEnter
  <2>2. UNCHANGED <<alive, mbox, groupVars, mc, casting>>
    BY <1>4 DEF GroupEnter
  <2>3. GroupOf(gid) \in Inst /\ node' \in [GroupId -> 0 .. MaxInst] /\ made' \in 0 .. MaxInst
    BY <1>2, <2>1
  <2>4. PICK x : x = [cmd |-> "E", arg |-> h]
    OBVIOUS
  <2>5. x \in Commands /\ x.cmd \in {"E", "L", "C"}
    BY <2>4 DEF Commands
  <2> QED BY <2>1, <2>2, <2>3, <2>4, <2>5, CommandSent
<1>5. CASE GroupLeave
  <2>1. PICK gid \in GroupId, h \in Member :
            node[gid] # 0 /\ SendCommand(node[gid], [cmd |-> "L", arg |-> h])
    BY <1>5 DEF GroupLeave
  <2>2. UNCHANGED <<alive, mbox, node, made, groupVars, mc, casting>>
    BY <1>5 DEF GroupLeave
  <2>3. node[gid] \in Inst /\ node' \in [GroupId -> 0 .. MaxInst] /\ made' \in 0 .. MaxInst
    BY <1>1, <2>1, <2>2 DEF MulticastTypeOK, Inst
  <2>4. PICK x : x = [cmd |-> "L", arg |-> h]
    OBVIOUS
  <2>5. x \in Commands /\ x.cmd \in {"E", "L", "C"}
    BY <2>4 DEF Commands
  <2> QED BY <2>1, <2>2, <2>3, <2>4, <2>5, CommandSent
<1>6. CASE GroupClear
  <2>1. PICK gid \in GroupId :
            /\ node[gid] # 0 /\ SendCommand(node[gid], [cmd |-> "C", arg |-> 0])
            /\ node' = [node EXCEPT ![gid] = 0]
    BY <1>6 DEF GroupClear
  <2>2. UNCHANGED <<alive, mbox, made, groupVars, mc, casting>>
    BY <1>6 DEF GroupClear
  <2>3. node[gid] \in Inst /\ node' \in [GroupId -> 0 .. MaxInst] /\ made' \in 0 .. MaxInst
    BY <1>1, <2>1, <2>2 DEF MulticastTypeOK, Inst
  <2>4. PICK x : x = [cmd |-> "C", arg |-> 0]
    OBVIOUS
  <2>5. x \in Commands /\ x.cmd \in {"E", "L", "C"}
    BY <2>4 DEF Commands
  <2> QED BY <2>1, <2>2, <2>3, <2>4, <2>5, CommandSent
<1>7. CASE SendToGroup
  <2>1. PICK i \in 1 .. made, m \in CastMessage :
            /\ mc[m].st = "none"
            /\ mc' = [mc EXCEPT ![m] = [st |-> "sent", ref |-> 0]]
            /\ SendCommand(i, [cmd |-> "cast", arg |-> m])
    BY <1>7 DEF SendToGroup
  <2>2. UNCHANGED <<alive, mbox, node, made, groupVars, casting>>
    BY <1>7 DEF SendToGroup
  <2>3. i \in Caster /\ i # localcast
    BY <1>1, <2>1 DEF MulticastTypeOK, Inst, Caster, localcast
  <2>4. PICK x : x = [cmd |-> "cast", arg |-> m]
    OBVIOUS
  <2>5. x \in Commands /\ x.arg = m /\ (x.cmd = "local" <=> i = localcast)
    BY <2>3, <2>4 DEF Commands
  <2> QED BY <2>1, <2>2, <2>3, <2>4, <2>5, MessageSent
<1>8. CASE SendLocalcast
  <2>1. PICK m \in CastMessage, to \in UNION {[1 .. n -> Member] : n \in 0 .. 2} :
            /\ mc[m].st = "none"
            /\ mc' = [mc EXCEPT ![m] = [st |-> "sent", ref |-> 0]]
            /\ SendCommand(localcast, [cmd |-> "local", arg |-> m, group |-> to])
    BY <1>8 DEF SendLocalcast
  <2>2. UNCHANGED <<alive, mbox, node, made, groupVars, casting>>
    BY <1>8 DEF SendLocalcast
  <2>3. localcast \in Caster
    BY DEF Caster
  <2>4. PICK x : x = [cmd |-> "local", arg |-> m, group |-> to]
    OBVIOUS
  <2>5. to \in Seq(Member)
    <3>1. PICK n \in 0 .. 2 : to \in [1 .. n -> Member]
      BY <2>1
    <3>2. n \in Nat
      OBVIOUS
    <3> QED BY <3>1, <3>2, SeqDef
  <2>6. x \in Commands /\ x.arg = m /\ (x.cmd = "local" <=> localcast = localcast)
    BY <2>4, <2>5 DEF Commands
  <2> QED BY <2>1, <2>2, <2>3, <2>4, <2>6, MessageSent
<1>9. CASE MemberDies
  <2>1. /\ alive' \in SUBSET alive
        /\ UNCHANGED <<mbox, node, made, inbox, groupVars, mc, casting>>
    BY <1>9 DEF MemberDies
  <2>2. MulticastTypeOK' /\ AtRest'
    BY <1>1, <2>1 DEF MulticastTypeOK, AtRest, groupVars, Rising
  <2>3. \A m \in CastMessage : MessageRight(inbox', mbox', casting', mc'[m], m)
    BY <2>1, InvIs
  <2> QED BY <2>2, <2>3, InvIs
<1> QED BY <1>3, <1>4, <1>5, <1>6, <1>7, <1>8, <1>9 DEF ServiceGroupCommand

LEMMA OrderReceived ==
    ASSUME MulticastTypeOK, NEW c \in Caster, inbox[c] # <<>>, Received(c)
    PROVE  /\ inbox' \in CommandsOf /\ inbox \in CommandsOf
           /\ LocalOnly(inbox) /\ LocalOnly(inbox')
           /\ inbox'[c] = Tail(inbox[c])
           /\ \A d \in Caster : d # c => inbox'[d] = inbox[d]
<1>1. inbox \in CommandsOf /\ LocalOnly(inbox)
  BY DEF MulticastTypeOK, CommandsOf, LocalOnly
<1>2. inbox' = [inbox EXCEPT ![c] = Tail(@)] /\ inbox[c] # <<>>
  BY DEF Received
<1>3. inbox'[c] = Tail(inbox[c]) /\ \A d \in Caster : d # c => inbox'[d] = inbox[d]
  BY <1>1, <1>2 DEF CommandsOf
<1>4. Tail(inbox[c]) \in Seq(Commands)
  BY <1>1, <1>2, OrdersTyped, HeadTailProperties
<1>5. inbox' \in CommandsOf
  BY <1>1, <1>2, <1>4 DEF CommandsOf
<1>6. LocalOnly(inbox')
  <2>1. inbox[c] # <<>>
    OBVIOUS
  <2> QED BY <1>1, <1>3, <1>5, <2>1, OrderTaken
<1> QED BY <1>1, <1>3, <1>5, <1>6

LEMMA CommandIs ==
    ASSUME NEW x \in Commands
    PROVE  /\ x.cmd \in {"E", "L"} => x.arg \in Member
           /\ x.cmd \in {"cast", "local"} => x.arg \in CastMessage
           /\ x.cmd = "local" => x.group \in Seq(Member)
           /\ x.cmd \in {"E", "L", "C", "cast", "local"}
  BY DEF Commands

LEMMA GroupCommandKeeps ==
    ASSUME MulticastAssumption, MulticastInv, NEW i \in Inst, GroupCommand(i)
    PROVE  MulticastInv'
<1>1. /\ MulticastTypeOK /\ AtRest
      /\ \A m \in CastMessage : MessageRight(inbox, mbox, casting, mc[m], m)
  BY InvIs
<1>2. i \in Caster
  BY DEF Caster
<1>3. inbox[i] # <<>> /\ Received(i)
  BY DEF GroupCommand
<1>4. /\ inbox' \in CommandsOf /\ inbox \in CommandsOf /\ LocalOnly(inbox')
      /\ inbox'[i] = Tail(inbox[i])
      /\ \A d \in Caster : d # i => inbox'[d] = inbox[d]
  BY <1>1, <1>2, <1>3, OrderReceived
<1>5. PICK c : c = Head(inbox[i])
  OBVIOUS
<1>6. c \in Commands /\ (c.cmd \in {"E", "L"} => c.arg \in Member)
  BY <1>2, <1>3, <1>4, <1>5, OrderTaken, CommandIs
<1>7. enterQueue' \in [Inst -> Seq(Member)] /\ leaveQueue' \in [Inst -> Seq(Member)]
  <2>1. /\ enterQueue' = IF c.cmd = "E" THEN [enterQueue EXCEPT ![i] = Append(@, c.arg)] ELSE enterQueue
        /\ leaveQueue' = IF c.cmd = "L" THEN [leaveQueue EXCEPT ![i] = Append(@, c.arg)] ELSE leaveQueue
    BY <1>5 DEF GroupCommand, PushArray
  <2>2. enterQueue \in [Inst -> Seq(Member)] /\ leaveQueue \in [Inst -> Seq(Member)]
    BY <1>1 DEF MulticastTypeOK
  <2>3. c.cmd \in {"E", "L"} =>
           Append(enterQueue[i], c.arg) \in Seq(Member) /\ Append(leaveQueue[i], c.arg) \in Seq(Member)
    BY <1>6, <2>2, AppendProperties
  <2> QED BY <2>1, <2>2, <2>3
<1>8. UNCHANGED <<alive, mbox, node, made, data, mc, casting>>
  BY DEF GroupCommand
<1>9. MulticastTypeOK' /\ AtRest'
  BY <1>1, <1>4, <1>7, <1>8 DEF MulticastTypeOK, AtRest, CommandsOf, LocalOnly, Rising
<1>10. ASSUME NEW m \in CastMessage
       PROVE  MessageRight(inbox', mbox', casting', mc'[m], m)
  <2>1. (LoneIn(inbox, m) => LoneIn(inbox', m)) /\ (NoneIn(inbox, m) => NoneIn(inbox', m))
    BY <1>2, <1>3, <1>4, OrderTaken
  <2>2. MessageRight(inbox', mbox, casting, mc[m], m)
    BY <1>1, <2>1, RightKept
  <2> QED BY <1>8, <2>2
<1> QED BY <1>9, <1>10, InvIs

(* A cast begins: m is taken out of the mailbox of c, which casts it to to *)
(* or, if there is nobody to cast it to, may be done with it.              *)
LEMMA CastBegins ==
    ASSUME MulticastAssumption, MulticastInv, NEW c \in Caster, NEW m \in CastMessage,
           NEW to \in Seq(Member), inbox[c] # <<>>, Received(c),
           Head(inbox[c]).cmd \in {"cast", "local"}, Head(inbox[c]).arg = m, casting[c] = NoCast,
           NEW k, k = [m |-> m, todo |-> to, release |-> 0],
           NEW r, r \in Counts, mc' = [mc EXCEPT ![m] = r],
           \/ /\ casting' = [casting EXCEPT ![c] = k]
              /\ r.ref = Len(to) /\ r.st = "live" /\ (r.ref = 0 => c \in Inst)
           \/ casting' = casting /\ r.st = "freed" /\ r.ref = 0,
           mbox' = mbox, UNCHANGED <<alive, node, made>>,
           enterQueue' \in [Inst -> Seq(Member)], leaveQueue' \in [Inst -> Seq(Member)],
           data' \in [Inst -> Seq(Member)], \A i \in Inst : Rising(data'[i])
    PROVE  MulticastInv'
<1>1. /\ MulticastTypeOK /\ AtRest
      /\ \A n \in CastMessage : MessageRight(inbox, mbox, casting, mc[n], n)
  BY InvIs
<1>2. inbox[c] # <<>>
  OBVIOUS
<1>3. /\ inbox' \in CommandsOf /\ inbox \in CommandsOf /\ LocalOnly(inbox')
      /\ inbox'[c] = Tail(inbox[c])
      /\ \A d \in Caster : d # c => inbox'[d] = inbox[d]
  BY <1>1, OrderReceived
<1>4. AskedIn(inbox, c, 1, m)
  <2>1. Head(inbox[c]) = inbox[c][1] /\ 1 \in 1 .. Len(inbox[c])
    BY <1>2, <1>3, OrderTaken
  <2> QED BY <2>1 DEF AskedIn
<1>5. MessageRight(inbox, mbox, casting, mc[m], m)
  BY <1>1
<1>6. /\ LoneIn(inbox, m) /\ ~NoneIn(inbox, m) /\ mc[m].st = "sent"
      /\ NCopies(mbox, m) = 0 /\ \A d \in Caster : casting[d].m # m
  <2>1. ~NoneIn(inbox, m)
    BY <1>4 DEF NoneIn
  <2> QED BY <1>5, <2>1 DEF MessageRight
<1>7. NoneIn(inbox', m) /\ LoneIn(inbox', m)
  BY <1>2, <1>3, <1>4, <1>6, OrderTaken
<1>8. mc'[m] = r /\ (\A n \in CastMessage : n # m => mc'[n] = mc[n]) /\ mc' \in [CastMessage -> Counts]
  BY <1>1 DEF MulticastTypeOK, Counts
<1>9. k \in [m : CastMessage \cup {"none"}, todo : Seq(Member), release : Nat] /\ k.m = m
  OBVIOUS
<1>10. casting \in Casts
  BY <1>1 DEF MulticastTypeOK, Casts
<1>11. casting' \in Casts /\ \A d \in Caster : d # c => casting'[d] = casting[d]
  BY <1>9, <1>10 DEF Casts
<1>12. /\ casting' = [casting EXCEPT ![c] = k] => casting'[c] = k
       /\ casting[c].m = "none" /\ "none" \notin CastMessage
  BY <1>10 DEF Casts, NoCast, MulticastAssumption
<1>13. MulticastTypeOK'
  BY <1>1, <1>3, <1>8, <1>11 DEF MulticastTypeOK, CommandsOf, LocalOnly, Casts, Counts
<1>14. AtRest'
  BY <1>1, <1>9, <1>11, <1>12 DEF AtRest
<1>15. ASSUME NEW n \in CastMessage, n # m
       PROVE  MessageRight(inbox', mbox', casting', mc'[n], n)
  <2>1. (LoneIn(inbox, n) => LoneIn(inbox', n)) /\ (NoneIn(inbox, n) => NoneIn(inbox', n))
    BY <1>2, <1>3, OrderTaken
  <2>2. \A d \in Caster : casting[d].m = n \/ casting'[d].m = n => casting[d] = casting'[d]
    BY <1>9, <1>11, <1>12, <1>15
  <2>3. mc'[n] = mc[n] /\ mbox' = mbox
    BY <1>8, <1>15
  <2>4. MessageRight(inbox, mbox, casting, mc[n], n)
    BY <1>1
  <2>5. MessageRight(inbox', mbox, casting', mc[n], n)
    BY <2>1, <2>2, <2>4, RightKept
  <2> QED BY <2>3, <2>5
<1>16. MessageRight(inbox', mbox', casting', mc'[m], m)
  <2>1. CASE casting' = [casting EXCEPT ![c] = k] /\ r.ref = Len(to) /\ r.st = "live" /\ (r.ref = 0 => c \in Inst)
    <3>1. casting'[c].m = m /\ \A d \in Caster : casting'[d].m = m => d = c
      BY <1>6, <1>9, <1>11, <1>12, <2>1
    <3>2. DueOf(casting', m) = Len(casting'[c].todo) + casting'[c].release
      BY <3>1, DueIs
    <3>3. Len(to) \in Nat /\ casting'[c].todo = to /\ casting'[c].release = 0
      BY <1>12, <2>1, LenProperties
    <3>4. r.ref = NCopies(mbox', m) + DueOf(casting', m)
      BY <1>6, <2>1, <3>2, <3>3
    <3> QED BY <1>7, <1>8, <2>1, <3>1, <3>4 DEF MessageRight
  <2>2. CASE casting' = casting /\ r.st = "freed" /\ r.ref = 0
    <3>1. DueOf(casting', m) = 0 /\ NCopies(mbox', m) = 0
      BY <1>6, <2>2, DueIs
    <3> QED BY <1>6, <1>7, <1>8, <2>2, <3>1 DEF MessageRight
  <2> QED BY <2>1, <2>2
<1> QED BY <1>13, <1>14, <1>15, <1>16, InvIs

LEMMA CastGroupKeeps ==
    ASSUME MulticastAssumption, MulticastInv, NEW i \in Inst, CastGroup(i)
    PROVE  MulticastInv'
<1>1. MulticastTypeOK /\ i \in Caster
  BY DEF MulticastInv, Caster
<1>2. /\ casting[i] = NoCast /\ inbox[i] # <<>> /\ Received(i)
      /\ Head(inbox[i]).cmd = "cast"
  BY DEF CastGroup, Idle
<1>3. PICK to \in Seq(Member) : to = Combined(i) /\ Rising(to)
  BY <1>1, CombinedRight DEF Handles
<1>4. PICK m : m = Head(inbox[i]).arg
  OBVIOUS
<1>5. m \in CastMessage
  BY <1>1, <1>2, <1>4, OrderReceived, OrderTaken, CommandIs
<1>6. PICK r : r = [st |-> "live", ref |-> Len(to)]
  OBVIOUS
<1>7. PICK k : k = [m |-> m, todo |-> to, release |-> 0]
  OBVIOUS
<1>8. /\ data' = [data EXCEPT ![i] = to]
      /\ enterQueue' = [enterQueue EXCEPT ![i] = <<>>]
      /\ leaveQueue' = [leaveQueue EXCEPT ![i] = <<>>]
      /\ casting' = [casting EXCEPT ![i] = k]
      /\ mc' = [mc EXCEPT ![m] = r]
      /\ UNCHANGED <<alive, mbox, node, made>>
  BY <1>3, <1>4, <1>6, <1>7 DEF CastGroup
<1>9. /\ enterQueue' \in [Inst -> Seq(Member)] /\ leaveQueue' \in [Inst -> Seq(Member)]
      /\ data' \in [Inst -> Seq(Member)] /\ \A j \in Inst : Rising(data'[j])
  BY <1>1, <1>3, <1>8 DEF MulticastTypeOK
<1>10. r \in Counts /\ r.ref = Len(to) /\ r.st = "live"
  BY <1>6, LenProperties DEF Counts
<1> QED BY <1>1, <1>2, <1>4, <1>5, <1>7, <1>8, <1>9, <1>10, CastBegins

LEMMA CastLocalKeeps ==
    ASSUME MulticastAssumption, MulticastInv, CastLocal
    PROVE  MulticastInv'
<1>1. /\ MulticastTypeOK /\ localcast \in Caster
      /\ \A n \in CastMessage : MessageRight(inbox, mbox, casting, mc[n], n)
  BY InvIs DEF Caster
<1>2. casting[localcast] = NoCast /\ inbox[localcast] # <<>> /\ Received(localcast)
  BY DEF CastLocal, Idle
<1>3. PICK c : c = Head(inbox[localcast])
  OBVIOUS
<1>4. inbox \in CommandsOf /\ inbox' \in CommandsOf /\ LocalOnly(inbox)
      /\ inbox'[localcast] = Tail(inbox[localcast])
      /\ \A d \in Caster : d # localcast => inbox'[d] = inbox[d]
  BY <1>1, <1>2, OrderReceived
<1>5. c \in Commands /\ c = inbox[localcast][1] /\ 1 \in 1 .. Len(inbox[localcast])
  BY <1>1, <1>2, <1>3, <1>4, OrderTaken
<1>6. c.cmd = "local"
  BY <1>1, <1>4, <1>5 DEF LocalOnly
<1>7. PICK m \in CastMessage, to \in Seq(Member) : m = c.arg /\ to = c.group
  BY <1>5, <1>6, CommandIs
<1>8. mc[m].st = "sent" /\ mc[m].ref = 0
  <2>1. AskedIn(inbox, localcast, 1, m)
    BY <1>5, <1>6, <1>7 DEF AskedIn
  <2>2. ~NoneIn(inbox, m)
    BY <1>1, <2>1 DEF NoneIn
  <2> QED BY <1>1, <2>2 DEF MessageRight
<1>9. Len(to) \in Nat /\ 0 + Len(to) = Len(to) /\ (to = <<>> <=> Len(to) = 0)
  BY LenProperties, EmptySeq
<1>10. PICK r : r = [st |-> IF Len(to) = 0 THEN "freed" ELSE "live", ref |-> Len(to)]
  OBVIOUS
<1>11. PICK k : k = [m |-> m, todo |-> to, release |-> 0]
  OBVIOUS
<1>12. r \in Counts
  BY <1>9, <1>10 DEF Counts
<1>13. mc' = [mc EXCEPT ![m] = r]
  BY <1>3, <1>7, <1>8, <1>9, <1>10 DEF CastLocal, Copy
<1>14. casting' = [casting EXCEPT ![localcast] = IF to = <<>> THEN NoCast ELSE k]
  BY <1>3, <1>7, <1>11 DEF CastLocal
<1>15. UNCHANGED <<alive, mbox, node, made, groupVars>>
  BY DEF CastLocal
<1>16. /\ enterQueue' \in [Inst -> Seq(Member)] /\ leaveQueue' \in [Inst -> Seq(Member)]
       /\ data' \in [Inst -> Seq(Member)] /\ \A i \in Inst : Rising(data'[i])
  BY <1>1, <1>15 DEF MulticastTypeOK, groupVars
<1>17. \/ /\ casting' = [casting EXCEPT ![localcast] = k]
          /\ r.ref = Len(to) /\ r.st = "live" /\ (r.ref = 0 => localcast \in Inst)
       \/ casting' = casting /\ r.st = "freed" /\ r.ref = 0
  <2>1. CASE to = <<>>
    <3>1. casting' = casting
      BY <1>1, <1>2, <1>14, <2>1 DEF MulticastTypeOK
    <3> QED BY <1>9, <1>10, <2>1, <3>1
  <2>2. CASE to # <<>>
    BY <1>9, <1>10, <1>14, <2>2
  <2> QED BY <2>1, <2>2
<1>18. Head(inbox[localcast]).cmd \in {"cast", "local"} /\ Head(inbox[localcast]).arg = m
  BY <1>3, <1>6, <1>7
<1>19. mbox' = mbox /\ UNCHANGED <<alive, node, made>>
  BY <1>15
<1> QED BY <1>1, <1>2, <1>11, <1>12, <1>13, <1>16, <1>17, <1>18, <1>19, CastBegins

LEMMA CastNextKeeps ==
    ASSUME MulticastAssumption, MulticastInv, NEW c \in Caster, CastNext(c)
    PROVE  MulticastInv'
<1>1. /\ MulticastTypeOK /\ AtRest /\ IsFiniteSet(Member)
      /\ \A n \in CastMessage : MessageRight(inbox, mbox, casting, mc[n], n)
  BY InvIs DEF MulticastAssumption
<1>2. PICK m, todo, p, release : /\ m = casting[c].m /\ todo = casting[c].todo
                                 /\ release = casting[c].release /\ p = Head(todo)
  OBVIOUS
<1>3. todo # <<>>
  BY <1>2 DEF CastNext
<1>4. casting \in Casts /\ mbox \in Boxes
  BY <1>1 DEF MulticastTypeOK, Casts, Boxes
<1>5. m \in CastMessage /\ todo \in Seq(Member) /\ release \in Nat
  <2>1. casting[c] # NoCast
    BY <1>2, <1>3 DEF NoCast
  <2>2. casting[c].m # "none"
    BY <1>1, <2>1 DEF AtRest
  <2> QED BY <1>2, <1>4, <2>2 DEF Casts
<1>6. /\ p \in Member /\ Tail(todo) \in Seq(Member) /\ Len(todo) \in Nat
      /\ Len(Tail(todo)) = Len(todo) - 1 /\ Len(todo) > 0
  BY <1>2, <1>3, <1>5, HeadTailProperties, LenProperties, EmptySeq
<1>7. UNCHANGED <<alive, node, made, inbox, enterQueue, data, mc>>
  BY DEF CastNext
<1>8. \A d \in Caster : casting[d].m = m => d = c
  BY <1>1, <1>2, <1>5 DEF MessageRight
<1>9. DueOf(casting, m) = Len(todo) + release
  <2>1. \A d, e \in Caster : casting[d].m = m /\ casting[e].m = m => d = e
    BY <1>8
  <2> QED BY <1>2, <2>1, DueIs
<1>10. mc[m].st = "live" /\ mc[m].ref = NCopies(mbox, m) + Len(todo) + release
  <2>1. MessageRight(inbox, mbox, casting, mc[m], m)
    BY <1>1, <1>5
  <2>2. mc[m].st \in {"none", "sent", "live", "freed"}
    BY <1>1, <1>5 DEF MulticastTypeOK
  <2>3. mc[m].st \notin {"none", "sent"}
    BY <1>2, <2>1 DEF MessageRight
  <2>4. mc[m].st # "freed"
    BY <1>5, <1>6, <1>9, <2>1 DEF MessageRight
  <2>5. NCopies(mbox, m) \in Nat
    BY <1>1, <1>4, CopiesFinite DEF NCopies
  <2>6. mc[m].ref = NCopies(mbox, m) + DueOf(casting, m)
    BY <2>1, <2>2, <2>3, <2>4 DEF MessageRight
  <2>7. NCopies(mbox, m) + (Len(todo) + release) = NCopies(mbox, m) + Len(todo) + release
    BY <1>5, <1>6, <2>5
  <2> QED BY <1>9, <2>2, <2>3, <2>4, <2>6, <2>7
<1>11. PICK k : k = casting'[c]
  OBVIOUS
<1>12. \/ p \in alive /\ casting' = [casting EXCEPT ![c].todo = Tail(@)]
       \/ p \notin alive /\ casting' = [casting EXCEPT ![c].todo = Tail(@), ![c].release = @ + 1]
  BY <1>2 DEF CastNext
<1>13. k.m = m /\ k.todo = Tail(todo) /\ k.release = IF p \in alive THEN release ELSE release + 1
  <2>1. CASE p \in alive /\ casting' = [casting EXCEPT ![c].todo = Tail(@)]
    BY <1>2, <1>4, <1>11, <2>1 DEF Casts
  <2>2. CASE p \notin alive /\ casting' = [casting EXCEPT ![c].todo = Tail(@), ![c].release = @ + 1]
    BY <1>2, <1>4, <1>11, <2>2 DEF Casts
  <2> QED BY <1>12, <2>1, <2>2
<1>14. /\ casting' \in Casts /\ casting'[c] = k
       /\ \A d \in Caster : d # c => casting'[d] = casting[d]
  <2>1. Tail(casting[c].todo) \in Seq(Member) /\ casting[c].release + 1 \in Nat
    BY <1>2, <1>5, <1>6
  <2>2. CASE casting' = [casting EXCEPT ![c].todo = Tail(@)]
    BY <1>4, <1>11, <2>1, <2>2 DEF Casts
  <2>3. CASE casting' = [casting EXCEPT ![c].todo = Tail(@), ![c].release = @ + 1]
    BY <1>4, <1>11, <2>1, <2>3 DEF Casts
  <2> QED BY <1>12, <2>2, <2>3
<1>15. DueOf(casting', m) = Len(todo) - 1 + k.release
  <2>1. \A d, e \in Caster : casting'[d].m = m /\ casting'[e].m = m => d = e
    BY <1>8, <1>14
  <2>2. casting'[c].m = m /\ casting'[c].todo = k.todo /\ casting'[c].release = k.release
    BY <1>13, <1>14
  <2>3. DueOf(casting', m) = Len(casting'[c].todo) + casting'[c].release
    BY <2>1, <2>2, DueIs
  <2> QED BY <1>6, <1>13, <2>2, <2>3
<1>16. /\ mbox' \in Boxes
       /\ \A n : n # m => NCopies(mbox', n) = NCopies(mbox, n)
       /\ NCopies(mbox', m) + k.release = NCopies(mbox, m) + release + 1
  <2>0. NCopies(mbox, m) \in Nat
    BY <1>1, <1>4, CopiesFinite DEF NCopies
  <2>1. CASE p \in alive
    <3>1. mbox' = [mbox EXCEPT ![p] = Append(@, m)]
      BY <1>2, <2>1 DEF CastNext
    <3>2. mbox'[p] = Append(mbox[p], m) /\ \A h \in Member : h # p => mbox'[h] = mbox[h]
      BY <1>4, <1>6, <3>1 DEF Boxes
    <3>3. Append(mbox[p], m) \in Seq(CastMessage)
      BY <1>4, <1>5, <1>6, BoxTyped, AppendProperties
    <3>4. mbox' \in Boxes
      BY <1>4, <3>1, <3>3 DEF Boxes
    <3>5. /\ NCopies(mbox', m) = NCopies(mbox, m) + 1
          /\ \A n : n # m => CopiesOf(mbox', n) = CopiesOf(mbox, n)
      BY <1>1, <1>4, <1>5, <1>6, <3>2, <3>4, CopyAdded DEF NCopies
    <3>6. \A n : n # m => NCopies(mbox', n) = NCopies(mbox, n)
      BY <3>5 DEF NCopies
    <3>7. k.release = release
      BY <1>13, <2>1
    <3>8. (NCopies(mbox, m) + 1) + release = NCopies(mbox, m) + release + 1
      BY <1>5, <2>0
    <3> QED BY <3>4, <3>5, <3>6, <3>7, <3>8
  <2>2. CASE p \notin alive
    <3>1. mbox' = mbox
      BY <1>2, <2>2 DEF CastNext
    <3>2. k.release = release + 1
      BY <1>13, <2>2
    <3> QED BY <1>4, <1>5, <2>0, <3>1, <3>2
  <2> QED BY <2>1, <2>2
<1>17. leaveQueue' \in [Inst -> Seq(Member)]
  <2>1. CASE leaveQueue' = leaveQueue
    BY <1>1, <2>1 DEF MulticastTypeOK
  <2>2. CASE c # localcast /\ leaveQueue' = [leaveQueue EXCEPT ![c] = Append(@, p)]
    <3>1. c \in Inst /\ leaveQueue \in [Inst -> Seq(Member)]
      BY <1>1, <2>2 DEF MulticastTypeOK, Caster
    <3>2. Append(leaveQueue[c], p) \in Seq(Member)
      BY <1>6, <3>1, AppendProperties
    <3> QED BY <2>2, <3>1, <3>2
  <2> QED BY <1>2, <2>1, <2>2 DEF CastNext, PushArray
<1>18. MulticastTypeOK'
  BY <1>1, <1>7, <1>14, <1>16, <1>17 DEF MulticastTypeOK, Casts, Boxes, Rising
<1>19. AtRest'
  <2>1. \A d \in Caster : d # c => (casting'[d].m = "none" => casting'[d] = NoCast)
    BY <1>1, <1>14 DEF AtRest
  <2>2. casting'[c].m # "none"
    BY <1>5, <1>13, <1>14 DEF MulticastAssumption
  <2> QED BY <2>1, <2>2 DEF AtRest
<1>20. ASSUME NEW n \in CastMessage, n # m
       PROVE  MessageRight(inbox', mbox', casting', mc'[n], n)
  <2>1. \A d \in Caster : casting[d].m = n \/ casting'[d].m = n => casting[d] = casting'[d]
    BY <1>2, <1>13, <1>14, <1>20
  <2>2. NCopies(mbox', n) = NCopies(mbox, n)
    BY <1>16, <1>20
  <2>3. MessageRight(inbox, mbox, casting, mc[n], n)
    BY <1>1
  <2>4. MessageRight(inbox, mbox', casting', mc[n], n)
    BY <2>1, <2>2, <2>3, RightKept
  <2> QED BY <1>7, <2>4
<1>21. MessageRight(inbox', mbox', casting', mc'[m], m)
  <2>1. MessageRight(inbox, mbox, casting, mc[m], m)
    BY <1>1, <1>5
  <2>2. NCopies(mbox, m) \in Nat /\ NCopies(mbox', m) \in Nat /\ k.release \in Nat
    BY <1>1, <1>4, <1>5, <1>13, <1>16, CopiesFinite DEF NCopies
  <2>3. NCopies(mbox, m) + Len(todo) + release = NCopies(mbox', m) + (Len(todo) - 1 + k.release)
    <3>1. PICK u \in Nat, v \in Nat, w \in Nat, l \in Nat, z \in Nat :
              /\ u = NCopies(mbox, m) /\ v = NCopies(mbox', m) /\ w = k.release
              /\ l = Len(todo) /\ z = release
      BY <1>5, <1>6, <2>2
    <3>2. v + w = u + z + 1
      BY <1>16, <3>1
    <3>3. u + l + z = v + (l - 1 + w)
      BY <3>2
    <3> QED BY <3>1, <3>3
  <2>4. mc[m].ref = NCopies(mbox', m) + DueOf(casting', m) /\ mc[m].st = "live" /\ mc[m].ref # 0
    BY <1>5, <1>6, <1>10, <1>15, <2>2, <2>3
  <2>5. \A d \in Caster : casting'[d].m = m => d = c
    BY <1>8, <1>14
  <2>6. LoneIn(inbox, m) /\ (NoneIn(inbox, m) \/ mc[m].st = "sent")
    BY <2>1 DEF MessageRight
  <2> QED BY <1>7, <2>4, <2>5, <2>6 DEF MessageRight
<1> QED BY <1>18, <1>19, <1>20, <1>21, InvIs

LEMMA CastEndKeepsRight ==
    ASSUME MulticastAssumption, MulticastInv, NEW c \in Caster, CastEnd(c)
    PROVE  MulticastInv'
<1>1. /\ MulticastTypeOK /\ AtRest /\ IsFiniteSet(Member)
      /\ \A n \in CastMessage : MessageRight(inbox, mbox, casting, mc[n], n)
  BY InvIs DEF MulticastAssumption
<1>2. PICK m, release : m = casting[c].m /\ release = casting[c].release
  OBVIOUS
<1>3. casting[c] # NoCast /\ casting[c].todo = <<>> /\ casting' = [casting EXCEPT ![c] = NoCast]
  BY DEF CastEnd, Idle
<1>4. casting \in Casts /\ mbox \in Boxes /\ "none" \notin CastMessage
  BY <1>1 DEF MulticastTypeOK, Casts, Boxes, MulticastAssumption
<1>5. m \in CastMessage /\ release \in Nat
  <2>1. casting[c].m # "none"
    BY <1>1, <1>3 DEF AtRest
  <2> QED BY <1>2, <1>4, <2>1 DEF Casts
<1>6. UNCHANGED <<alive, mbox, node, made, inbox, groupVars>>
  BY DEF CastEnd
<1>7. /\ casting' \in Casts /\ casting'[c] = NoCast
      /\ \A d \in Caster : d # c => casting'[d] = casting[d]
  <2>1. NoCast \in [m : CastMessage \cup {"none"}, todo : Seq(Member), release : Nat]
    BY DEF NoCast
  <2> QED BY <1>3, <1>4, <2>1 DEF Casts
<1>8. \A d \in Caster : casting[d].m = m => d = c
  BY <1>1, <1>2, <1>5 DEF MessageRight
<1>9. DueOf(casting, m) = release
  <2>1. \A d, e \in Caster : casting[d].m = m /\ casting[e].m = m => d = e
    BY <1>8
  <2>2. DueOf(casting, m) = Len(casting[c].todo) + casting[c].release
    BY <1>2, <2>1, DueIs
  <2>3. Len(<<>>) = 0
    OBVIOUS
  <2> QED BY <1>2, <1>3, <1>5, <2>2, <2>3
<1>10. \A d \in Caster : casting'[d].m # m
  BY <1>4, <1>5, <1>7, <1>8 DEF NoCast
<1>11. DueOf(casting', m) = 0
  BY <1>10, DueIs
<1>12. /\ mc[m].st \in {"live", "freed"} /\ mc[m].ref \in Int
       /\ mc[m].st = "live" => mc[m].ref = NCopies(mbox, m) + release
       /\ mc[m].st = "freed" => mc[m].ref = 0 /\ release = 0 /\ NCopies(mbox, m) = 0
       /\ mc[m].st = "live" /\ mc[m].ref = 0 => c \in Inst
       /\ LoneIn(inbox, m) /\ NoneIn(inbox, m)
  <2>1. MessageRight(inbox, mbox, casting, mc[m], m)
    BY <1>1, <1>5
  <2>2. mc[m].st \in {"none", "sent", "live", "freed"} /\ mc[m].ref \in Int
    BY <1>1, <1>5 DEF MulticastTypeOK
  <2>3. mc[m].st \notin {"none", "sent"}
    BY <1>2, <2>1 DEF MessageRight
  <2>4. mc[m].st = "live" /\ mc[m].ref = 0 => c \in Inst
    <3>1. Inst \subseteq Caster
      BY DEF Caster
    <3> QED BY <1>8, <2>1, <3>1 DEF MessageRight
  <2> QED BY <1>9, <2>1, <2>2, <2>3, <2>4 DEF MessageRight
<1>13. NCopies(mbox, m) \in Nat
  BY <1>1, <1>4, CopiesFinite DEF NCopies
<1>14. PICK r \in Counts : /\ mc' = [mc EXCEPT ![m] = r]
                           /\ r.st \in {"live", "freed"} /\ r.ref = NCopies(mbox, m)
                           /\ r.st = "freed" <=> r.ref = 0
  <2>1. CASE c # localcast \/ release # 0
    <3>1. mc[m].ref + (-release) = NCopies(mbox, m)
      BY <1>5, <1>12, <1>13
    <3>2. mc' = [mc EXCEPT ![m] = [st  |-> IF mc[m].ref + (-release) = 0 THEN "freed" ELSE "live",
                                   ref |-> mc[m].ref + (-release)]]
      BY <1>2, <2>1 DEF CastEnd, Copy
    <3>3. PICK r : r = [st |-> IF NCopies(mbox, m) = 0 THEN "freed" ELSE "live", ref |-> NCopies(mbox, m)]
      OBVIOUS
    <3>4. mc' = [mc EXCEPT ![m] = r]
      BY <3>1, <3>2, <3>3
    <3>5. /\ r \in Counts /\ r.st \in {"live", "freed"} /\ r.ref = NCopies(mbox, m)
          /\ r.st = "freed" <=> r.ref = 0
      BY <1>13, <3>3 DEF Counts
    <3> QED BY <3>4, <3>5
  <2>2. CASE c = localcast /\ release = 0
    <3>1. mc' = mc
      BY <1>2, <2>2 DEF CastEnd
    <3>2. mc \in [CastMessage -> Counts]
      BY <1>1 DEF MulticastTypeOK, Counts
    <3>3. PICK r : r = mc[m]
      OBVIOUS
    <3>4. r \in Counts /\ mc' = [mc EXCEPT ![m] = r]
      BY <1>5, <3>1, <3>2, <3>3
    <3>5. c \notin Inst
      BY <2>2 DEF Inst, localcast
    <3>6. r.st \in {"live", "freed"} /\ r.ref = NCopies(mbox, m) /\ (r.st = "freed" <=> r.ref = 0)
      BY <1>12, <1>13, <2>2, <3>3, <3>5
    <3> QED BY <3>4, <3>6
  <2> QED BY <2>1, <2>2
<1>15. /\ mc' \in [CastMessage -> Counts] /\ mc'[m] = r
       /\ \A n \in CastMessage : n # m => mc'[n] = mc[n]
  BY <1>1, <1>5, <1>14 DEF MulticastTypeOK, Counts
<1>16. MulticastTypeOK'
  BY <1>1, <1>6, <1>7, <1>15 DEF MulticastTypeOK, Casts, Counts, groupVars, Rising
<1>17. AtRest'
  BY <1>1, <1>7 DEF AtRest
<1>18. ASSUME NEW n \in CastMessage, n # m
       PROVE  MessageRight(inbox', mbox', casting', mc'[n], n)
  <2>1. \A d \in Caster : casting[d].m = n \/ casting'[d].m = n => casting[d] = casting'[d]
    BY <1>2, <1>4, <1>7, <1>18 DEF NoCast
  <2>2. MessageRight(inbox, mbox, casting, mc[n], n)
    BY <1>1
  <2>3. MessageRight(inbox, mbox, casting', mc[n], n)
    BY <2>1, <2>2, RightKept
  <2> QED BY <1>6, <1>15, <1>18, <2>3
<1>19. MessageRight(inbox', mbox', casting', mc'[m], m)
  <2>1. MessageRight(inbox, mbox, casting', r, m)
    BY <1>10, <1>11, <1>12, <1>13, <1>14 DEF MessageRight
  <2> QED BY <1>6, <1>15, <2>1
<1> QED BY <1>16, <1>17, <1>18, <1>19, InvIs

LEMMA ReceiveKeeps ==
    ASSUME MulticastAssumption, MulticastInv, NEW h \in Member, Receive(h)
    PROVE  MulticastInv'
<1>1. /\ MulticastTypeOK /\ AtRest /\ IsFiniteSet(Member)
      /\ \A n \in CastMessage : MessageRight(inbox, mbox, casting, mc[n], n)
  BY InvIs DEF MulticastAssumption
<1>2. PICK m : m = Head(mbox[h])
  OBVIOUS
<1>3. mbox[h] # <<>> /\ mbox' = [mbox EXCEPT ![h] = Tail(@)]
  BY DEF Receive
<1>4. mbox \in Boxes
  BY <1>1 DEF MulticastTypeOK, Boxes
<1>5. mbox'[h] = Tail(mbox[h]) /\ \A k \in Member : k # h => mbox'[k] = mbox[k]
  BY <1>3, <1>4 DEF Boxes
<1>6. Tail(mbox[h]) \in Seq(CastMessage)
  BY <1>3, <1>4, BoxTyped, HeadTailProperties
<1>7. mbox' \in Boxes
  BY <1>3, <1>4, <1>6 DEF Boxes
<1>8. mbox[h] # <<>>
  BY <1>3
<1>9. /\ m \in CastMessage /\ NCopies(mbox, m) = NCopies(mbox', m) + 1
      /\ \A n : n # m => NCopies(mbox', n) = NCopies(mbox, n)
  BY <1>1, <1>2, <1>4, <1>5, <1>7, <1>8, CopyTaken DEF NCopies
<1>10. UNCHANGED <<alive, node, made, inbox, groupVars, casting>>
  BY DEF Receive
<1>11. NCopies(mbox', m) \in Nat
  BY <1>1, <1>7, CopiesFinite DEF NCopies
<1>12. MessageRight(inbox, mbox, casting, mc[m], m)
  BY <1>1, <1>9
<1>13. mc[m].st = "live"
  <2>1. mc[m].st \in {"none", "sent", "live", "freed"}
    BY <1>1, <1>9 DEF MulticastTypeOK
  <2>2. NCopies(mbox, m) # 0
    BY <1>9, <1>11
  <2> QED BY <1>12, <2>1, <2>2 DEF MessageRight
<1>14. DueOf(casting, m) \in Nat
  <2>1. CASE \E c \in Caster : casting[c].m = m
    <3>1. PICK c \in Caster : casting[c].m = m
      BY <2>1
    <3>2. DueOf(casting, m) = Len(casting[c].todo) + casting[c].release
      BY <1>12, <3>1, DueIs DEF MessageRight
    <3>3. casting[c].todo \in Seq(Member) /\ casting[c].release \in Nat
      BY <1>1 DEF MulticastTypeOK
    <3> QED BY <3>2, <3>3, LenProperties
  <2>2. CASE ~ \E c \in Caster : casting[c].m = m
    BY <2>2, DueIs
  <2> QED BY <2>1, <2>2
<1>15. PICK n \in Nat : n = NCopies(mbox', m) + DueOf(casting, m)
  BY <1>11, <1>14
<1>16. mc[m].ref + (-1) = n
  <2>1. mc[m].ref = NCopies(mbox, m) + DueOf(casting, m)
    BY <1>12, <1>13 DEF MessageRight
  <2> QED BY <1>9, <1>11, <1>14, <1>15, <2>1
<1>17. PICK r : r = [st |-> IF n = 0 THEN "freed" ELSE "live", ref |-> n]
  OBVIOUS
<1>18. mc' = [mc EXCEPT ![m] = r]
  BY <1>2, <1>16, <1>17 DEF Receive, Copy
<1>19. r \in Counts
  BY <1>17 DEF Counts
<1>20. /\ mc' \in [CastMessage -> Counts] /\ mc'[m] = r
       /\ \A x \in CastMessage : x # m => mc'[x] = mc[x]
  BY <1>1, <1>9, <1>18, <1>19 DEF MulticastTypeOK, Counts
<1>21. MulticastTypeOK' /\ AtRest'
  BY <1>1, <1>7, <1>10, <1>20 DEF MulticastTypeOK, AtRest, Boxes, Counts, groupVars, Rising
<1>22. ASSUME NEW x \in CastMessage, x # m
       PROVE  MessageRight(inbox', mbox', casting', mc'[x], x)
  <2>1. NCopies(mbox', x) = NCopies(mbox, x)
    BY <1>9, <1>22
  <2>2. MessageRight(inbox, mbox, casting, mc[x], x)
    BY <1>1
  <2>3. MessageRight(inbox, mbox', casting, mc[x], x)
    BY <2>1, <2>2, RightKept
  <2> QED BY <1>10, <1>20, <1>22, <2>3
<1>23. MessageRight(inbox', mbox', casting', mc'[m], m)
  <2>1. /\ r.st \in {"live", "freed"} /\ r.ref = NCopies(mbox', m) + DueOf(casting, m)
        /\ r.st = "freed" => r.ref = 0 /\ NCopies(mbox', m) = 0 /\ DueOf(casting, m) = 0
        /\ r.st = "live" => r.ref # 0
    BY <1>11, <1>14, <1>15, <1>17
  <2>2. MessageRight(inbox, mbox', casting, r, m)
    BY <1>12, <1>13, <2>1 DEF MessageRight
  <2> QED BY <1>10, <1>20, <2>2
<1> QED BY <1>21, <1>22, <1>23, InvIs

LEMMA MulticastBegins == MulticastAssumption /\ MulticastInit => MulticastInv
<1> SUFFICES ASSUME MulticastAssumption, MulticastInit PROVE MulticastInv
  OBVIOUS
<1>1. /\ \A c \in Caster : inbox[c] = <<>> /\ casting[c] = NoCast
      /\ \A h \in Member : mbox[h] = <<>>
      /\ \A i \in Inst : data[i] = <<>>
      /\ \A m \in CastMessage : mc[m] = [st |-> "none", ref |-> 0]
  BY DEF MulticastInit
<1>2. "none" \notin CastMessage /\ MaxInst \in Nat /\ Len(<<>>) = 0 /\ 1 .. 0 = {}
  BY DEF MulticastAssumption
<1>3. MulticastTypeOK
  <2>1. NoCast \in [m : CastMessage \cup {"none"}, todo : Seq(Member), release : Nat]
    BY DEF NoCast
  <2>2. \A i \in Inst : Rising(data[i])
    BY <1>1, <1>2 DEF Rising
  <2>3. \A c \in Caster : \A k \in 1 .. Len(inbox[c]) : inbox[c][k].cmd = "local" <=> c = localcast
    BY <1>1, <1>2
  <2>4. inbox \in [Caster -> Seq(Commands)] /\ mbox \in [Member -> Seq(CastMessage)]
    BY DEF MulticastInit
  <2>5. /\ enterQueue \in [Inst -> Seq(Member)] /\ leaveQueue \in [Inst -> Seq(Member)]
        /\ data \in [Inst -> Seq(Member)]
    BY DEF MulticastInit
  <2> QED BY <1>2, <2>1, <2>2, <2>3, <2>4, <2>5 DEF MulticastInit, MulticastTypeOK
<1>4. \A m \in CastMessage : Copies(m) = {} /\ CopiesDue(m) = 0
  <2>1. TAKE m \in CastMessage
  <2>2. \A c \in Caster : casting[c].m # m
    BY <1>1, <1>2 DEF NoCast
  <2>3. Copies(m) = {}
    BY <1>1, <1>2 DEF Copies
  <2> QED BY <2>2, <2>3 DEF CopiesDue
<1>5. CastOnce
  <2>1. \A c \in Caster : \A k \in 1 .. Len(inbox[c]) : FALSE
    BY <1>1, <1>2
  <2>2. \A m \in CastMessage : \A c \in Caster : casting[c].m # m
    BY <1>1, <1>2 DEF NoCast
  <2>3. \A m \in CastMessage : mc[m].st = "none" /\ mc[m].ref = 0
    BY <1>1
  <2> QED BY <1>4, <2>1, <2>2, <2>3 DEF CastOnce
<1>6. AtRest
  BY <1>1 DEF AtRest
<1>7. CopiesCounted
  BY <1>1 DEF CopiesCounted
<1> QED BY <1>3, <1>5, <1>6, <1>7 DEF MulticastInv

LEMMA MulticastStep ==
    ASSUME MulticastAssumption, MulticastInv, MulticastNext \/ UNCHANGED multicastVars
    PROVE  MulticastInv'
<1>1. CASE ServiceGroupCommand \/ SendToGroup \/ SendLocalcast \/ MemberDies
  BY <1>1, GroupCommandsKeep
<1>2. ASSUME NEW i \in Inst, GroupCommand(i) \/ CastGroup(i) PROVE MulticastInv'
  BY <1>2, GroupCommandKeeps, CastGroupKeeps
<1>3. CASE CastLocal
  BY <1>3, CastLocalKeeps
<1>4. ASSUME NEW c \in Caster, CastNext(c) \/ CastEnd(c) PROVE MulticastInv'
  BY <1>4, CastNextKeeps, CastEndKeepsRight
<1>5. ASSUME NEW h \in Member, Receive(h) PROVE MulticastInv'
  BY <1>5, ReceiveKeeps
<1>6. CASE UNCHANGED multicastVars
  <2>1. UNCHANGED <<alive, mbox, node, made, inbox, enterQueue, leaveQueue, data, mc, casting>>
    BY <1>6 DEF multicastVars
  <2>2. MulticastTypeOK' /\ AtRest'
    BY <2>1, InvIs DEF MulticastTypeOK, AtRest, Rising
  <2>3. \A m \in CastMessage : MessageRight(inbox', mbox', casting', mc'[m], m)
    BY <2>1, InvIs
  <2> QED BY <2>2, <2>3, InvIs
<1> QED BY <1>1, <1>2, <1>3, <1>4, <1>5, <1>6 DEF MulticastNext

(* Only CastGroup makes a context of multicast begin a cast.               *)
LEMMA MembersStep ==
    ASSUME MulticastAssumption, MulticastInv, MulticastNext
    PROVE  MembersCombined
<1>1. MulticastTypeOK /\ localcast \notin Inst /\ Inst \subseteq Caster
  BY DEF MulticastInv, Inst, localcast, Caster
<1>2. SUFFICES ASSUME NEW i \in Inst, casting[i] = NoCast, casting'[i] # NoCast
               PROVE  /\ Elements(data'[i]) = (Elements(data[i]) \cup Elements(enterQueue[i]))
                                                \ Elements(leaveQueue[i])
                      /\ Rising(data'[i])
  BY DEF MembersCombined, Rising
<1>3. CastGroup(i)
  <2>1. casting \in Casts /\ casting' # casting
    BY <1>1, <1>2 DEF MulticastTypeOK, Casts
  <2>2. ~(ServiceGroupCommand \/ SendToGroup \/ SendLocalcast \/ MemberDies)
    BY <2>1 DEF ServiceGroupCommand, GroupEnter, GroupLeave, GroupQuery, GroupClear, SendToGroup,
         SendLocalcast, MemberDies
  <2>3. \A j \in Inst : ~GroupCommand(j)
    BY <2>1 DEF GroupCommand
  <2>4. \A h \in Member : ~Receive(h)
    BY <2>1 DEF Receive
  <2>5. ~CastLocal
    <3>1. SUFFICES ASSUME CastLocal PROVE FALSE
      OBVIOUS
    <3>2. PICK k : casting' = [casting EXCEPT ![localcast] = k]
      BY <3>1 DEF CastLocal
    <3> QED BY <1>1, <1>2, <2>1, <3>2 DEF Casts
  <2>6. \A c \in Caster : ~CastNext(c)
    <3>1. SUFFICES ASSUME NEW c \in Caster, CastNext(c) PROVE FALSE
      OBVIOUS
    <3>2. c # i
      BY <1>2, <3>1 DEF CastNext, NoCast
    <3>3. \/ casting' = [casting EXCEPT ![c].todo = Tail(@)]
          \/ casting' = [casting EXCEPT ![c].todo = Tail(@), ![c].release = @ + 1]
      BY <3>1 DEF CastNext
    <3>4. casting'[i] = casting[i]
      BY <1>1, <2>1, <3>2, <3>3 DEF Casts
    <3> QED BY <1>2, <3>4
  <2>7. \A c \in Caster : ~CastEnd(c)
    <3>1. SUFFICES ASSUME NEW c \in Caster, CastEnd(c) PROVE FALSE
      OBVIOUS
    <3>2. casting' = [casting EXCEPT ![c] = NoCast]
      BY <3>1 DEF CastEnd
    <3> QED BY <1>1, <1>2, <2>1, <3>2 DEF Casts
  <2>8. PICK j \in Inst : CastGroup(j)
    BY <2>2, <2>3, <2>4, <2>5, <2>6, <2>7 DEF MulticastNext
  <2>9. PICK k : casting' = [casting EXCEPT ![j] = k]
    BY <2>8 DEF CastGroup
  <2> QED BY <1>1, <1>2, <2>1, <2>8, <2>9 DEF Casts
<1>4. data'[i] = Combined(i)
  BY <1>1, <1>3 DEF CastGroup, MulticastTypeOK
<1> QED BY <1>1, <1>4, CombinedRight

-----------------------------------------------------------------------------
(* Groups and their tunnels (GroupManager).                                *)

LEMMA ManagerInit0 == GroupManagerInit => ManagerInv
  BY DEF GroupManagerInit, ManagerInv, ManagerTypeOK, CreatedOnce, TunnelsOnTheirWay, Message, CreatedOnceIn, CreateAt

(* What messages at the end of a mailbox change, when no CREATE is among    *)
(* them.                                                                   *)
LEMMA BoxGrows ==
    ASSUME ManagerTypeOK, NEW h \in Harbor, NEW s \in Seq(Message),
           \A i \in 1 .. Len(s) : s[i].cmd # "CREATE", agentBox'[h] = agentBox[h] \o s
    PROVE  /\ agentBox'[h] \in Seq(Message)
           /\ \A id \in Gid : CreateAt(h, id)' = CreateAt(h, id)
           /\ \A id \in Gid, k \in Harbor : AgentAt(h, id, k) # {} => AgentAt(h, id, k)' # {}
  <1>1. agentBox[h] \in Seq(Message)
    BY DEF ManagerTypeOK
  <1>2. /\ Len(agentBox'[h]) = Len(agentBox[h]) + Len(s)
        /\ \A i \in 1 .. Len(agentBox[h]) : agentBox'[h][i] = agentBox[h][i]
        /\ \A i \in 1 .. Len(agentBox'[h]) :
              i \in 1 .. Len(agentBox[h]) \/ (i - Len(agentBox[h]) \in 1 .. Len(s)
                                             /\ agentBox'[h][i] = s[i - Len(agentBox[h])])
        /\ Len(agentBox[h]) \in Nat /\ Len(s) \in Nat
    BY <1>1
  <1>3. agentBox'[h] \in Seq(Message)
    BY <1>1
  <1>4. ASSUME NEW id \in Gid PROVE CreateAt(h, id)' = CreateAt(h, id)
    BY <1>2 DEF CreateAt
  <1>5. ASSUME NEW id \in Gid, NEW k \in Harbor, NEW i \in AgentAt(h, id, k)
        PROVE  i \in AgentAt(h, id, k)'
    BY <1>2 DEF AgentAt
  <1> QED BY <1>3, <1>4, <1>5

(* A mailbox that does not change.                                         *)
LEMMA BoxStays ==
    ASSUME NEW h, agentBox'[h] = agentBox[h]
    PROVE  /\ \A id : CreateAt(h, id)' = CreateAt(h, id)
           /\ \A id, k : AgentAt(h, id, k)' = AgentAt(h, id, k)
  BY DEF CreateAt, AgentAt

(* A message that is no CREATE, from a manager that does nothing else.     *)
LEMMA OtherMessage ==
    ASSUME ManagerInv, NEW h \in Harbor, NEW msg \in Message, msg.cmd # "CREATE", AgentSend(h, msg),
           UNCHANGED <<harborCtrl, multicast, g, created, group, tunnel>>
    PROVE  ManagerInv'
  <1>1. agentBox \in [Harbor -> Seq(Message)] /\ ManagerTypeOK
    BY DEF ManagerInv, ManagerTypeOK
  <1>2. /\ agentBox' = [agentBox EXCEPT ![h] = agentBox'[h]]
        /\ agentBox'[h] = agentBox[h] \o <<msg>>
        /\ \A k \in Harbor \ {h} : agentBox'[k] = agentBox[k]
    BY <1>1 DEF AgentSend
  <1>3. <<msg>> \in Seq(Message) /\ \A i \in 1 .. Len(<<msg>>) : <<msg>>[i].cmd # "CREATE"
    OBVIOUS
  <1>4. /\ agentBox'[h] \in Seq(Message)
        /\ \A id \in Gid : CreateAt(h, id)' = CreateAt(h, id)
        /\ \A id \in Gid, k \in Harbor : AgentAt(h, id, k) # {} => AgentAt(h, id, k)' # {}
    BY <1>1, <1>2, <1>3, BoxGrows
  <1>5. \A k \in Harbor, id \in Gid : CreateAt(k, id)' = CreateAt(k, id)
    BY <1>2, <1>4, BoxStays
  <1>6. \A k, l \in Harbor, id \in Gid : AgentAt(k, id, l) # {} => AgentAt(k, id, l)' # {}
    BY <1>2, <1>4, BoxStays
  <1>7. ManagerTypeOK'
    BY <1>1, <1>2, <1>4 DEF ManagerTypeOK
  <1>8. CreatedOnce'
    <2>1. ASSUME NEW k \in Harbor, NEW id \in Gid PROVE CreatedOnceIn(k, id)'
      BY <1>5 DEF ManagerInv, CreatedOnce, CreatedOnceIn
    <2> QED BY <2>1 DEF CreatedOnce
  <1>9. TunnelsOnTheirWay'
    BY <1>6 DEF ManagerInv, TunnelsOnTheirWay
  <1> QED BY <1>7, <1>8, <1>9 DEF ManagerInv

LEMMA EnterKeeps ==
    ASSUME ManagerInv, NEW h \in Harbor, NEW id \in Gid, Enter(h, id)
    PROVE  ManagerInv'
  <1>1. CASE g[id][h] # "nil"
    <2>1. ToAgent("ENTER", id, h) \in Message /\ ToAgent("ENTER", id, h).cmd # "CREATE"
      BY DEF ToAgent, Message
    <2> QED BY <1>1, <2>1, OtherMessage DEF Enter
  <1>2. CASE g[id][h] = "nil"
    <2> DEFINE msg == ToAgent("CREATE", id, h)
               last == Len(agentBox[h]) + 1
    <2>1. msg \in Message /\ msg.cmd = "CREATE" /\ msg.id = id
      BY DEF ToAgent, Message
    <2>2. /\ g' = [g EXCEPT ![id][h] = "false"] /\ AgentSend(h, msg) /\ h \in harborCtrl
          /\ UNCHANGED <<harborCtrl, multicast, created, group, tunnel>>
      BY <1>2 DEF Enter
    <2>3. agentBox \in [Harbor -> Seq(Message)] /\ ManagerTypeOK
      BY DEF ManagerInv, ManagerTypeOK
    <2>4. /\ agentBox' \in [Harbor -> Seq(Message)]
          /\ \A k \in Harbor \ {h} : agentBox'[k] = agentBox[k]
          /\ Len(agentBox[h]) \in Nat
          /\ Len(agentBox'[h]) = last /\ agentBox'[h][last] = msg
          /\ \A i \in 1 .. Len(agentBox[h]) : agentBox'[h][i] = agentBox[h][i]
      <3>1. Append(agentBox[h], msg) \in Seq(Message)
        BY <2>1, <2>3
      <3> QED BY <2>1, <2>2, <2>3, <3>1 DEF AgentSend
    <2>5. ManagerTypeOK'
      BY <2>2, <2>3, <2>4 DEF ManagerTypeOK
    <2>6. /\ g'[id][h] = "false"
          /\ \A k \in Harbor, n \in Gid : k # h \/ n # id => g'[n][k] = g[n][k]
      BY <2>2, <2>3 DEF ManagerTypeOK
    <2>7. /\ CreateAt(h, id) = {} /\ id \notin group[h]
          /\ [harbor |-> h, id |-> id] \notin created
      BY <1>2 DEF ManagerInv, CreatedOnce, CreatedOnceIn
    <2>8. CreateAt(h, id)' = {last}
      <3> HIDE DEF msg
      <3>1. last \in CreateAt(h, id)'
        BY <2>1, <2>4 DEF CreateAt
      <3>2. ASSUME NEW i \in CreateAt(h, id)', i # last PROVE FALSE
        <4>1. i \in 1 .. Len(agentBox[h]) /\ agentBox'[h][i] = agentBox[h][i]
          BY <2>4, <3>2 DEF CreateAt
        <4>2. i \in CreateAt(h, id)
          BY <3>2, <4>1 DEF CreateAt
        <4> QED BY <2>7, <4>2
      <3> QED BY <3>1, <3>2
    <2>9. \A n \in Gid \ {id} : CreateAt(h, n)' = CreateAt(h, n)
      BY <2>1, <2>4 DEF CreateAt
    <2>10. \A k \in Harbor, n \in Gid : k # h \/ n # id => CreateAt(k, n)' = CreateAt(k, n)
      BY <2>4, <2>9, BoxStays
    <2>11. ASSUME NEW n \in Gid, NEW l \in Harbor, NEW i \in AgentAt(h, n, l)
           PROVE  i \in AgentAt(h, n, l)'
      BY <2>4 DEF AgentAt
    <2>12. \A k, l \in Harbor, n \in Gid : AgentAt(k, n, l) # {} => AgentAt(k, n, l)' # {}
      BY <2>4, <2>11, BoxStays
    <2>13. CreatedOnce'
      <3>1. ASSUME NEW k \in Harbor, NEW n \in Gid PROVE CreatedOnceIn(k, n)'
        <4>1. CASE k = h /\ n = id
          BY <2>2, <2>6, <2>7, <2>8, <4>1 DEF CreatedOnceIn
        <4>2. CASE k # h \/ n # id
          <5>1. g'[n][k] = g[n][k] /\ CreateAt(k, n)' = CreateAt(k, n) /\ CreatedOnceIn(k, n)
            BY <2>6, <2>10, <4>2 DEF ManagerInv, CreatedOnce
          <5> QED BY <2>2, <5>1 DEF CreatedOnceIn
        <4> QED BY <4>1, <4>2
      <3> QED BY <3>1 DEF CreatedOnce
    <2>14. TunnelsOnTheirWay'
      BY <2>2, <2>6, <2>12 DEF ManagerInv, TunnelsOnTheirWay
    <2> QED BY <2>5, <2>13, <2>14 DEF ManagerInv
  <1> QED BY <1>1, <1>2

LEMMA LeaveKeeps ==
    ASSUME ManagerInv, NEW h \in Harbor, NEW id \in Gid, Leave(h, id)
    PROVE  ManagerInv'
  <1>1. ToAgent("LEAVE", id, h) \in Message /\ ToAgent("LEAVE", id, h).cmd # "CREATE"
    BY DEF ToAgent, Message
  <1> QED BY <1>1, OtherMessage DEF Leave

(* The manager's own tables.                                               *)
LEMMA StepTables ==
    ASSUME ManagerInv, NewGroup \/ (\E h \in Harbor : Master(h)) \/ (\E id \in Gid : Delete(id))
    PROVE  ManagerInv'
  <1>1. /\ harborCtrl \subseteq harborCtrl' /\ harborCtrl' \subseteq Harbor /\ multicast' \subseteq Gid
        /\ UNCHANGED <<g, created, agentBox, group, tunnel>>
    BY DEF NewGroup, Master, Delete, ManagerInv, ManagerTypeOK
  <1>2. ManagerTypeOK'
    BY <1>1 DEF ManagerInv, ManagerTypeOK
  <1>3. \A h : agentBox'[h] = agentBox[h]
    BY <1>1
  <1>4. \A h, id : CreateAt(h, id)' = CreateAt(h, id) /\ \A k : AgentAt(h, id, k)' = AgentAt(h, id, k)
    BY <1>3, BoxStays
  <1>5. CreatedOnce'
    <2>1. ASSUME NEW k \in Harbor, NEW n \in Gid PROVE CreatedOnceIn(k, n)'
      BY <1>1, <1>4 DEF ManagerInv, CreatedOnce, CreatedOnceIn
    <2> QED BY <2>1 DEF CreatedOnce
  <1>6. TunnelsOnTheirWay'
    BY <1>1, <1>4 DEF ManagerInv, TunnelsOnTheirWay
  <1> QED BY <1>2, <1>5, <1>6 DEF ManagerInv

LEMMA AppendLast ==
    ASSUME NEW s \in Seq(Message), NEW t \in Seq(Message), NEW e \in Message
    PROVE  Append(s \o t, e) = s \o Append(t, e)
  OBVIOUS

(* A harbor has its group: it hears of all others, and they hear of it.    *)
LEMMA StepCreated == ManagerAssumption /\ ManagerInv /\ GroupCreated => ManagerInv'
  <1> SUFFICES ASSUME ManagerAssumption, ManagerInv, GroupCreated PROVE ManagerInv'
    OBVIOUS
  <1>1. PICK c \in created :
          /\ created' = created \ {c}
          /\ \E order \in Orders({k \in Harbor : g[c.id][k] = "mc"}) :
               agentBox' = [k \in Harbor |->
                  IF k = c.harbor
                  THEN Append(agentBox[c.harbor] \o [i \in DOMAIN order |-> ToAgent("AGENT", c.id, order[i])],
                              ToAgent("ENTER", c.id, c.harbor))
                  ELSE IF k \in AgentsTold(c.harbor, c.id)
                       THEN Append(agentBox[k], ToAgent("AGENT", c.id, c.harbor))
                       ELSE agentBox[k]]
          /\ g' = [g EXCEPT ![c.id][c.harbor] = "mc"]
          /\ UNCHANGED <<left, harborCtrl, lastId, multicast, group, tunnel, joined>>
    BY DEF GroupCreated
  <1> DEFINE h == c.harbor
             id == c.id
             done == {k \in Harbor : g[id][k] = "mc"}
  <1>2. PICK order \in Orders(done) :
          agentBox' = [k \in Harbor |->
             IF k = h THEN Append(agentBox[h] \o [i \in DOMAIN order |-> ToAgent("AGENT", id, order[i])],
                                  ToAgent("ENTER", id, h))
             ELSE IF k \in AgentsTold(h, id) THEN Append(agentBox[k], ToAgent("AGENT", id, h))
             ELSE agentBox[k]]
    BY <1>1
  <1>3. h \in Harbor /\ id \in Gid /\ c = [harbor |-> h, id |-> id]
    BY DEF ManagerInv, ManagerTypeOK
  <1>4. g[id][h] = "false" /\ id \in group[h] /\ h \notin done
    BY <1>3 DEF ManagerInv, CreatedOnce, CreatedOnceIn
  <1> DEFINE n == Cardinality(done)
             agents == [i \in 1 .. n |-> ToAgent("AGENT", id, order[i])]
             enter == ToAgent("ENTER", id, h)
  <1>5. n \in Nat
    BY FS_Subset, FS_CardinalityType DEF ManagerAssumption
  <1>6. /\ order \in [1 .. n -> done] /\ \A k \in done : \E i \in 1 .. n : order[i] = k
    BY DEF Orders
  <1>7. agents \in Seq(Message) /\ Len(agents) = n
    <2>1. agents \in [1 .. n -> Message]
      BY <1>3, <1>6 DEF ToAgent, Message
    <2> HIDE DEF agents, n
    <2> QED BY <1>5, <2>1
  <1> DEFINE news == Append(agents, enter)
  <1>8. /\ news \in Seq(Message)
        /\ \A i \in 1 .. Len(news) : news[i].cmd # "CREATE"
        /\ \A k \in done : \E i \in 1 .. Len(news) : news[i] = ToAgent("AGENT", id, k)
    <2>1. enter \in Message /\ enter.cmd # "CREATE"
      BY <1>3 DEF ToAgent, Message
    <2>2. /\ \A i \in 1 .. n : news[i] = ToAgent("AGENT", id, order[i])
          /\ Len(news) = n + 1 /\ news[n + 1] = enter
      BY <1>5, <1>7
    <2>3. news \in Seq(Message)
      BY <1>7, <2>1
    <2>4. \A i \in 1 .. Len(news) : news[i].cmd # "CREATE"
      BY <1>5, <2>1, <2>2 DEF ToAgent
    <2> HIDE DEF news, agents
    <2>5. \A k \in done : \E i \in 1 .. Len(news) : news[i] = ToAgent("AGENT", id, k)
      <3>1. ASSUME NEW k \in done PROVE \E i \in 1 .. Len(news) : news[i] = ToAgent("AGENT", id, k)
        <4>1. PICK i \in 1 .. n : order[i] = k
          BY <1>6
        <4>2. i \in 1 .. Len(news) /\ news[i] = ToAgent("AGENT", id, k)
          BY <1>5, <2>2, <4>1
        <4> QED BY <4>2
      <3> QED BY <3>1
    <2> QED BY <2>3, <2>4, <2>5
  <1>9. agentBox \in [Harbor -> Seq(Message)] /\ ManagerTypeOK
    BY DEF ManagerInv, ManagerTypeOK
  <1>10. /\ agentBox'[h] = agentBox[h] \o news
         /\ \A k \in Harbor \ {h} :
               agentBox'[k] = agentBox[k] \/ agentBox'[k] = agentBox[k] \o <<ToAgent("AGENT", id, h)>>
         /\ \A k \in harborCtrl \ {h} : agentBox'[k] = agentBox[k] \o <<ToAgent("AGENT", id, h)>>
         /\ agentBox' = [k \in Harbor |-> agentBox'[k]]
    <2>1. ToAgent("AGENT", id, h) \in Message
      BY <1>3 DEF ToAgent, Message
    <2>2. \A k \in Harbor : Append(agentBox[k], ToAgent("AGENT", id, h)) = agentBox[k] \o <<ToAgent("AGENT", id, h)>>
      BY <1>9, <2>1
    <2>3. Append(agentBox[h] \o agents, enter) = agentBox[h] \o news
      <3>1. enter \in Message /\ agentBox[h] \in Seq(Message)
        BY <1>3, <1>9 DEF ToAgent, Message
      <3>2. agents \in Seq(Message)
        BY <1>7
      <3> HIDE DEF agents, enter, h
      <3>3. Append(agentBox[h] \o agents, enter) = agentBox[h] \o Append(agents, enter)
        BY <3>1, <3>2, AppendLast
      <3> QED BY <3>3
    <2>4. DOMAIN order = 1 .. n
      BY <1>6
    <2>5. agentBox' = [k \in Harbor |->
             IF k = h THEN agentBox[h] \o news
             ELSE IF k \in harborCtrl \ {h} THEN agentBox[k] \o <<ToAgent("AGENT", id, h)>>
             ELSE agentBox[k]]
      BY <1>2, <2>2, <2>3, <2>4 DEF AgentsTold
    <2> QED BY <1>3, <1>9, <2>5 DEF ManagerTypeOK
  <1> HIDE DEF news, agents, enter
  <1>11. /\ g'[id][h] = "mc"
         /\ \A k \in Harbor, j \in Gid : k # h \/ j # id => g'[j][k] = g[j][k]
         /\ g' \in [Gid -> [Harbor -> {"nil", "false", "mc"}]]
    BY <1>1, <1>3, <1>9 DEF ManagerTypeOK
  <1>12. /\ agentBox'[h] \in Seq(Message)
         /\ \A j \in Gid : CreateAt(h, j)' = CreateAt(h, j)
         /\ \A j \in Gid, k \in Harbor : AgentAt(h, j, k) # {} => AgentAt(h, j, k)' # {}
    BY <1>3, <1>8, <1>9, <1>10, BoxGrows
  <1>13. ASSUME NEW k \in Harbor \ {h}
         PROVE  /\ agentBox'[k] \in Seq(Message)
                /\ \A j \in Gid : CreateAt(k, j)' = CreateAt(k, j)
                /\ \A j \in Gid, l \in Harbor : AgentAt(k, j, l) # {} => AgentAt(k, j, l)' # {}
    <2>1. CASE agentBox'[k] = agentBox[k]
      BY <1>9, <2>1, BoxStays
    <2>2. CASE agentBox'[k] = agentBox[k] \o <<ToAgent("AGENT", id, h)>>
      <3> DEFINE new == <<ToAgent("AGENT", id, h)>>
      <3>1. new \in Seq(Message) /\ \A i \in 1 .. Len(new) : new[i].cmd # "CREATE"
        BY <1>3 DEF ToAgent, Message
      <3> HIDE DEF new
      <3> QED BY <1>9, <2>2, <3>1, BoxGrows DEF new
    <2> QED BY <1>10, <2>1, <2>2
  <1>14. ManagerTypeOK'
    <2>1. \A k \in Harbor : agentBox'[k] \in Seq(Message)
      BY <1>12, <1>13
    <2>2. agentBox' \in [Harbor -> Seq(Message)]
      BY <1>10, <2>1
    <2> QED BY <1>1, <1>9, <1>11, <2>2 DEF ManagerTypeOK
  <1>15. CreatedOnce'
    <2>1. ASSUME NEW k \in Harbor, NEW j \in Gid PROVE CreatedOnceIn(k, j)'
      <3>1. CreateAt(k, j)' = CreateAt(k, j) /\ CreatedOnceIn(k, j)
        BY <1>12, <1>13 DEF ManagerInv, CreatedOnce
      <3>2. CASE k = h /\ j = id
        BY <1>1, <1>3, <1>4, <1>11, <3>1, <3>2 DEF CreatedOnceIn
      <3>3. CASE k # h \/ j # id
        <4>1. g'[j][k] = g[j][k] /\ ([harbor |-> k, id |-> j] \in created' <=> [harbor |-> k, id |-> j] \in created)
          BY <1>1, <1>3, <1>11, <3>3
        <4> QED BY <1>1, <3>1, <4>1 DEF CreatedOnceIn
      <3> QED BY <3>2, <3>3
    <2> QED BY <2>1 DEF CreatedOnce
  <1>16. ASSUME NEW k \in done PROVE AgentAt(h, id, k)' # {} /\ AgentAt(k, id, h)' # {}
    <2>1. PICK i \in 1 .. Len(news) : news[i] = ToAgent("AGENT", id, k)
      BY <1>8
    <2>2. /\ Len(agentBox[h]) \in Nat /\ Len(news) \in Nat
          /\ Len(agentBox[h]) + i \in 1 .. Len(agentBox'[h])
          /\ agentBox'[h][Len(agentBox[h]) + i] = news[i]
      BY <1>3, <1>8, <1>9, <1>10
    <2>3. AgentAt(h, id, k)' # {}
      BY <2>1, <2>2 DEF AgentAt
    <2>4. k \in harborCtrl \ {h}
      BY <1>3, <1>4 DEF ManagerInv, CreatedOnce, CreatedOnceIn
    <2>5. agentBox'[k] = agentBox[k] \o <<ToAgent("AGENT", id, h)>> /\ agentBox[k] \in Seq(Message)
      BY <1>9, <1>10, <2>4
    <2>6. /\ ToAgent("AGENT", id, h) \in Message
      BY <1>3 DEF ToAgent, Message
    <2>7. /\ Len(agentBox[k]) + 1 \in 1 .. Len(agentBox'[k])
          /\ agentBox'[k][Len(agentBox[k]) + 1] = ToAgent("AGENT", id, h)
      BY <2>5, <2>6
    <2>8. AgentAt(k, id, h)' # {}
      BY <2>7 DEF AgentAt
    <2> QED BY <2>3, <2>8
  <1>17. TunnelsOnTheirWay'
    <2>1. ASSUME NEW k \in Harbor, NEW l \in Harbor, NEW j \in Gid,
                 k # l, g'[j][k] = "mc", g'[j][l] = "mc"
          PROVE  (\E i \in 1 .. Len(tunnel[k][j]) : tunnel[k][j][i] = l) \/ AgentAt(k, j, l)' # {}
      <3>1. CASE j = id /\ k = h
        BY <1>3, <1>11, <1>16, <2>1, <3>1
      <3>2. CASE j = id /\ l = h
        BY <1>3, <1>11, <1>16, <2>1, <3>2
      <3>3. CASE ~(j = id /\ k = h) /\ ~(j = id /\ l = h)
        <4>1. g[j][k] = "mc" /\ g[j][l] = "mc"
          BY <1>11, <2>1, <3>3
        <4>2. (\E i \in 1 .. Len(tunnel[k][j]) : tunnel[k][j][i] = l) \/ AgentAt(k, j, l) # {}
          BY <2>1, <4>1 DEF ManagerInv, TunnelsOnTheirWay
        <4>3. AgentAt(k, j, l) # {} => AgentAt(k, j, l)' # {}
          BY <1>12, <1>13
        <4> QED BY <4>2, <4>3
      <3> QED BY <3>1, <3>2, <3>3
    <2> QED BY <1>1, <2>1 DEF TunnelsOnTheirWay
  <1> QED BY <1>14, <1>15, <1>17 DEF ManagerInv

(* An agent does a command.  CREATE is answered unless the group is there  *)
(* already, and that cannot be.                                            *)
LEMMA StepCommand ==
    ASSUME ManagerInv, NEW h \in Harbor, AgentCommand(h)
    PROVE  ManagerInv'
  <1> DEFINE mail == agentBox[h]
             msg == Head(mail)
  <1>1. ManagerTypeOK /\ CreatedOnce /\ TunnelsOnTheirWay
    BY DEF ManagerInv
  <1>2. /\ mail # <<>> /\ agentBox' = [agentBox EXCEPT ![h] = Tail(mail)]
        /\ UNCHANGED <<harborCtrl, multicast, g>>
        /\ \/ /\ msg.cmd = "CREATE"
              /\ group' = [group EXCEPT ![h] = group[h] \cup {msg.id}]
              /\ created' = IF msg.id \in group[h] THEN created
                            ELSE created \cup {[harbor |-> h, id |-> msg.id]}
              /\ UNCHANGED tunnel
           \/ /\ msg.cmd = "AGENT"
              /\ tunnel' = [tunnel EXCEPT ![h][msg.id] = Append(tunnel[h][msg.id], msg.of)]
              /\ UNCHANGED <<group, created>>
           \/ /\ msg.cmd \in {"ENTER", "LEAVE"}
              /\ UNCHANGED <<group, created, tunnel>>
    <2>1. AgentCommand(h)
      OBVIOUS
    <2>2. group[h] \cup {msg.id} = group[h] \cup {msg.id} /\ tunnel \in [Harbor -> [Gid -> Seq(Harbor)]]
      BY <1>1 DEF ManagerTypeOK
    <2> QED BY <2>1, <2>2, Zenon DEF AgentCommand
  <1>3. /\ msg \in Message /\ msg = mail[1] /\ msg.id \in Gid /\ msg.of \in Harbor
        /\ msg.cmd \in {"CREATE", "AGENT", "ENTER", "LEAVE"}
        /\ Len(mail) \in Nat /\ Len(mail) >= 1 /\ Tail(mail) \in Seq(Message)
        /\ Len(Tail(mail)) = Len(mail) - 1
        /\ \A i \in 1 .. Len(mail) - 1 : Tail(mail)[i] = mail[i + 1]
    <2>1. mail \in Seq(Message)
      BY <1>1 DEF ManagerTypeOK
    <2> HIDE DEF mail
    <2>2. /\ Len(mail) \in Nat /\ Len(mail) >= 1 /\ Head(mail) = mail[1] /\ mail[1] \in Message
          /\ Tail(mail) \in Seq(Message) /\ Len(Tail(mail)) = Len(mail) - 1
          /\ \A i \in 1 .. Len(mail) - 1 : Tail(mail)[i] = mail[i + 1]
      BY <1>2, <2>1
    <2>3. msg \in Message
      BY <2>2
    <2> HIDE DEF msg
    <2>4. msg.id \in Gid /\ msg.of \in Harbor /\ msg.cmd \in {"CREATE", "AGENT", "ENTER", "LEAVE"}
      BY <2>3 DEF Message
    <2> QED BY <2>2, <2>3, <2>4 DEF msg
  <1>4. /\ agentBox' \in [Harbor -> Seq(Message)] /\ agentBox'[h] = Tail(mail)
        /\ \A k \in Harbor \ {h} : agentBox'[k] = agentBox[k]
    BY <1>1, <1>2, <1>3 DEF ManagerTypeOK
  <1> HIDE DEF msg
  <1>5. ASSUME NEW id \in Gid
        PROVE  /\ \A i \in CreateAt(h, id)' : i + 1 \in CreateAt(h, id)
               /\ \A i \in CreateAt(h, id) : i # 1 => i - 1 \in CreateAt(h, id)'
               /\ 1 \in CreateAt(h, id) <=> msg.cmd = "CREATE" /\ msg.id = id
               /\ CreateAt(h, id) \subseteq Int /\ CreateAt(h, id)' \subseteq Nat \ {0}
    BY <1>3, <1>4 DEF CreateAt
  <1>6. ASSUME NEW id \in Gid, NEW l \in Harbor
        PROVE  /\ \A i \in AgentAt(h, id, l) : i # 1 => i - 1 \in AgentAt(h, id, l)'
               /\ 1 \in AgentAt(h, id, l) => msg = ToAgent("AGENT", id, l)
    BY <1>3, <1>4 DEF AgentAt
  <1>7. /\ \A k \in Harbor \ {h}, id \in Gid : CreateAt(k, id)' = CreateAt(k, id)
        /\ \A k \in Harbor \ {h}, id \in Gid, l \in Harbor : AgentAt(k, id, l)' = AgentAt(k, id, l)
    BY <1>4, BoxStays
  <1>8. CASE msg.cmd = "CREATE"
    <2> PICK id \in Gid : id = msg.id
      BY <1>3
    <2>1. CreatedOnceIn(h, id) /\ 1 \in CreateAt(h, id)
      BY <1>1, <1>5, <1>8 DEF CreatedOnce
    <2>2. /\ id \notin group[h] /\ g[id][h] = "false" /\ \A i \in CreateAt(h, id) : i = 1
      BY <2>1 DEF CreatedOnceIn
    <2>3. /\ group' = [group EXCEPT ![h] = group[h] \cup {id}]
          /\ created' = created \cup {[harbor |-> h, id |-> id]}
          /\ UNCHANGED tunnel
      BY <1>2, <1>8, <2>2
    <2>4. CreateAt(h, id)' = {}
      <3>1. /\ \A i \in CreateAt(h, id)' : i + 1 \in CreateAt(h, id)
            /\ CreateAt(h, id)' \subseteq Nat \ {0}
        BY <1>5
      <3>2. \A i \in CreateAt(h, id)' : i + 1 = 1 /\ i \in Nat \ {0}
        BY <2>2, <3>1
      <3> QED BY <3>2
    <2>5. ManagerTypeOK'
      BY <1>1, <1>2, <1>3, <1>4, <2>3 DEF ManagerTypeOK
    <2>6. ASSUME NEW k \in Harbor, NEW i \in Gid PROVE CreatedOnceIn(k, i)'
      <3>1. CASE k = h /\ i = id
        <4>1. g[id][h] # "nil" => h \in harborCtrl
          BY <2>1 DEF CreatedOnceIn
        <4>2. id \in group'[h] /\ [harbor |-> h, id |-> id] \in created'
          BY <1>1, <2>3 DEF ManagerTypeOK
        <4>3. UNCHANGED <<harborCtrl, g>>
          BY <1>2
        <4>4. CreatedOnceIn(h, id)'
          <5> QED BY <2>2, <2>4, <4>1, <4>2, <4>3 DEF CreatedOnceIn
        <4> QED BY <3>1, <4>4
      <3>2. CASE k # h \/ i # id
        <4>1. /\ i \in group'[k] <=> i \in group[k]
              /\ [harbor |-> k, id |-> i] \in created' <=> [harbor |-> k, id |-> i] \in created
          BY <1>1, <2>3, <3>2 DEF ManagerTypeOK
        <4>2. CreatedOnceIn(k, i)
          BY <1>1 DEF CreatedOnce
        <4>3. CASE k # h
          <5>1. CreateAt(k, i)' = CreateAt(k, i)
            BY <1>7, <4>3
          <5> QED BY <1>2, <4>1, <4>2, <5>1 DEF CreatedOnceIn
        <4>4. CASE k = h /\ i # id
          <5>1. /\ \A j \in CreateAt(h, i)' : j + 1 \in CreateAt(h, i)
                /\ \A j \in CreateAt(h, i) : j - 1 \in CreateAt(h, i)'
                /\ CreateAt(h, i)' \subseteq Nat \ {0}
            BY <1>5, <4>4
          <5> QED BY <1>2, <4>1, <4>2, <4>4, <5>1 DEF CreatedOnceIn
        <4> QED BY <3>2, <4>3, <4>4
      <3> QED BY <3>1, <3>2
    <2>7. ASSUME NEW k \in Harbor, NEW l \in Harbor, NEW i \in Gid, AgentAt(k, i, l) # {}
          PROVE  AgentAt(k, i, l)' # {}
      <3>1. CASE k # h
        BY <1>7, <2>7, <3>1
      <3>2. CASE k = h
        <4>1. 1 \notin AgentAt(h, i, l)
          BY <1>6, <1>8 DEF ToAgent
        <4> QED BY <1>6, <2>7, <3>2, <4>1
      <3> QED BY <3>1, <3>2
    <2>8. TunnelsOnTheirWay'
      BY <1>1, <1>2, <2>3, <2>7 DEF TunnelsOnTheirWay
    <2> QED BY <2>5, <2>6, <2>8 DEF ManagerInv, CreatedOnce
  <1>9. CASE msg.cmd # "CREATE"
    <2>1. UNCHANGED <<group, created>>
      BY <1>2, <1>9
    <2>2. ASSUME NEW k \in Harbor, NEW i \in Gid PROVE CreatedOnceIn(k, i)'
      <3>1. CreatedOnceIn(k, i)
        BY <1>1 DEF CreatedOnce
      <3>2. CASE k # h
        <4>1. CreateAt(k, i)' = CreateAt(k, i)
          BY <1>7, <3>2
        <4> QED BY <1>2, <2>1, <3>1, <4>1 DEF CreatedOnceIn
      <3>3. CASE k = h
        <4>1. /\ \A j \in CreateAt(h, i)' : j + 1 \in CreateAt(h, i)
              /\ \A j \in CreateAt(h, i) : j - 1 \in CreateAt(h, i)'
              /\ CreateAt(h, i)' \subseteq Nat \ {0}
          BY <1>5, <1>9
        <4> QED BY <1>2, <2>1, <3>1, <3>3, <4>1 DEF CreatedOnceIn
      <3> QED BY <3>2, <3>3
    <2>3. CASE msg.cmd = "AGENT"
      <3>1. tunnel' = [tunnel EXCEPT ![h][msg.id] = Append(tunnel[h][msg.id], msg.of)]
        BY <1>2, <2>3
      <3>2. tunnel \in [Harbor -> [Gid -> Seq(Harbor)]]
        BY <1>1 DEF ManagerTypeOK
      <3> DEFINE old == tunnel[h][msg.id]
      <3>3. /\ old \in Seq(Harbor) /\ tunnel'[h][msg.id] = Append(old, msg.of)
            /\ \A k \in Harbor, i \in Gid : k # h \/ i # msg.id => tunnel'[k][i] = tunnel[k][i]
            /\ tunnel' \in [Harbor -> [Gid -> Seq(Harbor)]]
        <4>1. old \in Seq(Harbor) /\ Append(old, msg.of) \in Seq(Harbor)
          BY <1>3, <3>2
        <4> DEFINE new == Append(old, msg.of)
        <4>2. new \in Seq(Harbor) /\ tunnel' = [tunnel EXCEPT ![h][msg.id] = new]
          BY <3>1, <4>1
        <4> HIDE DEF new
        <4>3. /\ tunnel'[h][msg.id] = new
              /\ \A k \in Harbor, i \in Gid : k # h \/ i # msg.id => tunnel'[k][i] = tunnel[k][i]
              /\ tunnel' \in [Harbor -> [Gid -> Seq(Harbor)]]
          BY <1>3, <3>2, <4>2
        <4> QED BY <4>1, <4>3 DEF new
      <3>4. /\ Len(old) \in Nat /\ Len(Append(old, msg.of)) = Len(old) + 1
            /\ Append(old, msg.of)[Len(old) + 1] = msg.of
            /\ \A j \in 1 .. Len(old) : Append(old, msg.of)[j] = old[j]
        <4>1. old \in Seq(Harbor) /\ msg.of \in Harbor
          BY <1>3, <3>2
        <4> HIDE DEF old
        <4> QED BY <4>1
      <3>5. ManagerTypeOK'
        BY <1>1, <1>2, <1>4, <2>1, <3>3 DEF ManagerTypeOK
      <3>6. ASSUME NEW k \in Harbor, NEW l \in Harbor, NEW i \in Gid,
                   (\E j \in 1 .. Len(tunnel[k][i]) : tunnel[k][i][j] = l) \/ AgentAt(k, i, l) # {}
            PROVE  (\E j \in 1 .. Len(tunnel'[k][i]) : tunnel'[k][i][j] = l) \/ AgentAt(k, i, l)' # {}
        <4>1. CASE \E j \in 1 .. Len(tunnel[k][i]) : tunnel[k][i][j] = l
          <5>1. CASE k = h /\ i = msg.id
            <6>1. PICK j \in 1 .. Len(old) : old[j] = l
              BY <4>1, <5>1
            <6>2. tunnel'[k][i] = Append(old, msg.of)
              BY <3>3, <5>1
            <6> HIDE DEF old
            <6>3. j \in 1 .. Len(tunnel'[k][i]) /\ tunnel'[k][i][j] = l
              BY <3>4, <6>1, <6>2
            <6> QED BY <6>3
          <5>2. CASE k # h \/ i # msg.id
            BY <3>3, <4>1, <5>2
          <5> QED BY <5>1, <5>2
        <4>2. CASE AgentAt(k, i, l) # {} /\ k # h
          BY <1>7, <4>2
        <4>3. CASE AgentAt(k, i, l) # {} /\ k = h /\ 1 \notin AgentAt(h, i, l)
          BY <1>6, <4>3
        <4>4. CASE k = h /\ 1 \in AgentAt(h, i, l)
          <5>1. msg.id = i /\ msg.of = l
            BY <1>6, <4>4 DEF ToAgent
          <5>2. Len(old) + 1 \in 1 .. Len(tunnel'[k][i]) /\ tunnel'[k][i][Len(old) + 1] = l
            BY <3>3, <3>4, <4>4, <5>1
          <5> QED BY <5>2
        <4> QED BY <3>6, <4>1, <4>2, <4>3, <4>4
      <3>7. TunnelsOnTheirWay'
        BY <1>1, <1>2, <3>6 DEF TunnelsOnTheirWay
      <3> QED BY <2>2, <3>5, <3>7 DEF ManagerInv, CreatedOnce
    <2>4. CASE msg.cmd # "AGENT"
      <3>1. UNCHANGED tunnel
        BY <1>2, <1>9, <2>4
      <3>2. ManagerTypeOK'
        BY <1>1, <1>2, <1>4, <2>1, <3>1 DEF ManagerTypeOK
      <3>3. ASSUME NEW k \in Harbor, NEW l \in Harbor, NEW i \in Gid, AgentAt(k, i, l) # {}
            PROVE  AgentAt(k, i, l)' # {}
        <4>1. CASE k # h
          BY <1>7, <3>3, <4>1
        <4>2. CASE k = h
          <5>1. 1 \notin AgentAt(h, i, l)
            BY <1>6, <2>4 DEF ToAgent
          <5> QED BY <1>6, <3>3, <4>2, <5>1
        <4> QED BY <4>1, <4>2
      <3>4. TunnelsOnTheirWay'
        BY <1>1, <1>2, <3>1, <3>3 DEF TunnelsOnTheirWay
      <3> QED BY <2>2, <3>2, <3>4 DEF ManagerInv, CreatedOnce
    <2> QED BY <2>3, <2>4
  <1> QED BY <1>8, <1>9

LEMMA ManagerStep ==
    ManagerAssumption /\ ManagerInv /\ (GroupManagerNext \/ UNCHANGED groupManagerVars) => ManagerInv'
  <1> SUFFICES ASSUME ManagerAssumption, ManagerInv, GroupManagerNext \/ UNCHANGED groupManagerVars PROVE ManagerInv'
    OBVIOUS
  <1>1. CASE GroupManagerNext
    BY <1>1, StepCreated, StepCommand, EnterKeeps, LeaveKeeps, StepTables DEF GroupManagerNext
  <1>2. CASE UNCHANGED groupManagerVars
    <2>1. /\ \A h : agentBox'[h] = agentBox[h]
          /\ UNCHANGED <<harborCtrl, multicast, g, created, agentBox, group, tunnel>>
      BY <1>2 DEF groupManagerVars
    <2>2. \A h, id : CreateAt(h, id)' = CreateAt(h, id) /\ \A k : AgentAt(h, id, k)' = AgentAt(h, id, k)
      BY <2>1, BoxStays
    <2>3. ManagerTypeOK'
      BY <2>1 DEF ManagerInv, ManagerTypeOK
    <2>4. ASSUME NEW k \in Harbor, NEW id \in Gid PROVE CreatedOnceIn(k, id)'
      BY <2>1, <2>2 DEF ManagerInv, CreatedOnce, CreatedOnceIn
    <2>5. TunnelsOnTheirWay'
      BY <2>1, <2>2 DEF ManagerInv, TunnelsOnTheirWay
    <2> QED BY <2>3, <2>4, <2>5 DEF ManagerInv, CreatedOnce
  <1> QED BY <1>1, <1>2

(* When every mailbox is empty and no answer is on its way, there is       *)
(* nothing that a group or a tunnel could still wait for.                  *)
LEMMA Arrived == ManagerInv => TunnelsComplete
  <1> SUFFICES ASSUME ManagerInv, created = {}, \A h \in Harbor : agentBox[h] = <<>>
               PROVE  \A id \in Gid : \A h \in Harbor :
                         /\ g[id][h] # "false"
                         /\ \A k \in Harbor \ {h} : g[id][h] = "mc" /\ g[id][k] = "mc" =>
                               \E i \in 1 .. Len(tunnel[h][id]) : tunnel[h][id][i] = k
    BY DEF TunnelsComplete
  <1>1. \A h \in Harbor, id \in Gid : CreateAt(h, id) = {} /\ \A k : AgentAt(h, id, k) = {}
    BY DEF CreateAt, AgentAt
  <1>2. \A h \in Harbor, id \in Gid : g[id][h] # "false"
    BY <1>1 DEF ManagerInv, CreatedOnce, CreatedOnceIn
  <1> QED BY <1>1, <1>2 DEF ManagerInv, TunnelsOnTheirWay
=============================================================================
