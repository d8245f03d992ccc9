------------------------------ MODULE TimerProofs ------------------------------
(***************************************************************************)
(* Proofs about the timing wheel: every timeout is dispatched once, in its *)
(* tick, and in the order in which services asked for it.                  *)
(***************************************************************************)
EXTENDS TimerWheel, Induction, SequenceTheorems, TLAPS

(* A level's stretches are TIME_LEVEL stretches of the level below.        *)
LEMMA Sizes ==
    ASSUME WheelAssumption
    PROVE  /\ \A i \in 0 .. LEVELS : Size(i) \in Nat /\ Size(i) > 0
           /\ \A i \in 0 .. LEVELS - 1 : Size(i + 1) = Size(i) * TIME_LEVEL
           /\ Size(0) = TIME_NEAR /\ Size(LEVELS) = WIDTH
<1> DEFINE L == TIME_LEVEL
           P == <<1, L, L * L, L * L * L, L * L * L * L>>
<1>1. L \in Nat /\ L > 0 /\ TIME_NEAR \in Nat /\ TIME_NEAR > 0
  BY DEF WheelAssumption
<1> HIDE DEF L
<1>2. /\ P[1] = 1 /\ P[2] = L /\ P[3] = L * L /\ P[4] = L * L * L /\ P[5] = L * L * L * L
  OBVIOUS
<1>3. \A a, b \in Nat : a > 0 /\ b > 0 => a * b \in Nat /\ a * b > 0
  OBVIOUS
<1> HIDE DEF P
<1>4. L * L \in Nat /\ L * L > 0
  BY <1>1, <1>3
<1>5. L * L * L \in Nat /\ L * L * L > 0
  BY <1>1, <1>3, <1>4
<1>6. L * L * L * L \in Nat /\ L * L * L * L > 0
  BY <1>1, <1>3, <1>5
<1>7. \A i \in 0 .. 4 : P[i + 1] \in Nat /\ P[i + 1] > 0
  BY <1>1, <1>2, <1>4, <1>5, <1>6
<1>8. \A i \in 0 .. 3 : P[i + 2] = P[i + 1] * L
  BY <1>1, <1>2
<1>9. \A i : Size(i) = TIME_NEAR * P[i + 1]
  BY DEF Size, P, L
<1>10. \A i \in 0 .. 4 : Size(i) \in Nat /\ Size(i) > 0
  BY <1>1, <1>3, <1>7, <1>9
<1>11. \A a, b, c \in Nat : a * (b * c) = a * b * c
  OBVIOUS
<1>12. ASSUME NEW i \in 0 .. 3 PROVE Size(i + 1) = Size(i) * L
  <2>1. P[i + 1] \in Nat /\ (i + 1) + 1 = i + 2
    BY <1>7
  <2> QED BY <1>1, <1>8, <1>9, <1>11, <2>1
<1>13. Size(0) = TIME_NEAR
  BY <1>1, <1>2, <1>9
<1> QED BY <1>10, <1>12, <1>13 DEF LEVELS, WIDTH, L

-----------------------------------------------------------------------------
(* Quotients.                                                              *)

(* Every number is so many times b and a rest.                             *)
LEMMA Parts ==
    ASSUME NEW b \in Nat, b > 0, NEW a \in Nat
    PROVE  \E q \in Nat, r \in 0 .. b - 1 : a = q * b + r /\ q = a \div b /\ r = a % b
<1>1. PICK q \in Int, r \in Int : a = q * b + r /\ r = a % b /\ q = a \div b /\ 0 <= r /\ r < b
  BY Quotient
<1>2. q >= 0
  <2>1. SUFFICES ASSUME q <= -1 PROVE FALSE
    BY <1>1
  <2>2. q * b <= -b
    BY <2>1
  <2> QED BY <1>1, <2>2
<1>3. q \in Nat /\ r \in 0 .. b - 1
  BY <1>1, <1>2
<1> QED BY <1>1, <1>3

(* Quotient and rest are the only ones.                                    *)
LEMMA QuotientIs ==
    ASSUME NEW b \in Nat, b > 0, NEW q \in Nat, NEW r \in 0 .. b - 1
    PROVE  (q * b + r) \div b = q /\ (q * b + r) % b = r
<1>1. PICK a \in Nat : a = q * b + r
  <2>1. q * b \in Nat
    OBVIOUS
  <2> QED BY <2>1
<1>2. PICK p \in Nat, s \in 0 .. b - 1 : a = p * b + s /\ p = a \div b /\ s = a % b
  BY Parts
<1>5. q * b + r = p * b + s
  BY <1>1, <1>2
<1>6. ASSUME NEW x \in Nat, NEW y \in Nat, x < y PROVE x * b + b <= y * b
  <2>1. PICK d \in Nat : y = x + 1 + d
    <3>1. y - x - 1 \in Nat /\ y = x + 1 + (y - x - 1)
      BY <1>6
    <3> QED BY <3>1
  <2>2. y * b = x * b + b + d * b /\ d * b \in Nat
    BY <2>1
  <2> QED BY <2>2
<1>7. p = q
  <2>1. ~(p < q)
    <3>1. SUFFICES ASSUME p < q PROVE FALSE
      OBVIOUS
    <3>2. p * b + b <= q * b
      BY <1>6, <3>1
    <3> QED BY <1>5, <3>2
  <2>2. ~(q < p)
    <3>1. SUFFICES ASSUME q < p PROVE FALSE
      OBVIOUS
    <3>2. q * b + b <= p * b
      BY <1>6, <3>1
    <3> QED BY <1>5, <3>2
  <2> QED BY <2>1, <2>2
<1>8. s = r
  BY <1>5, <1>7
<1> QED BY <1>1, <1>2, <1>7, <1>8

(* A quotient never falls, and a multiple of b begins a new one.           *)
LEMMA QuotientRises ==
    ASSUME NEW b \in Nat, b > 0, NEW x \in Nat, NEW y \in Nat, x <= y
    PROVE  /\ x \div b <= y \div b
           /\ y % b = 0 /\ x < y => x \div b < y \div b
<1>1. PICK p \in Nat, r \in 0 .. b - 1 : x = p * b + r /\ p = x \div b
  BY Parts
<1>2. PICK q \in Nat, s \in 0 .. b - 1 : y = q * b + s /\ q = y \div b /\ s = y % b
  BY Parts
<1>3. ASSUME q < p PROVE FALSE
  <2>1. PICK d \in Nat : p = q + 1 + d
    <3>1. p - q - 1 \in Nat /\ p = q + 1 + (p - q - 1)
      BY <1>3
    <3> QED BY <3>1
  <2>2. p * b = q * b + b + d * b /\ d * b \in Nat
    BY <2>1
  <2> QED BY <1>1, <1>2, <2>2
<1>4. s = 0 /\ x < y => p # q
  BY <1>1, <1>2
<1> QED BY <1>1, <1>2, <1>3, <1>4

(* Between two multiples of b the quotient stays.                          *)
LEMMA NextQuotient ==
    ASSUME NEW b \in Nat, b > 0, NEW x \in Nat, (x + 1) % b # 0
    PROVE  (x + 1) \div b = x \div b
<1>1. PICK q \in Nat, s \in 0 .. b - 1 : x + 1 = q * b + s /\ q = (x + 1) \div b /\ s = (x + 1) % b
  BY Parts
<1>2. s - 1 \in 0 .. b - 1 /\ x = q * b + (s - 1)
  <2>1. PICK z \in Nat : z = q * b
    OBVIOUS
  <2> QED BY <1>1, <2>1
<1> QED BY <1>1, <1>2, QuotientIs

(* Division by a product is one division after the other: the shifts of    *)
(* timer_shift.                                                            *)
LEMMA QuotientTwice ==
    ASSUME NEW b \in Nat, b > 0, NEW c \in Nat, c > 0, NEW x \in Nat
    PROVE  /\ x \div (b * c) = (x \div b) \div c
           /\ x % (b * c) = 0 <=> x % b = 0 /\ (x \div b) % c = 0
<1>1. PICK q \in Nat, r \in 0 .. b - 1 : x = q * b + r /\ q = x \div b /\ r = x % b
  BY Parts
<1>2. PICK p \in Nat, s \in 0 .. c - 1 : q = p * c + s /\ p = q \div c /\ s = q % c
  BY Parts
<1>3. b * c \in Nat /\ b * c > 0
  OBVIOUS
<1>4. s * b + r \in 0 .. b * c - 1
  <2>1. PICK d \in Nat : c = s + 1 + d
    <3>1. c - s - 1 \in Nat /\ c = s + 1 + (c - s - 1)
      OBVIOUS
    <3> QED BY <3>1
  <2>2. b * c = s * b + b + d * b /\ d * b \in Nat /\ s * b \in Nat
    BY <2>1
  <2> QED BY <2>2
<1>5. x = p * (b * c) + (s * b + r)
  <2>1. (p * c + s) * b = p * (b * c) + s * b
    OBVIOUS
  <2>2. q = p * c + s /\ x = q * b + r
    BY <1>1, <1>2
  <2>3. q * b = p * (b * c) + s * b
    BY <2>1, <2>2
  <2>4. PICK z \in Int : z = q * b
    OBVIOUS
  <2>5. PICK y \in Int : y = p * (b * c)
    BY <1>3
  <2>6. PICK u \in Int : u = s * b
    OBVIOUS
  <2> QED BY <2>2, <2>3, <2>4, <2>5, <2>6
<1>6. x \div (b * c) = p /\ x % (b * c) = s * b + r
  BY <1>3, <1>4, <1>5, QuotientIs
<1>7. s * b + r = 0 <=> r = 0 /\ s = 0
  <2>1. s > 0 => s * b >= b
    <3>1. s > 0 => \E d \in Nat : s = 1 + d
      <4>1. s > 0 => s - 1 \in Nat /\ s = 1 + (s - 1)
        OBVIOUS
      <4> QED BY <4>1
    <3>2. \A d \in Nat : (1 + d) * b = b + d * b /\ d * b \in Nat
      OBVIOUS
    <3> QED BY <3>1, <3>2
  <2> QED BY <2>1
<1> QED BY <1>1, <1>2, <1>6, <1>7

-----------------------------------------------------------------------------
(* Stretches of time.                                                      *)

(* What the levels' shifts give: numbers that rise with the time, change   *)
(* only at multiples of the level's size, and are those of the level below *)
(* shifted once more.                                                      *)
LEMMA Stretches ==
    ASSUME WheelAssumption
    PROVE  /\ \A i \in 0 .. LEVELS : \A x \in Nat : Stretch(x, i) \in Nat
           /\ \A i \in 0 .. LEVELS : \A x, y \in Nat : x <= y => Stretch(x, i) <= Stretch(y, i)
           /\ \A i \in 0 .. LEVELS : \A x, y \in Nat :
                  y % Size(i) = 0 /\ x < y => Stretch(x, i) < Stretch(y, i)
           /\ \A i \in 0 .. LEVELS : \A x \in Nat :
                  (x + 1) % Size(i) # 0 => Stretch(x + 1, i) = Stretch(x, i)
           /\ \A i \in 0 .. LEVELS - 1 : \A x \in Nat :
                  /\ Stretch(x, i + 1) = Stretch(x, i) \div TIME_LEVEL
                  /\ x % Size(i + 1) = 0 <=> x % Size(i) = 0 /\ Stretch(x, i) % TIME_LEVEL = 0
           /\ \A x \in 0 .. WIDTH - 1 : Stretch(x, LEVELS) = 0
<1>1. \A i \in 0 .. LEVELS : Size(i) \in Nat /\ Size(i) > 0
  BY Sizes
<1>2. \A i \in 0 .. LEVELS : \A x \in Nat : Stretch(x, i) \in Nat
  <2>1. TAKE i \in 0 .. LEVELS
  <2>2. TAKE x \in Nat
  <2>3. PICK q \in Nat, r \in 0 .. Size(i) - 1 : q = x \div Size(i)
    BY <1>1, Parts
  <2> QED BY <2>3 DEF Stretch
<1>3. \A i \in 0 .. LEVELS : \A x, y \in Nat :
        /\ x <= y => Stretch(x, i) <= Stretch(y, i)
        /\ y % Size(i) = 0 /\ x < y => Stretch(x, i) < Stretch(y, i)
  <2>1. TAKE i \in 0 .. LEVELS
  <2>2. TAKE x, y \in Nat
  <2>3. x < y => x <= y
    OBVIOUS
  <2> QED BY <1>1, <2>3, QuotientRises DEF Stretch
<1>4. \A i \in 0 .. LEVELS : \A x \in Nat :
        (x + 1) % Size(i) # 0 => Stretch(x + 1, i) = Stretch(x, i)
  BY <1>1, NextQuotient DEF Stretch
<1>5. ASSUME NEW i \in 0 .. LEVELS - 1, NEW x \in Nat
      PROVE  /\ Stretch(x, i + 1) = Stretch(x, i) \div TIME_LEVEL
             /\ x % Size(i + 1) = 0 <=> x % Size(i) = 0 /\ Stretch(x, i) % TIME_LEVEL = 0
  <2>1. Size(i + 1) = Size(i) * TIME_LEVEL /\ i \in 0 .. LEVELS
    BY Sizes DEF LEVELS
  <2>2. TIME_LEVEL \in Nat /\ TIME_LEVEL > 0
    BY DEF WheelAssumption
  <2>3. PICK b \in Nat : b = Size(i) /\ b > 0
    BY <1>1, <2>1
  <2>4. /\ x \div (b * TIME_LEVEL) = (x \div b) \div TIME_LEVEL
        /\ x % (b * TIME_LEVEL) = 0 <=> x % b = 0 /\ (x \div b) % TIME_LEVEL = 0
    BY <2>2, <2>3, QuotientTwice
  <2> QED BY <2>1, <2>3, <2>4 DEF Stretch
<1>6. ASSUME NEW x \in 0 .. WIDTH - 1 PROVE Stretch(x, LEVELS) = 0
  <2>1. WIDTH \in Nat /\ WIDTH > 0 /\ Size(LEVELS) = WIDTH
    BY <1>1, Sizes DEF LEVELS
  <2>2. 0 * WIDTH + x = x
    BY <2>1
  <2>3. (0 * WIDTH + x) \div WIDTH = 0
    BY <2>1, QuotientIs
  <2> QED BY <2>1, <2>2, <2>3 DEF Stretch
<1> QED BY <1>2, <1>3, <1>4, <1>5, <1>6

Together(x, y, i) == Stretch(x, i) = Stretch(y, i)

(* Who is in the same stretch of a level is so at every higher one: the    *)
(* loop of add_node may stop at the first.                                 *)
LEMMA TogetherAbove ==
    ASSUME WheelAssumption, NEW x \in Nat, NEW y \in Nat, NEW i \in 0 .. LEVELS,
           Together(x, y, i), NEW k \in 0 .. LEVELS, i <= k
    PROVE  Together(x, y, k)
<1>1. \A j \in 0 .. LEVELS - 1 : Together(x, y, j) => Together(x, y, j + 1)
  BY Stretches DEF Together
<1>2. /\ Together(x, y, 0) => Together(x, y, 1)
      /\ Together(x, y, 1) => Together(x, y, 2)
      /\ Together(x, y, 2) => Together(x, y, 3)
      /\ Together(x, y, 3) => Together(x, y, 4)
  BY <1>1 DEF LEVELS
<1>3. i \in {0, 1, 2, 3, 4} /\ k \in {0, 1, 2, 3, 4}
  BY DEF LEVELS
<1> QED BY <1>2, <1>3

(* In one stretch of the level above, the lists of a level tell stretches  *)
(* apart, and a later stretch has a list.                                  *)
LEMMA ListsTellApart ==
    ASSUME WheelAssumption, NEW x \in Nat, NEW y \in Nat, NEW i \in 0 .. LEVELS - 1,
           Together(x, y, i + 1)
    PROVE  /\ Stretch(x, i) % TIME_LEVEL = Stretch(y, i) % TIME_LEVEL => Together(x, y, i)
           /\ Stretch(x, i) < Stretch(y, i) => Stretch(y, i) % TIME_LEVEL \in 1 .. TIME_LEVEL - 1
<1>1. i \in 0 .. LEVELS
  BY DEF LEVELS
<1>2. TIME_LEVEL \in Nat /\ TIME_LEVEL > 0
  BY DEF WheelAssumption
<1>3. PICK a \in Nat : a = Stretch(x, i)
  BY <1>1, Stretches
<1>4. PICK b \in Nat : b = Stretch(y, i)
  BY <1>1, Stretches
<1>5. PICK p \in Nat, r \in 0 .. TIME_LEVEL - 1 :
        a = p * TIME_LEVEL + r /\ p = a \div TIME_LEVEL /\ r = a % TIME_LEVEL
  BY <1>2, Parts
<1>6. PICK q \in Nat, s \in 0 .. TIME_LEVEL - 1 :
        b = q * TIME_LEVEL + s /\ q = b \div TIME_LEVEL /\ s = b % TIME_LEVEL
  BY <1>2, Parts
<1>7. a \div TIME_LEVEL = b \div TIME_LEVEL
  BY <1>3, <1>4, Stretches DEF Together
<1>8. p = q
  BY <1>5, <1>6, <1>7
<1>8a. PICK z \in Nat : z = p * TIME_LEVEL
  BY <1>2
<1>8b. a = z + r /\ b = z + s
  BY <1>5, <1>6, <1>8, <1>8a
<1>9. r = s => a = b
  BY <1>8b
<1>10. a < b => r < s
  BY <1>8b
<1>11. a < b => s \in 1 .. TIME_LEVEL - 1
  BY <1>10
<1> QED BY <1>3, <1>4, <1>5, <1>6, <1>9, <1>11 DEF Together

(* add_node's level is the one at which the stretches differ but those of  *)
(* the next level do not.                                                  *)
LEMMA LevelIs ==
    ASSUME WheelAssumption, NEW e \in 0 .. WIDTH - 1, NEW cur \in 0 .. WIDTH - 1,
           ~Together(e, cur, 0)
    PROVE  /\ Level(e, cur) \in 0 .. LEVELS - 1
           /\ Together(e, cur, Level(e, cur) + 1) /\ ~Together(e, cur, Level(e, cur))
           /\ \A i \in 0 .. LEVELS - 1 :
                  Together(e, cur, i + 1) /\ ~Together(e, cur, i) => Level(e, cur) = i
<1> DEFINE same == {i \in 0 .. LEVELS - 2 : Stretch(e, i + 1) = Stretch(cur, i + 1)}
           l == Level(e, cur)
<1>1. e \in Nat /\ cur \in Nat
  BY Sizes DEF LEVELS
<1>2. Together(e, cur, 4)
  BY Stretches DEF Together, LEVELS
<1>3. l = IF same = {} THEN 3 ELSE CHOOSE i \in same : \A k \in same : i <= k
  BY DEF Level, LEVELS
<1>4. \A i \in 0 .. 2 : i \in same <=> Together(e, cur, i + 1)
  BY DEF Together, LEVELS
<1>5. same \in SUBSET (0 .. 2) /\ same \in SUBSET Nat
  BY DEF LEVELS
<1> HIDE DEF l, same
<1>6. same # {} => l \in same /\ \A k \in same : l <= k
  <2>1. SUFFICES ASSUME same # {} PROVE l \in same /\ \A k \in same : l <= k
    OBVIOUS
  <2>2. \E i \in same : \A k \in same : i <= k
    BY <1>5, <2>1, LeastNumber
  <2> QED BY <1>3, <2>1, <2>2
<1>7. l \in 0 .. 3
  BY <1>3, <1>5, <1>6
<1>8. Together(e, cur, l + 1)
  <2>1. CASE same = {}
    <3>1. l + 1 = 4
      BY <1>3, <2>1
    <3> QED BY <1>2, <3>1
  <2>2. CASE same # {}
    BY <1>4, <1>5, <1>6, <2>2
  <2> QED BY <2>1, <2>2
<1>9. ~Together(e, cur, l)
  <2>1. CASE l = 0
    BY <2>1
  <2>2. CASE l # 0
    <3>1. l - 1 \in 0 .. 2 /\ (l - 1) + 1 = l /\ ~(l <= l - 1)
      BY <1>7, <2>2
    <3>2. l - 1 \notin same
      BY <1>6, <3>1
    <3> QED BY <1>4, <3>1, <3>2
  <2> QED BY <2>1, <2>2
<1>10. ASSUME NEW i \in 0 .. 3, Together(e, cur, i + 1), ~Together(e, cur, i) PROVE l = i
  <2>1. ~(i < l)
    <3>1. SUFFICES ASSUME i < l PROVE FALSE
      OBVIOUS
    <3>2. i + 1 \in 0 .. 4 /\ l \in 0 .. 4 /\ i + 1 <= l
      BY <1>7, <3>1
    <3> QED BY <1>1, <1>9, <1>10, <3>2, TogetherAbove DEF LEVELS
  <2>2. ~(l < i)
    <3>1. SUFFICES ASSUME l < i PROVE FALSE
      OBVIOUS
    <3>2. l + 1 \in 0 .. 4 /\ i \in 0 .. 4 /\ l + 1 <= i
      BY <1>7, <3>1
    <3> QED BY <1>1, <1>8, <1>10, <3>2, TogetherAbove DEF LEVELS
  <2> QED BY <1>7, <2>1, <2>2
<1>11. LEVELS - 1 = 3
  BY DEF LEVELS
<1> QED BY <1>7, <1>8, <1>9, <1>10, <1>11 DEF l

-----------------------------------------------------------------------------
(* Places: the lists of add_node.                                          *)

Near == -1

Place(e, cur) ==
    IF Together(e, cur, 0) THEN <<Near, e % TIME_NEAR>>
    ELSE <<Level(e, cur), Index(e, Level(e, cur))>>

Places == ({Near} \X (0 .. TIME_NEAR - 1)) \cup ((0 .. LEVELS - 1) \X (0 .. TIME_LEVEL - 2))

(* What a node looks like whose tick comes only after the time rewinds.    *)
Behind(e, cur) == Stretch(e, LEVELS - 1) < Stretch(cur, LEVELS - 1)

Span == 0 .. WIDTH - 1

(* The times of an unsigned count.                                         *)
LEMMA SpanIs == WheelAssumption => WIDTH \in Nat /\ WIDTH > 0 /\ Span \subseteq Nat
<1>1. SUFFICES ASSUME WheelAssumption PROVE WIDTH \in Nat /\ WIDTH > 0 /\ Span \subseteq Nat
  OBVIOUS
<1>2. WIDTH \in Nat /\ WIDTH > 0
  BY <1>1, Sizes DEF LEVELS
<1> QED BY <1>2 DEF Span

(* The place by the lowest level at which both are together.               *)
LEMMA PlaceIs ==
    ASSUME WheelAssumption, NEW e \in Span, NEW cur \in Span
    PROVE  /\ Together(e, cur, 0) => Place(e, cur) = <<Near, e % TIME_NEAR>>
           /\ \A i \in 0 .. LEVELS - 1 : Together(e, cur, i + 1) /\ ~Together(e, cur, i) =>
                  Place(e, cur) = <<i, (Stretch(e, i) % TIME_LEVEL) - 1>>
           /\ Together(e, cur, 0) \/ \E i \in 0 .. LEVELS - 1 :
                  Together(e, cur, i + 1) /\ ~Together(e, cur, i)
<1>1. ASSUME NEW i \in 0 .. LEVELS - 1, Together(e, cur, i + 1), ~Together(e, cur, i)
      PROVE  Place(e, cur) = <<i, (Stretch(e, i) % TIME_LEVEL) - 1>>
  <2>1. ~Together(e, cur, 0)
    <3>1. 0 \in 0 .. LEVELS /\ i \in 0 .. LEVELS /\ 0 <= i /\ e \in Nat /\ cur \in Nat
      BY SpanIs DEF LEVELS
    <3> QED BY <1>1, <3>1, TogetherAbove
  <2>2. Level(e, cur) = i
    BY <1>1, <2>1, LevelIs DEF Span
  <2> QED BY <2>1, <2>2 DEF Place, Index
<1>2. ~Together(e, cur, 0) => \E i \in 0 .. LEVELS - 1 : Together(e, cur, i + 1) /\ ~Together(e, cur, i)
  BY LevelIs DEF Span
<1> QED BY <1>1, <1>2 DEF Place

(* Later ticks have a list; the list of the tick itself is in near.        *)
LEMMA PlaceInRange ==
    ASSUME WheelAssumption, NEW e \in Span, NEW cur \in Span, cur <= e
    PROVE  Place(e, cur) \in Places
<1>1. e \in Nat /\ cur \in Nat /\ TIME_NEAR \in Nat /\ TIME_NEAR > 0
  BY SpanIs DEF WheelAssumption
<1>2. CASE Together(e, cur, 0)
  <2>1. e % TIME_NEAR \in 0 .. TIME_NEAR - 1
    BY <1>1
  <2> QED BY <1>2, <2>1, PlaceIs DEF Places
<1>3. ASSUME NEW i \in 0 .. LEVELS - 1, Together(e, cur, i + 1), ~Together(e, cur, i)
      PROVE  Place(e, cur) \in Places
  <2>1. i \in 0 .. LEVELS
    BY DEF LEVELS
  <2>2. Stretch(cur, i) \in Nat /\ Stretch(e, i) \in Nat /\ Stretch(cur, i) <= Stretch(e, i)
    BY <1>1, <2>1, Stretches
  <2>3. Stretch(cur, i) < Stretch(e, i)
    BY <1>3, <2>2 DEF Together
  <2>4. Together(cur, e, i + 1)
    BY <1>3 DEF Together
  <2>5. Stretch(e, i) % TIME_LEVEL \in 1 .. TIME_LEVEL - 1
    BY <1>1, <2>3, <2>4, ListsTellApart
  <2>6. TIME_LEVEL \in Nat
    BY DEF WheelAssumption
  <2>7. (Stretch(e, i) % TIME_LEVEL) - 1 \in 0 .. TIME_LEVEL - 2
    BY <2>5, <2>6
  <2>8. Place(e, cur) = <<i, (Stretch(e, i) % TIME_LEVEL) - 1>>
    BY <1>3, PlaceIs
  <2> QED BY <2>7, <2>8 DEF Places
<1> QED BY <1>2, <1>3, PlaceIs

(* In the list of the current tick are the nodes of this tick, no others.  *)
LEMMA PlaceOfNow ==
    ASSUME WheelAssumption, NEW e \in Span, NEW cur \in Span
    PROVE  Place(e, cur) = <<Near, cur % TIME_NEAR>> <=> e = cur
<1>1. e \in Nat /\ cur \in Nat /\ TIME_NEAR \in Nat /\ TIME_NEAR > 0
  BY SpanIs DEF WheelAssumption
<1>2. e = cur => Place(e, cur) = <<Near, cur % TIME_NEAR>>
  BY PlaceIs DEF Together
<1>3. ASSUME Place(e, cur) = <<Near, cur % TIME_NEAR>> PROVE e = cur
  <2>1. Together(e, cur, 0)
    <3>1. ASSUME NEW i \in 0 .. LEVELS - 1, Together(e, cur, i + 1), ~Together(e, cur, i) PROVE FALSE
      <4>1. <<i, (Stretch(e, i) % TIME_LEVEL) - 1>> = <<Near, cur % TIME_NEAR>>
        BY <1>3, <3>1, PlaceIs
      <4>2. i = Near
        BY <4>1
      <4> QED BY <4>2 DEF LEVELS, Near
    <3> QED BY <3>1, PlaceIs
  <2>2. <<Near, e % TIME_NEAR>> = <<Near, cur % TIME_NEAR>>
    BY <1>3, <2>1, PlaceIs
  <2>3. e % TIME_NEAR = cur % TIME_NEAR /\ e \div TIME_NEAR = cur \div TIME_NEAR
    BY <2>1, <2>2, Sizes DEF Together, Stretch
  <2>4. PICK q \in Nat, r \in 0 .. TIME_NEAR - 1 :
          e = q * TIME_NEAR + r /\ q = e \div TIME_NEAR /\ r = e % TIME_NEAR
    BY <1>1, Parts
  <2>5. PICK p \in Nat, s \in 0 .. TIME_NEAR - 1 :
          cur = p * TIME_NEAR + s /\ p = cur \div TIME_NEAR /\ s = cur % TIME_NEAR
    BY <1>1, Parts
  <2>6. q = p /\ r = s
    BY <2>3, <2>4, <2>5
  <2> QED BY <2>4, <2>5, <2>6
<1> QED BY <1>2, <1>3

(* A node that is behind has, if any, a list of the highest level, and     *)
(* another one than the stretches to come.                                 *)
LEMMA PlaceBehind ==
    ASSUME WheelAssumption, NEW e \in Span, NEW cur \in Span, Behind(e, cur)
    PROVE  /\ Place(e, cur) = <<LEVELS - 1, Stretch(e, LEVELS - 1) - 1>>
           /\ Place(e, cur) \in Places <=> Stretch(e, LEVELS - 1) > 0
<1>1. e \in Nat /\ cur \in Nat
  BY SpanIs
<1>2. LEVELS - 1 \in 0 .. LEVELS - 1 /\ (LEVELS - 1) + 1 = LEVELS /\ LEVELS - 1 \in 0 .. LEVELS
  BY DEF LEVELS
<1>3. Together(e, cur, LEVELS)
  BY Stretches DEF Together, Span
<1>4. ~Together(e, cur, LEVELS - 1)
  <2>1. Stretch(e, LEVELS - 1) \in Nat /\ Stretch(cur, LEVELS - 1) \in Nat
    BY <1>1, <1>2, Stretches
  <2> QED BY <2>1 DEF Together, Behind
<1>5. Stretch(e, LEVELS - 1) \in 0 .. TIME_LEVEL - 1
      /\ Stretch(e, LEVELS - 1) % TIME_LEVEL = Stretch(e, LEVELS - 1)
  <2>1. PICK a \in Nat : a = Stretch(e, LEVELS - 1)
    BY <1>1, <1>2, Stretches
  <2>2. TIME_LEVEL \in Nat /\ TIME_LEVEL > 0
    BY DEF WheelAssumption
  <2>3. PICK q \in Nat, r \in 0 .. TIME_LEVEL - 1 :
          a = q * TIME_LEVEL + r /\ q = a \div TIME_LEVEL /\ r = a % TIME_LEVEL
    BY <2>2, Parts
  <2>4. a \div TIME_LEVEL = 0
    BY <1>1, <1>2, <2>1, Stretches DEF Span
  <2>5. a = r
    BY <2>2, <2>3, <2>4
  <2> QED BY <2>1, <2>3, <2>5
<1>6. Place(e, cur) = <<LEVELS - 1, Stretch(e, LEVELS - 1) - 1>>
  BY <1>2, <1>3, <1>4, <1>5, PlaceIs
<1>7. TIME_LEVEL \in Nat
  BY DEF WheelAssumption
<1>8. Stretch(e, LEVELS - 1) - 1 \in 0 .. TIME_LEVEL - 2 <=> Stretch(e, LEVELS - 1) > 0
  BY <1>5, <1>7
<1>9. Near # LEVELS - 1
  BY DEF Near, LEVELS
<1> QED BY <1>2, <1>6, <1>8, <1>9 DEF Places

-----------------------------------------------------------------------------
(* A tick.                                                                 *)

(* At most one level turns, one does when a list of near has gone round,   *)
(* and it is the highest one of which the tick begins a stretch.           *)
LEMMA TurningIs ==
    ASSUME WheelAssumption, NEW cur \in Span, NEW x \in Span, x = cur + 1
    PROVE  /\ \A i, j \in Turning(x) : i = j
           /\ Turning(x) = {} => \A k \in 0 .. LEVELS : x % Size(k) # 0
           /\ \A i \in Turning(x) :
                  /\ i \in 0 .. LEVELS - 1 /\ x % Size(i) = 0 /\ Stretch(x, i) % TIME_LEVEL # 0
                  /\ \A k \in i + 1 .. LEVELS : x % Size(k) # 0
<1> DEFINE Z(k) == x % Size(k) = 0
           M(k) == Stretch(x, k) % TIME_LEVEL = 0
<1>1. x \in Nat /\ cur \in Nat /\ x > 0 /\ x < WIDTH /\ WIDTH \in Nat /\ WIDTH > 0
  BY SpanIs DEF Span
<1>2. \A k \in 0 .. 3 : Z(k + 1) <=> Z(k) /\ M(k)
  <2>1. TAKE k \in 0 .. 3
  <2>2. k \in 0 .. LEVELS - 1
    BY DEF LEVELS
  <2> QED BY <1>1, <2>2, Stretches
<1>3. ~Z(4)
  <2>1. Size(4) = WIDTH
    BY Sizes DEF LEVELS
  <2>2. x \in 0 .. WIDTH - 1 /\ 0 * WIDTH + x = x
    BY <1>1
  <2>3. (0 * WIDTH + x) % WIDTH = x
    BY <1>1, <2>2, QuotientIs
  <2> QED BY <1>1, <2>1, <2>2, <2>3
<1>4. \A i : i \in Turning(x) <=> /\ i \in 0 .. 3 /\ Z(i) /\ ~M(i)
                                  /\ \A k \in 0 .. i - 1 : M(k)
  BY DEF Turning, LEVELS
<1> HIDE DEF Z, M
<1>5. ASSUME NEW i \in Turning(x), NEW j \in Turning(x) PROVE i = j
  <2>1. ~(i < j)
    <3>1. i < j => i \in 0 .. j - 1
      BY <1>4
    <3> QED BY <1>4, <3>1
  <2>2. ~(j < i)
    <3>1. j < i => j \in 0 .. i - 1
      BY <1>4
    <3> QED BY <1>4, <3>1
  <2> QED BY <1>4, <2>1, <2>2
<1>6. /\ Z(1) <=> Z(0) /\ M(0)
      /\ Z(2) <=> Z(1) /\ M(1)
      /\ Z(3) <=> Z(2) /\ M(2)
      /\ Z(4) <=> Z(3) /\ M(3)
  BY <1>2
<1>7. Turning(x) = {} => \A k \in 0 .. 4 : ~Z(k)
  <2>1. ASSUME Z(0), NEW i \in {0, 1, 2, 3}, Z(i), ~M(i), \A k \in {0, 1, 2, 3} : k < i => M(k)
        PROVE  i \in Turning(x)
    <3>1. \A k \in 0 .. i - 1 : k \in {0, 1, 2, 3} /\ k < i
      BY <2>1
    <3>2. i \in 0 .. 3
      BY <2>1
    <3> QED BY <1>4, <2>1, <3>1, <3>2
  <2>2. Z(0) => \E i \in {0, 1, 2, 3} : Z(i) /\ ~M(i) /\ \A k \in {0, 1, 2, 3} : k < i => M(k)
    <3>1. SUFFICES ASSUME Z(0) PROVE \E i \in {0, 1, 2, 3} : Z(i) /\ ~M(i) /\ \A k \in {0, 1, 2, 3} : k < i => M(k)
      OBVIOUS
    <3>2. CASE ~M(0)
      BY <3>1, <3>2
    <3>3. CASE M(0) /\ ~M(1)
      <4>1. Z(1)
        BY <1>6, <3>1, <3>3
      <4> QED BY <3>3, <4>1
    <3>4. CASE M(0) /\ M(1) /\ ~M(2)
      <4>1. Z(2)
        BY <1>6, <3>1, <3>4
      <4> QED BY <3>4, <4>1
    <3>5. CASE M(0) /\ M(1) /\ M(2) /\ ~M(3)
      <4>1. Z(3)
        BY <1>6, <3>1, <3>5
      <4> QED BY <3>5, <4>1
    <3>6. ~(M(0) /\ M(1) /\ M(2) /\ M(3))
      BY <1>3, <1>6, <3>1
    <3> QED BY <3>2, <3>3, <3>4, <3>5, <3>6
  <2>3. Turning(x) = {} => ~Z(0)
    BY <2>1, <2>2
  <2>4. \A k \in 0 .. 4 : k = 0 \/ k = 1 \/ k = 2 \/ k = 3 \/ k = 4
    OBVIOUS
  <2> QED BY <1>6, <2>3, <2>4
<1>8. ASSUME NEW i \in Turning(x), NEW k \in i + 1 .. 4 PROVE ~Z(k)
  <2>1. i \in {0, 1, 2, 3} /\ k \in {1, 2, 3, 4} /\ i < k
    BY <1>4
  <2>2. ~M(i)
    BY <1>4
  <2> QED BY <1>6, <2>1, <2>2
<1>9. \A i \in Turning(x) : i \in 0 .. 3 /\ Z(i) /\ ~M(i)
  BY <1>4
<1> QED BY <1>5, <1>7, <1>8, <1>9 DEF Z, M, LEVELS

(* Where a node belongs depends on the stretches that it shares.           *)
LEMMA SamePlace ==
    ASSUME WheelAssumption, NEW e \in Span, NEW x \in Span, NEW y \in Span,
           \A k \in 0 .. LEVELS : Together(e, x, k) <=> Together(e, y, k)
    PROVE  Place(e, x) = Place(e, y)
<1>1. 0 \in 0 .. LEVELS /\ \A i \in 0 .. LEVELS - 1 : i \in 0 .. LEVELS /\ i + 1 \in 0 .. LEVELS
  BY DEF LEVELS
<1>2. CASE Together(e, x, 0)
  BY <1>1, <1>2, PlaceIs
<1>3. ASSUME NEW i \in 0 .. LEVELS - 1, Together(e, x, i + 1), ~Together(e, x, i)
      PROVE  Place(e, x) = Place(e, y)
  <2>1. Together(e, y, i + 1) /\ ~Together(e, y, i)
    BY <1>1, <1>3
  <2> QED BY <1>3, <2>1, PlaceIs
<1> QED BY <1>2, <1>3, PlaceIs

(* If no list moves down, every node is where it belongs in the next tick. *)
LEMMA NoneMoves ==
    ASSUME WheelAssumption, NEW cur \in Span, NEW x \in Span, x = cur + 1, Turning(x) = {}
    PROVE  \A e \in Span : Place(e, x) = Place(e, cur)
<1>1. TAKE e \in Span
<1>2. cur \in Nat
  BY SpanIs
<1>3. \A k \in 0 .. LEVELS : Stretch(x, k) = Stretch(cur, k)
  BY <1>2, Stretches, TurningIs
<1> QED BY <1>3, SamePlace DEF Together

(* The list that turns has the nodes of the stretch that begins, and they  *)
(* belong to lists of lower levels now; no other node belongs there, nor   *)
(* to another list than before.                                            *)
LEMMA SomeMove ==
    ASSUME WheelAssumption, NEW cur \in Span, NEW x \in Span, x = cur + 1, NEW i \in Turning(x)
    PROVE  /\ <<i, Index(x, i)>> \in Places
           /\ \A e \in Span : x <= e /\ Together(e, x, i) =>
                  /\ Place(e, cur) = <<i, Index(x, i)>>
                  /\ Place(e, x) \in Places /\ Place(e, x) # <<i, Index(x, i)>>
                  /\ Place(e, x)[1] < i
           /\ \A e \in Span : (x <= e \/ Behind(e, cur)) /\ ~(x <= e /\ Together(e, x, i)) =>
                  /\ Place(e, x) = Place(e, cur) /\ Place(e, cur) # <<i, Index(x, i)>>
                  /\ Place(e, x)[1] >= i
<1>1. /\ i \in 0 .. LEVELS - 1 /\ x % Size(i) = 0 /\ Stretch(x, i) % TIME_LEVEL # 0
      /\ \A k \in i + 1 .. LEVELS : x % Size(k) # 0
  BY TurningIs
<1>2. cur \in Nat /\ x \in Nat /\ TIME_LEVEL \in Nat /\ TIME_LEVEL > 0 /\ Span \subseteq Nat
  BY SpanIs DEF WheelAssumption
<1>3. i \in 0 .. LEVELS /\ i + 1 \in 0 .. LEVELS /\ i \in Int /\ LEVELS = 4
  BY <1>1 DEF LEVELS
<1>4. Stretch(cur, i) < Stretch(x, i) /\ Stretch(cur, i) \in Nat /\ Stretch(x, i) \in Nat
  <2>1. cur < x
    BY <1>2
  <2>2. Stretch(cur, i) < Stretch(x, i)
    BY <1>1, <1>2, <1>3, <2>1, Stretches
  <2> QED BY <1>2, <1>3, <2>2, Stretches
<1>5. \A k \in i + 1 .. LEVELS : Stretch(x, k) = Stretch(cur, k)
  <2>1. TAKE k \in i + 1 .. LEVELS
  <2>2. k \in 0 .. LEVELS
    BY <1>3
  <2> QED BY <1>1, <1>2, <2>2, Stretches
<1>6. Index(x, i) = (Stretch(x, i) % TIME_LEVEL) - 1
  BY DEF Index
<1>7. <<i, Index(x, i)>> \in Places
  <2>1. Stretch(x, i) % TIME_LEVEL \in 0 .. TIME_LEVEL - 1
    BY <1>2, <1>4
  <2>2. Index(x, i) \in 0 .. TIME_LEVEL - 2
    BY <1>1, <1>2, <1>6, <2>1
  <2> QED BY <1>1, <2>2 DEF Places
<1>8. ASSUME NEW e \in Span, x <= e, Together(e, x, i)
      PROVE  /\ Place(e, cur) = <<i, Index(x, i)>>
             /\ Place(e, x) \in Places /\ Place(e, x) # <<i, Index(x, i)>>
             /\ Place(e, x)[1] < i
  <2>1. ~Together(e, cur, i)
    BY <1>4, <1>8 DEF Together
  <2>2. Together(e, x, i + 1)
    BY <1>2, <1>3, <1>8, TogetherAbove
  <2>3. Together(e, cur, i + 1)
    BY <1>3, <1>5, <2>2 DEF Together
  <2>4. Place(e, cur) = <<i, Index(x, i)>>
    <3>1. Place(e, cur) = <<i, (Stretch(e, i) % TIME_LEVEL) - 1>>
      BY <1>1, <2>1, <2>3, PlaceIs
    <3> QED BY <1>6, <1>8, <3>1 DEF Together
  <2>5. Place(e, x)[1] < i
    <3>1. CASE Together(e, x, 0)
      <4>1. Place(e, x) = <<Near, e % TIME_NEAR>>
        BY <3>1, PlaceIs
      <4>2. Place(e, x)[1] = Near
        BY <4>1
      <4> QED BY <1>1, <1>3, <4>2 DEF Near
    <3>2. ASSUME NEW k \in 0 .. LEVELS - 1, Together(e, x, k + 1), ~Together(e, x, k)
          PROVE  Place(e, x)[1] < i
      <4>1. Place(e, x)[1] = k
        BY <3>2, PlaceIs
      <4>2. k \in 0 .. LEVELS
        BY <1>3
      <4>3. ~(i <= k)
        BY <1>2, <1>3, <1>8, <3>2, <4>2, TogetherAbove
      <4> QED BY <1>1, <1>3, <4>1, <4>3
    <3> QED BY <3>1, <3>2, PlaceIs
  <2>6. Place(e, x) \in Places
    BY <1>8, PlaceInRange
  <2>7. Place(e, x) # <<i, Index(x, i)>>
    <3>1. SUFFICES ASSUME Place(e, x) = <<i, Index(x, i)>> PROVE FALSE
      OBVIOUS
    <3>2. Place(e, x)[1] = i
      BY <3>1
    <3> QED BY <1>3, <2>5, <3>2
  <2> QED BY <2>4, <2>5, <2>6, <2>7
<1>9. ASSUME NEW e \in Span, x <= e \/ Behind(e, cur), ~(x <= e /\ Together(e, x, i))
      PROVE  ~Together(e, x, i) /\ ~Together(e, cur, i)
  <2>1. CASE x <= e
    <3>1. Stretch(x, i) <= Stretch(e, i) /\ Stretch(e, i) \in Nat
      BY <1>2, <1>3, <2>1, Stretches
    <3> QED BY <1>4, <1>9, <2>1, <3>1 DEF Together
  <2>2. CASE Behind(e, cur)
    <3>1. LEVELS - 1 \in 0 .. LEVELS /\ i <= LEVELS - 1 /\ e \in Nat
      BY <1>1, <1>2 DEF LEVELS
    <3>2. /\ Stretch(e, LEVELS - 1) < Stretch(cur, LEVELS - 1)
          /\ Stretch(cur, LEVELS - 1) <= Stretch(x, LEVELS - 1)
          /\ Stretch(e, LEVELS - 1) \in Nat /\ Stretch(cur, LEVELS - 1) \in Nat
          /\ Stretch(x, LEVELS - 1) \in Nat
      BY <1>2, <2>2, <3>1, Stretches DEF Behind
    <3>3. ~Together(e, x, LEVELS - 1) /\ ~Together(e, cur, LEVELS - 1)
      BY <3>2 DEF Together
    <3> QED BY <1>2, <1>3, <3>1, <3>3, TogetherAbove
  <2> QED BY <1>9, <2>1, <2>2
<1>10. ASSUME NEW e \in Span, ~Together(e, x, i), ~Together(e, cur, i)
       PROVE  /\ Place(e, x) = Place(e, cur) /\ Place(e, cur) # <<i, Index(x, i)>>
              /\ Place(e, x)[1] >= i
  <2>1. ASSUME NEW k \in 0 .. LEVELS PROVE Together(e, x, k) <=> Together(e, cur, k)
    <3>1. CASE k <= i
      <4>1. ~Together(e, x, k) /\ ~Together(e, cur, k)
        BY <1>2, <1>3, <1>10, <3>1, TogetherAbove
      <4> QED BY <4>1
    <3>2. CASE ~(k <= i)
      <4>1. k \in i + 1 .. LEVELS
        BY <1>3, <3>2
      <4> QED BY <1>5, <4>1 DEF Together
    <3> QED BY <3>1, <3>2
  <2>2. Place(e, x) = Place(e, cur)
    BY <2>1, SamePlace
  <2>3. ~Together(e, x, 0)
    <3>1. 0 \in 0 .. LEVELS /\ 0 <= i
      BY <1>1, <1>3
    <3> QED BY <1>2, <1>3, <1>10, <3>1, TogetherAbove
  <2>4. PICK k \in 0 .. LEVELS - 1 : Together(e, x, k + 1) /\ ~Together(e, x, k)
    BY <2>3, PlaceIs
  <2>5. Place(e, x) = <<k, (Stretch(e, k) % TIME_LEVEL) - 1>> /\ Place(e, x)[1] = k
    BY <2>4, PlaceIs
  <2>6. k >= i
    <3>1. SUFFICES ASSUME ~(k >= i) PROVE FALSE
      OBVIOUS
    <3>2. k + 1 \in 0 .. LEVELS /\ k + 1 <= i
      BY <1>3, <3>1
    <3> QED BY <1>2, <1>3, <1>10, <2>4, <3>2, TogetherAbove
  <2>7. Place(e, x) # <<i, Index(x, i)>>
    <3>1. SUFFICES ASSUME Place(e, x) = <<i, Index(x, i)>> PROVE FALSE
      OBVIOUS
    <3>2. k = i /\ (Stretch(e, i) % TIME_LEVEL) - 1 = (Stretch(x, i) % TIME_LEVEL) - 1
      BY <1>6, <2>5, <3>1
    <3>3. Stretch(e, i) % TIME_LEVEL \in Int /\ Stretch(x, i) % TIME_LEVEL \in Int
      <4>1. Stretch(e, i) \in Nat
        BY <1>2, <1>3, Stretches
      <4> QED BY <1>2, <1>4, <4>1
    <3>4. Stretch(e, i) % TIME_LEVEL = Stretch(x, i) % TIME_LEVEL
      BY <3>2, <3>3
    <3> QED BY <1>1, <1>2, <1>10, <2>4, <3>2, <3>4, ListsTellApart
  <2> QED BY <2>2, <2>5, <2>6, <2>7
<1> QED BY <1>7, <1>8, <1>9, <1>10

-----------------------------------------------------------------------------
(* The invariant.                                                          *)

Wheels == [near : [0 .. TIME_NEAR - 1 -> Seq(Node)],
           t : [0 .. LEVELS - 1 -> [0 .. TIME_LEVEL - 2 -> Seq(Node)]]]

(* The list at a place, and the wheel as it is.                            *)
At(w, p) == IF p[1] = Near THEN w.near[p[2]] ELSE w.t[p[1]][p[2]]

Lists == [near |-> near, t |-> t]

WheelTypeOK ==
    /\ time \in Span /\ Lists \in Wheels /\ expire \in [Node -> Span]
    /\ pc \in {"wait", "first", "shift", "second"} /\ current \in Seq(Node)
    /\ now \in Nat /\ due \in [Node -> Nat] /\ log \in Seq([node : Node, at : Nat])
    /\ order \in Seq(Node)

Pending(n) == due[n] # 0 /\ \A k \in 1 .. Len(log) : log[k].node # n

Taken(n) == \E a \in 1 .. Len(current) : current[a] = n

Before(m, n) == \E i, j \in 1 .. Len(order) : i < j /\ order[i] = m /\ order[j] = n

(* order has every node that was added once, and log those that were       *)
(* dispatched, in their ticks.                                             *)
AddedOnce ==
    /\ \A i, j \in 1 .. Len(order) : order[i] = order[j] => i = j
    /\ \A n \in Node : due[n] # 0 <=> \E i \in 1 .. Len(order) : order[i] = n

DispatchedOnce ==
    /\ \A k, l \in 1 .. Len(log) : log[k].node = log[l].node => k = l
    /\ \A k \in 1 .. Len(log) :
         log[k].at = due[log[k].node] /\ due[log[k].node] # 0 /\ log[k].at <= now

(* Nobody is late, nor overtaken by what was dispatched.                   *)
NotLate == \A n \in Node : Pending(n) => due[n] > now \/ (due[n] = now /\ pc = "second")

Overtaken ==
    /\ \A k, l \in 1 .. Len(log) : k < l /\ log[k].at = log[l].at => Before(log[k].node, log[l].node)
    /\ \A k \in 1 .. Len(log), n \in Node :
         Pending(n) /\ due[n] = log[k].at => Before(log[k].node, n)

(* As long as the time has not come round.                                 *)
Ticks ==
    /\ now = time
    /\ \A n \in Node : Pending(n) =>
         due[n] = expire[n] \/ (due[n] = expire[n] + WIDTH /\ Behind(expire[n], time))

(* The nodes of a list belong there, in their order, and no node that      *)
(* waits is missing.                                                       *)
Sorted ==
    /\ \A p \in Places, a \in Nat :
         a \in 1 .. Len(At(Lists, p)) =>
            LET n == At(Lists, p)[a] IN Pending(n) /\ ~Taken(n) /\ Place(expire[n], time) = p
    /\ \A p \in Places, a, b \in Nat :
         a \in 1 .. Len(At(Lists, p)) /\ b \in 1 .. Len(At(Lists, p)) /\ a < b =>
            Before(At(Lists, p)[a], At(Lists, p)[b])

Complete ==
    \A n \in Node : Pending(n) /\ ~Taken(n) =>
        LET p == Place(expire[n], time)
        IN  p \in Places /\ \E a \in 1 .. Len(At(Lists, p)) : At(Lists, p)[a] = n

(* The list that is being dispatched: all of its tick, while no other node *)
(* comes to the list of this tick.                                         *)
Running ==
    /\ \A a \in 1 .. Len(current) : Pending(current[a]) /\ due[current[a]] = now
    /\ \A a, b \in 1 .. Len(current) : a < b => Before(current[a], current[b])
    /\ current # <<>> => pc = "second" /\ near[time % TIME_NEAR] = <<>>

WheelInv ==
    /\ WheelTypeOK /\ AddedOnce /\ DispatchedOnce /\ NotLate /\ Overtaken
    /\ fault = "none" => Ticks /\ Sorted /\ Complete /\ Running

-----------------------------------------------------------------------------
(* link: the list of the place has one more node, the others stay.         *)
LEMMA LinkedAt ==
    ASSUME WheelAssumption, NEW w \in Wheels, NEW n \in Node, NEW e \in Span, NEW cur \in Span,
           Place(e, cur) \in Places
    PROVE  /\ Linked(w, n, e, cur) \in Wheels
           /\ \A p \in Places : At(Linked(w, n, e, cur), p) =
                  IF p = Place(e, cur) THEN Append(At(w, p), n) ELSE At(w, p)
<1> DEFINE v == Linked(w, n, e, cur)
           i == Level(e, cur)
           j == Index(e, i)
           h == e % TIME_NEAR
<1>1. CASE Together(e, cur, 0)
  <2>1. v = [w EXCEPT !.near[h] = Append(@, n)]
    BY <1>1 DEF Linked, Together
  <2>2. Place(e, cur) = <<Near, h>>
    BY <1>1 DEF Place
  <2> HIDE DEF v, h
  <2>3. h \in 0 .. TIME_NEAR - 1
    BY <2>2 DEF Places, Near, LEVELS
  <2>4. w.near[h] \in Seq(Node)
    BY <2>3 DEF Wheels
  <2>5. Append(w.near[h], n) \in Seq(Node)
    BY <2>4
  <2>6. /\ v.near = [w.near EXCEPT ![h] = Append(w.near[h], n)] /\ v.t = w.t
        /\ v = [near |-> v.near, t |-> v.t]
    BY <2>1 DEF Wheels
  <2>7. v.near \in [0 .. TIME_NEAR - 1 -> Seq(Node)]
    BY <2>3, <2>5, <2>6 DEF Wheels
  <2>8. v \in Wheels
    BY <2>6, <2>7 DEF Wheels
  <2>9. ASSUME NEW p \in Places
        PROVE  At(v, p) = IF p = <<Near, h>> THEN Append(At(w, p), n) ELSE At(w, p)
    <3>1. CASE p[1] = Near
      <4>1. p = <<Near, p[2]>> /\ p[2] \in 0 .. TIME_NEAR - 1
        BY <3>1 DEF Places, Near, LEVELS
      <4>2. p = <<Near, h>> <=> p[2] = h
        BY <4>1
      <4>3. At(v, p) = v.near[p[2]] /\ At(w, p) = w.near[p[2]]
        BY <3>1 DEF At
      <4>4. v.near[p[2]] = IF p[2] = h THEN Append(w.near[h], n) ELSE w.near[p[2]]
        BY <2>3, <2>6, <4>1 DEF Wheels
      <4> QED BY <4>2, <4>3, <4>4
    <3>2. CASE p[1] # Near
      <4>1. p # <<Near, h>>
        BY <3>2
      <4> QED BY <2>6, <3>2, <4>1 DEF At
    <3> QED BY <3>1, <3>2
  <2> QED BY <2>2, <2>8, <2>9 DEF v
<1>2. CASE ~Together(e, cur, 0)
  <2>1. v = [w EXCEPT !.t[i][j] = Append(@, n)]
    BY <1>2 DEF Linked, Together
  <2>2. Place(e, cur) = <<i, j>>
    BY <1>2 DEF Place
  <2>3. i \in 0 .. LEVELS - 1
    BY <1>2, LevelIs DEF Span
  <2> HIDE DEF v, i, j
  <2>4. i # Near
    BY <2>3 DEF LEVELS, Near
  <2>5. j \in 0 .. TIME_LEVEL - 2
    BY <2>2, <2>4 DEF Places
  <2>6. w.t \in [0 .. LEVELS - 1 -> [0 .. TIME_LEVEL - 2 -> Seq(Node)]]
        /\ w.t[i] \in [0 .. TIME_LEVEL - 2 -> Seq(Node)] /\ w.t[i][j] \in Seq(Node)
    BY <2>3, <2>5 DEF Wheels
  <2>7. Append(w.t[i][j], n) \in Seq(Node)
    BY <2>6
  <2>8. /\ v.t = [w.t EXCEPT ![i][j] = Append(w.t[i][j], n)] /\ v.near = w.near
        /\ v = [near |-> v.near, t |-> v.t]
    BY <2>1 DEF Wheels
  <2>9. v.t[i] = [w.t[i] EXCEPT ![j] = Append(w.t[i][j], n)]
        /\ v.t \in [0 .. LEVELS - 1 -> [0 .. TIME_LEVEL - 2 -> Seq(Node)]]
        /\ \A k \in 0 .. LEVELS - 1 : k # i => v.t[k] = w.t[k]
    <3> DEFINE u == [w.t[i] EXCEPT ![j] = Append(w.t[i][j], n)]
    <3>1. u \in [0 .. TIME_LEVEL - 2 -> Seq(Node)]
      BY <2>5, <2>6, <2>7
    <3>2. v.t = [w.t EXCEPT ![i] = u]
      BY <2>8
    <3> HIDE DEF u
    <3>3. v.t[i] = u /\ v.t \in [0 .. LEVELS - 1 -> [0 .. TIME_LEVEL - 2 -> Seq(Node)]]
      BY <2>3, <2>6, <3>1, <3>2
    <3>4. \A k \in 0 .. LEVELS - 1 : k # i => v.t[k] = w.t[k]
      BY <2>3, <2>6, <3>2
    <3> QED BY <3>3, <3>4 DEF u
  <2>10. v \in Wheels
    BY <2>8, <2>9 DEF Wheels
  <2>11. ASSUME NEW p \in Places
         PROVE  At(v, p) = IF p = <<i, j>> THEN Append(At(w, p), n) ELSE At(w, p)
    <3>1. CASE p[1] = Near
      <4>1. p # <<i, j>>
        BY <2>4, <3>1
      <4> QED BY <2>8, <3>1, <4>1 DEF At
    <3>2. CASE p[1] # Near
      <4>1. p = <<p[1], p[2]>> /\ p[1] \in 0 .. LEVELS - 1 /\ p[2] \in 0 .. TIME_LEVEL - 2
        BY <3>2 DEF Places
      <4>2. p = <<i, j>> <=> p[1] = i /\ p[2] = j
        BY <4>1
      <4>3. At(v, p) = v.t[p[1]][p[2]] /\ At(w, p) = w.t[p[1]][p[2]]
        BY <3>2 DEF At
      <4>4. v.t[p[1]][p[2]] = IF p[1] = i /\ p[2] = j THEN Append(w.t[i][j], n) ELSE w.t[p[1]][p[2]]
        BY <2>5, <2>6, <2>9, <4>1
      <4> QED BY <4>2, <4>3, <4>4
    <3> QED BY <3>1, <3>2
  <2> QED BY <2>2, <2>10, <2>11 DEF v
<1> QED BY <1>1, <1>2

-----------------------------------------------------------------------------
(* The loop of timer_shift, in its steps.                                  *)
LEMMA Relinking ==
    ASSUME WheelAssumption, NEW w \in Wheels, NEW list \in Seq(Node), NEW x \in Span,
           expire \in [Node -> Span],
           \A k \in 1 .. Len(list) : Place(expire[list[k]], x) \in Places
    PROVE  \E v \in [0 .. Len(list) -> Wheels] :
               /\ v[0] = w /\ v[Len(list)] = Relinked(w, list, x)
               /\ \A k \in 1 .. Len(list) : v[k] = Linked(v[k - 1], list[k], expire[list[k]], x)
<1> DEFINE N == Len(list)
           Link(u, k) == Linked(u, list[k], expire[list[k]], x)
           step == [k \in 1 .. N |-> [u \in Wheels |-> Link(u, k)]]
<1>1. N \in Nat /\ \A k \in 1 .. N : list[k] \in Node
  OBVIOUS
<1>2. \A k \in 1 .. N, u \in Wheels : Link(u, k) \in Wheels
  <2>1. TAKE k \in 1 .. N, u \in Wheels
  <2>2. list[k] \in Node /\ expire[list[k]] \in Span
    BY <1>1
  <2> QED BY <2>2, LinkedAt
<1> HIDE DEF Link, N
<1>3. step \in [1 .. N -> [Wheels -> Wheels]]
  BY <1>2
<1> HIDE DEF step
<1>4. PICK f \in [0 .. N -> Wheels] :
        f[0] = w /\ \A k \in 1 .. N : f[k] = step[k][f[k - 1]]
  <2>1. PICK f \in Recursion(N, Wheels, w, step) : TRUE
    BY <1>1, <1>3, RecursionTo
  <2> QED BY <2>1 DEF Recursion
<1>5. \A k \in 1 .. N, u \in Wheels : step[k][u] = Link(u, k)
  BY DEF step
<1>6. \A k \in 1 .. N : k - 1 \in 0 .. N /\ f[k - 1] \in Wheels /\ k # 0 /\ k \in 0 .. N
  BY <1>1, <1>4
<1>7. \A k \in 1 .. N : f[k] = Link(f[k - 1], k)
  BY <1>4, <1>5, <1>6
<1> DEFINE Loop(g) == [k \in 0 .. N |-> IF k = 0 THEN w ELSE Link(g[k - 1], k)]
<1>8. f = Loop(f)
  <2>1. ASSUME NEW k \in 0 .. N PROVE f[k] = IF k = 0 THEN w ELSE Link(f[k - 1], k)
    <3>1. CASE k = 0
      BY <1>4, <3>1
    <3>2. CASE k # 0
      <4>1. k \in 1 .. N
        BY <1>1, <3>2
      <4> QED BY <1>7, <3>2, <4>1
    <3> QED BY <3>1, <3>2
  <2> QED BY <1>4, <2>1
<1>9. \E g : g = Loop(g)
  <2> HIDE DEF Loop
  <2> QED BY <1>8
<1>10. PICK g : g = Loop(g) /\ Relinked(w, list, x) = g[N]
  <2> DEFINE G == CHOOSE g : g = Loop(g)
  <2>1. G = Loop(G)
    <3> HIDE DEF Loop
    <3> QED BY <1>9
  <2>2. Relinked(w, list, x) = G[N]
    BY DEF Relinked, Link, N
  <2> HIDE DEF G
  <2> QED BY <2>1, <2>2
<1>11. /\ g[0] = w
       /\ \A k \in 1 .. N : g[k] = Link(g[k - 1], k)
  <2>1. 0 \in 0 .. N
    BY <1>1
  <2>2. \A k \in 0 .. N : g[k] = IF k = 0 THEN w ELSE Link(g[k - 1], k)
    BY <1>10
  <2> HIDE DEF Loop
  <2> QED BY <1>6, <2>1, <2>2
<1> HIDE DEF Loop
<1>12. \A k \in 0 .. N : g[k] = f[k]
  <2> DEFINE S == {k \in Nat : k <= N => g[k] = f[k]}
  <2>1. 0 \in S
    BY <1>4, <1>11
  <2>2. ASSUME NEW k \in S PROVE k + 1 \in S
    <3>1. SUFFICES ASSUME k + 1 <= N PROVE g[k + 1] = f[k + 1]
      OBVIOUS
    <3>2. k + 1 \in 1 .. N /\ (k + 1) - 1 = k /\ g[k] = f[k]
      BY <1>1, <3>1
    <3> QED BY <1>7, <1>11, <3>2
  <2>3. S = Nat
    <3>1. S \in SUBSET Nat
      OBVIOUS
    <3> HIDE DEF S
    <3> QED BY <2>1, <2>2, <3>1, EveryNumber
  <2>4. \A k \in 0 .. N : k \in S /\ k <= N
    BY <1>1, <2>3
  <2> QED BY <2>4
<1>13. f[N] = Relinked(w, list, x)
  BY <1>1, <1>10, <1>12
<1> QED BY <1>4, <1>7, <1>13 DEF Link, N

(* What the loop makes of a wheel whose lists at the nodes' new places are *)
(* empty: these get the nodes that belong there, in the order of the list, *)
(* and the other lists stay.                                               *)
Moved(list, x, k, p) == {m \in 1 .. k : Place(expire[list[m]], x) = p}

Sifted(list, x, k, p, s) ==
    /\ \A a \in 1 .. Len(s) : \E m \in Moved(list, x, k, p) : s[a] = list[m]
    /\ \A a, b \in 1 .. Len(s) : a < b =>
           \E m, l \in Moved(list, x, k, p) : m < l /\ s[a] = list[m] /\ s[b] = list[l]
    /\ \A m \in Moved(list, x, k, p) : \E a \in 1 .. Len(s) : s[a] = list[m]

(* One more node is linked.                                                *)
LEMMA SiftOne ==
    ASSUME NEW list \in Seq(Node), NEW x, NEW k \in Nat, k + 1 \in 1 .. Len(list), NEW p, NEW s \in Seq(Node),
           Sifted(list, x, k, p, s)
    PROVE  Sifted(list, x, k + 1, p,
                  IF p = Place(expire[list[k + 1]], x) THEN Append(s, list[k + 1]) ELSE s)
<1> DEFINE M == Moved(list, x, k, p)
           M1 == Moved(list, x, k + 1, p)
           n == list[k + 1]
<1>1. M1 = IF p = Place(expire[n], x) THEN M \cup {k + 1} ELSE M
  <2>1. \A m : m \in 1 .. k + 1 <=> m \in 1 .. k \/ m = k + 1
    OBVIOUS
  <2> QED BY <2>1 DEF Moved
<1>2. \A m \in M : m \in Nat /\ m < k + 1
  BY DEF Moved
<1>3. CASE p # Place(expire[n], x)
  <2>1. M1 = M
    BY <1>1, <1>3
  <2> QED BY <1>3, <2>1 DEF Sifted
<1>4. CASE p = Place(expire[n], x)
  <2> DEFINE r == Append(s, n)
  <2>1. M1 = M \cup {k + 1}
    BY <1>1, <1>4
  <2>2. n \in Node
    OBVIOUS
  <2>3. Len(s) \in Nat /\ Len(r) = Len(s) + 1 /\ r[Len(s) + 1] = n
        /\ \A a \in 1 .. Len(s) : r[a] = s[a]
    BY <2>2
  <2> HIDE DEF M, M1, r
  <2>4. \A a \in 1 .. Len(r) : a \in 1 .. Len(s) \/ a = Len(s) + 1
    BY <2>3
  <2>5. \A a \in 1 .. Len(s) : a \in 1 .. Len(r)
    BY <2>3
  <2>6. Len(s) + 1 \in 1 .. Len(r)
    BY <2>3
  <2>7. /\ \A a \in 1 .. Len(s) : \E m \in M : s[a] = list[m]
        /\ \A a, b \in 1 .. Len(s) : a < b => \E m, l \in M : m < l /\ s[a] = list[m] /\ s[b] = list[l]
        /\ \A m \in M : \E a \in 1 .. Len(s) : s[a] = list[m]
    BY DEF Sifted, M
  <2>8. ASSUME NEW a \in 1 .. Len(r) PROVE \E m \in M1 : r[a] = list[m]
    <3>1. CASE a \in 1 .. Len(s)
      <4>1. PICK m \in M : s[a] = list[m]
        BY <2>7, <3>1
      <4>2. m \in M1 /\ r[a] = s[a]
        BY <2>1, <2>3, <3>1
      <4> QED BY <4>1, <4>2
    <3>2. CASE a = Len(s) + 1
      BY <2>1, <2>3, <3>2
    <3> QED BY <2>4, <3>1, <3>2
  <2>9. ASSUME NEW a \in 1 .. Len(r), NEW b \in 1 .. Len(r), a < b
        PROVE  \E m, l \in M1 : m < l /\ r[a] = list[m] /\ r[b] = list[l]
    <3>1. a \in 1 .. Len(s)
      BY <2>3, <2>9
    <3>2. CASE b \in 1 .. Len(s)
      <4>1. PICK m \in M, l \in M : m < l /\ s[a] = list[m] /\ s[b] = list[l]
        BY <2>7, <2>9, <3>1, <3>2
      <4> QED BY <2>1, <2>3, <3>1, <3>2, <4>1
    <3>3. CASE b = Len(s) + 1
      <4>1. PICK m \in M : s[a] = list[m]
        BY <2>7, <3>1
      <4>2. m \in M1 /\ k + 1 \in M1 /\ m < k + 1
        BY <1>2, <2>1, <4>1
      <4>3. r[a] = list[m] /\ r[b] = list[k + 1]
        BY <2>3, <3>1, <3>3, <4>1
      <4> QED BY <4>2, <4>3
    <3> QED BY <2>4, <3>2, <3>3
  <2>10. ASSUME NEW m \in M1 PROVE \E a \in 1 .. Len(r) : r[a] = list[m]
    <3>1. CASE m \in M
      BY <2>3, <2>5, <2>7, <3>1
    <3>2. CASE m = k + 1
      BY <2>3, <2>6, <3>2
    <3> QED BY <2>1, <3>1, <3>2
  <2>11. Sifted(list, x, k + 1, p, r)
    BY <2>8, <2>9, <2>10 DEF Sifted, M1
  <2> QED BY <1>4, <2>11 DEF r
<1> QED BY <1>3, <1>4

(* The loop of timer_shift: every list of the wheel gets its part of the   *)
(* list that was taken out, or stays as it was.                            *)
LEMMA RelinkedIs ==
    ASSUME WheelAssumption, NEW w \in Wheels, NEW list \in Seq(Node), NEW x \in Span,
           expire \in [Node -> Span],
           \A k \in 1 .. Len(list) :
               LET p == Place(expire[list[k]], x) IN p \in Places /\ At(w, p) = <<>>
    PROVE  /\ Relinked(w, list, x) \in Wheels
           /\ \A p \in Places :
                  \/ /\ At(w, p) = <<>>
                     /\ Sifted(list, x, Len(list), p, At(Relinked(w, list, x), p))
                  \/ /\ Moved(list, x, Len(list), p) = {}
                     /\ At(Relinked(w, list, x), p) = At(w, p)
<1> DEFINE N == Len(list)
<1>1. N \in Nat
  OBVIOUS
<1>2. PICK v \in [0 .. N -> Wheels] :
         /\ v[0] = w /\ v[N] = Relinked(w, list, x)
         /\ \A k \in 1 .. N : v[k] = Linked(v[k - 1], list[k], expire[list[k]], x)
  BY Relinking
<1> HIDE DEF N
<1>3. \A k \in 0 .. N : v[k] \in Wheels
  BY <1>2
<1>4. ASSUME NEW u \in Wheels, NEW p \in Places PROVE At(u, p) \in Seq(Node)
  <2>1. CASE p[1] = Near
    <3>1. p[2] \in 0 .. TIME_NEAR - 1
      BY <2>1 DEF Places, Near, LEVELS
    <3> QED BY <2>1, <3>1 DEF Wheels, At
  <2>2. CASE p[1] # Near
    <3>1. p[1] \in 0 .. LEVELS - 1 /\ p[2] \in 0 .. TIME_LEVEL - 2
      BY <2>2 DEF Places
    <3>2. u.t[p[1]] \in [0 .. TIME_LEVEL - 2 -> Seq(Node)]
      BY <3>1 DEF Wheels
    <3> QED BY <2>2, <3>1, <3>2 DEF At
  <2> QED BY <2>1, <2>2
<1>5. ASSUME NEW k \in Nat, k + 1 \in 1 .. N, NEW p \in Places
      PROVE  At(v[k + 1], p) = IF p = Place(expire[list[k + 1]], x)
                               THEN Append(At(v[k], p), list[k + 1]) ELSE At(v[k], p)
  <2>1. k \in 0 .. N /\ (k + 1) - 1 = k
    BY <1>1, <1>5
  <2>2. list[k + 1] \in Node /\ Place(expire[list[k + 1]], x) \in Places
        /\ expire[list[k + 1]] \in Span
    BY <1>5 DEF N
  <2>3. v[k + 1] = Linked(v[k], list[k + 1], expire[list[k + 1]], x) /\ v[k] \in Wheels
    BY <1>2, <1>3, <1>5, <2>1
  <2>4. PICK n \in Node, e \in Span, u \in Wheels : n = list[k + 1] /\ e = expire[n] /\ u = v[k]
    BY <2>2, <2>3
  <2>5. Place(e, x) \in Places
    BY <2>2, <2>4
  <2>6. At(Linked(u, n, e, x), p) = IF p = Place(e, x) THEN Append(At(u, p), n) ELSE At(u, p)
    BY <2>5, LinkedAt
  <2> QED BY <2>3, <2>4, <2>6
<1>6. ASSUME NEW p \in Places, At(w, p) = <<>> PROVE Sifted(list, x, N, p, At(v[N], p))
  <2> DEFINE S == {k \in Nat : k <= N => Sifted(list, x, k, p, At(v[k], p))}
  <2>1. 0 \in S
    <3>1. Moved(list, x, 0, p) = {}
      BY DEF Moved
    <3>2. At(v[0], p) = <<>>
      BY <1>2, <1>6
    <3>3. Sifted(list, x, 0, p, <<>>)
      BY <3>1 DEF Sifted
    <3> QED BY <3>2, <3>3
  <2>2. ASSUME NEW k \in S PROVE k + 1 \in S
    <3>1. SUFFICES ASSUME k + 1 <= N PROVE Sifted(list, x, k + 1, p, At(v[k + 1], p))
      OBVIOUS
    <3>2. k \in Nat /\ k + 1 \in 1 .. N /\ k \in 0 .. N /\ Sifted(list, x, k, p, At(v[k], p))
      BY <1>1, <3>1
    <3>3. At(v[k], p) \in Seq(Node)
      BY <1>3, <1>4, <3>2
    <3>4. At(v[k + 1], p) = IF p = Place(expire[list[k + 1]], x)
                            THEN Append(At(v[k], p), list[k + 1]) ELSE At(v[k], p)
      BY <1>5, <3>2
    <3> HIDE DEF S
    <3> QED BY <3>2, <3>3, <3>4, SiftOne DEF N
  <2>3. S = Nat
    <3>1. S \in SUBSET Nat
      OBVIOUS
    <3> HIDE DEF S
    <3> QED BY <2>1, <2>2, <3>1, EveryNumber
  <2>4. N \in S /\ N <= N
    BY <1>1, <2>3
  <2> QED BY <2>4
<1>7. ASSUME NEW p \in Places, At(w, p) # <<>>
      PROVE  Moved(list, x, N, p) = {} /\ At(v[N], p) = At(w, p)
  <2>1. \A k \in 1 .. N : p # Place(expire[list[k]], x)
    BY <1>7 DEF N
  <2> DEFINE S == {k \in Nat : k <= N => At(v[k], p) = At(w, p)}
  <2>2. 0 \in S
    BY <1>2
  <2>3. ASSUME NEW k \in S PROVE k + 1 \in S
    <3>1. SUFFICES ASSUME k + 1 <= N PROVE At(v[k + 1], p) = At(w, p)
      OBVIOUS
    <3>2. k \in Nat /\ k + 1 \in 1 .. N /\ At(v[k], p) = At(w, p)
      BY <1>1, <3>1
    <3> QED BY <1>5, <2>1, <3>2
  <2>4. S = Nat
    <3>1. S \in SUBSET Nat
      OBVIOUS
    <3> HIDE DEF S
    <3> QED BY <2>2, <2>3, <3>1, EveryNumber
  <2>5. N \in S /\ N <= N
    BY <1>1, <2>4
  <2>6. Moved(list, x, N, p) = {}
    BY <2>1 DEF Moved
  <2> QED BY <2>5, <2>6
<1>8. Relinked(w, list, x) \in Wheels
  BY <1>1, <1>2, <1>3
<1> QED BY <1>2, <1>6, <1>7, <1>8 DEF N

-----------------------------------------------------------------------------
(* What the parts of the invariant say together.                           *)

(* At a place of the wheel there is a sequence of nodes.                   *)
LEMMA ListAt ==
    ASSUME NEW w \in Wheels, NEW p \in Places
    PROVE  At(w, p) \in Seq(Node) /\ Len(At(w, p)) \in Nat
           /\ \A a \in 1 .. Len(At(w, p)) : a \in Nat /\ At(w, p)[a] \in Node
<1>1. At(w, p) \in Seq(Node)
  <2>1. CASE p[1] = Near
    <3>1. p[2] \in 0 .. TIME_NEAR - 1
      BY <2>1 DEF Places, Near, LEVELS
    <3> QED BY <2>1, <3>1 DEF Wheels, At
  <2>2. CASE p[1] # Near
    <3>1. p[1] \in 0 .. LEVELS - 1 /\ p[2] \in 0 .. TIME_LEVEL - 2
      BY <2>2 DEF Places
    <3>2. w.t[p[1]] \in [0 .. TIME_LEVEL - 2 -> Seq(Node)]
      BY <3>1 DEF Wheels
    <3> QED BY <2>2, <3>1, <3>2 DEF At
  <2> QED BY <2>1, <2>2
<1> QED BY <1>1, ElementOfSeq, LenProperties

(* No node is added twice.                                                 *)
LEMMA NotBeforeItself ==
    ASSUME AddedOnce, NEW n PROVE ~Before(n, n)
<1>1. SUFFICES ASSUME Before(n, n) PROVE FALSE
  OBVIOUS
<1>2. PICK i, j \in 1 .. Len(order) : i < j /\ order[i] = n /\ order[j] = n
  BY <1>1 DEF Before
<1>3. i = j
  BY <1>2 DEF AddedOnce
<1> QED BY <1>2, <1>3

(* A node that waits either expires in its tick, which is not over, or is  *)
(* behind until the time rewinds.                                          *)
LEMMA WhoWaits ==
    ASSUME WheelAssumption, WheelTypeOK, NotLate, Ticks, NEW n \in Node, Pending(n)
    PROVE  /\ expire[n] \in Span /\ time \in Span /\ Span \subseteq Nat
           /\ (due[n] = expire[n] /\ time <= expire[n]) \/ (due[n] > now /\ Behind(expire[n], time))
           /\ due[n] = now <=> expire[n] = time
<1>1. expire[n] \in Span /\ time \in Span /\ Span \subseteq Nat /\ WIDTH \in Nat
      /\ time < WIDTH /\ now = time /\ due[n] \in Nat /\ expire[n] \in Nat
  <2>1. Span \subseteq Nat /\ WIDTH \in Nat
    BY SpanIs
  <2>2. expire[n] \in Span /\ time \in Span /\ now = time /\ due[n] \in Nat
    BY DEF WheelTypeOK, Ticks
  <2>3. time < WIDTH
    BY <2>1, <2>2 DEF Span
  <2> QED BY <2>1, <2>2, <2>3
<1>2. due[n] >= now
  BY <1>1 DEF NotLate
<1>3. CASE due[n] = expire[n]
  BY <1>1, <1>2, <1>3
<1>4. CASE due[n] = expire[n] + WIDTH /\ Behind(expire[n], time)
  <2>1. due[n] > now
    BY <1>1, <1>4
  <2>2. expire[n] # time
    <3>1. LEVELS - 1 \in 0 .. LEVELS
      BY DEF LEVELS
    <3>2. Stretch(time, LEVELS - 1) \in Nat
      BY <1>1, <3>1, Stretches
    <3> QED BY <1>4, <3>2 DEF Behind
  <2> QED BY <1>1, <1>4, <2>1, <2>2
<1> QED BY <1>3, <1>4 DEF Ticks

(* The list of the tick has the nodes that are due now, and no others.     *)
LEMMA DueNow ==
    ASSUME WheelAssumption, WheelTypeOK, NotLate, Ticks, NEW n \in Node, Pending(n)
    PROVE  Place(expire[n], time) = <<Near, time % TIME_NEAR>> <=> due[n] = now
<1>1. expire[n] \in Span /\ time \in Span /\ (due[n] = now <=> expire[n] = time)
  BY WhoWaits
<1> QED BY <1>1, PlaceOfNow

(* The list of a tick, as timer_execute finds it.                          *)
LEMMA PlaceOfTick ==
    ASSUME WheelAssumption, NEW x \in Span
    PROVE  /\ <<Near, x % TIME_NEAR>> \in Places /\ x % TIME_NEAR \in 0 .. TIME_NEAR - 1
           /\ \A w : At(w, <<Near, x % TIME_NEAR>>) = w.near[x % TIME_NEAR]
<1>1. x \in Nat /\ TIME_NEAR \in Nat /\ TIME_NEAR > 0
  BY SpanIs DEF WheelAssumption
<1>2. x % TIME_NEAR \in 0 .. TIME_NEAR - 1
  BY <1>1
<1> QED BY <1>2 DEF Places, At

-----------------------------------------------------------------------------
(* The steps.                                                              *)

(* timer_create_timer: all lists are empty.                                *)
LEMMA WheelStarts == WheelAssumption /\ WheelInit => WheelInv
<1> SUFFICES ASSUME WheelAssumption, WheelInit PROVE WheelInv
  OBVIOUS
<1> USE DEF WheelInit
<1>1. Len(log) = 0 /\ Len(order) = 0 /\ Len(current) = 0
  OBVIOUS
<1>2. \A n \in Node : ~Pending(n)
  BY DEF Pending
<1>3. WheelTypeOK
  <2>1. WIDTH \in Nat /\ WIDTH > 0
    BY SpanIs
  <2>2. 0 \in Span
    BY <2>1 DEF Span
  <2>3. Lists \in Wheels
    BY DEF Lists, Wheels
  <2> QED BY <2>2, <2>3 DEF WheelTypeOK
<1>4. \A p \in Places : At(Lists, p) = <<>>
  <2>1. TAKE p \in Places
  <2>2. CASE p[1] = Near
    <3>1. p[2] \in 0 .. TIME_NEAR - 1
      BY <2>2 DEF Places, Near, LEVELS
    <3> QED BY <2>2, <3>1 DEF At, Lists
  <2>3. CASE p[1] # Near
    <3>1. p[1] \in 0 .. LEVELS - 1 /\ p[2] \in 0 .. TIME_LEVEL - 2
      BY <2>3 DEF Places
    <3>2. t[p[1]] = [j \in 0 .. TIME_LEVEL - 2 |-> <<>>]
      BY <3>1
    <3> QED BY <2>3, <3>1, <3>2 DEF At, Lists
  <2> QED BY <2>2, <2>3
<1>5. AddedOnce
  BY <1>1 DEF AddedOnce
<1>6. DispatchedOnce
  BY <1>1 DEF DispatchedOnce
<1>7. NotLate /\ Complete
  BY <1>2 DEF NotLate, Complete
<1>8. Overtaken
  BY <1>1 DEF Overtaken
<1>9. Ticks
  BY <1>2 DEF Ticks
<1>10. Sorted
  BY <1>4 DEF Sorted
<1>11. Running
  BY <1>1 DEF Running
<1> QED BY <1>3, <1>5, <1>6, <1>7, <1>8, <1>9, <1>10, <1>11 DEF WheelInv

(* skynet_updatetime changes no list.                                      *)
LEMMA UpdateKeeps == WheelInv /\ fault = "none" /\ Update => WheelInv'
<1> SUFFICES ASSUME WheelInv, fault = "none", Update PROVE WheelInv'
  OBVIOUS
<1>1. /\ pc = "wait" /\ pc' = "first"
      /\ UNCHANGED <<time, near, t, expire, current, now, due, log, order, fault>>
  BY DEF Update, wheel
<1>2. WheelTypeOK'
  BY <1>1 DEF WheelInv, WheelTypeOK, Lists
<1>3. AddedOnce' /\ DispatchedOnce' /\ Overtaken' /\ Ticks' /\ Sorted' /\ Complete'
  <2>1. Lists' = Lists /\ \A n : (Pending(n)' <=> Pending(n)) /\ (Taken(n)' <=> Taken(n))
    BY <1>1 DEF Lists, Pending, Taken
  <2>2. \A m, n : Before(m, n)' <=> Before(m, n)
    BY <1>1 DEF Before
  <2>3. AddedOnce' /\ DispatchedOnce'
    BY <1>1 DEF WheelInv, AddedOnce, DispatchedOnce
  <2>4. Overtaken'
    BY <1>1, <2>1, <2>2 DEF WheelInv, Overtaken
  <2>5. Ticks' /\ Complete'
    BY <1>1, <2>1 DEF WheelInv, Ticks, Complete
  <2>6. Sorted'
    BY <1>1, <2>1, <2>2 DEF WheelInv, Sorted
  <2> QED BY <2>3, <2>4, <2>5, <2>6
<1>4. NotLate'
  BY <1>1 DEF WheelInv, NotLate, Pending
<1>5. Running'
  BY <1>1 DEF WheelInv, Running, Pending, Before
<1> QED BY <1>1, <1>2, <1>3, <1>4, <1>5 DEF WheelInv

(* dispatch_list: the first node of the taken list has its tick now, and   *)
(* nobody who was asked for earlier waits for this tick.                   *)
LEMMA FireKeeps == WheelAssumption /\ WheelInv /\ fault = "none" /\ Fire => WheelInv'
<1> SUFFICES ASSUME WheelAssumption, WheelInv, fault = "none", Fire PROVE WheelInv'
  OBVIOUS
<1> DEFINE L == Len(log)
<1>0. PICK n : n = current[1]
  OBVIOUS
<1>1. /\ current # <<>> /\ log' = Append(log, [node |-> n, at |-> now])
      /\ current' = Tail(current)
      /\ UNCHANGED <<time, near, t, expire, pc, diff, now, due, order, fault>>
  BY <1>0 DEF Fire, wheel
<1>2. /\ WheelTypeOK /\ AddedOnce /\ DispatchedOnce /\ NotLate /\ Overtaken
      /\ Ticks /\ Sorted /\ Complete /\ Running
  BY DEF WheelInv
<1>3. current \in Seq(Node) /\ log \in Seq([node : Node, at : Nat]) /\ now \in Nat
      /\ order \in Seq(Node) /\ due \in [Node -> Nat]
  BY <1>2 DEF WheelTypeOK
<1>4. Len(current) \in Nat /\ Len(current) > 0 /\ 1 \in 1 .. Len(current) /\ n \in Node
  BY <1>0, <1>1, <1>3
<1>5. /\ Len(current') = Len(current) - 1 /\ current' \in Seq(Node)
      /\ \A a \in 1 .. Len(current') : current'[a] = current[a + 1] /\ a + 1 \in 1 .. Len(current)
  BY <1>1, <1>3, <1>4
<1>6. Pending(n) /\ due[n] = now
  BY <1>0, <1>2, <1>4 DEF Running
<1>7. /\ L \in Nat /\ Len(log') = L + 1 /\ log' \in Seq([node : Node, at : Nat])
      /\ log'[L + 1] = [node |-> n, at |-> now]
      /\ \A k \in 1 .. L : log'[k] = log[k]
  <2>1. [node |-> n, at |-> now] \in [node : Node, at : Nat]
    BY <1>3, <1>4
  <2> QED BY <1>1, <1>3, <2>1
<1>8. log'[L + 1].node = n /\ log'[L + 1].at = now
  BY <1>7
<1> HIDE DEF L
<1>9. \A k \in 1 .. Len(log') : k \in 1 .. L \/ k = L + 1
  BY <1>7
<1>10. \A k \in 1 .. L : log[k].node # n /\ log[k].node \in Node /\ k < L + 1 /\ k \in 1 .. Len(log')
  <2>1. \A k \in 1 .. L : log[k] \in [node : Node, at : Nat]
    BY <1>3, ElementOfSeq DEF L
  <2> QED BY <1>6, <1>7, <2>1 DEF Pending, L
<1>11. \A m : Pending(m)' <=> Pending(m) /\ m # n
  <2>1. TAKE m
  <2>2. (\A k \in 1 .. Len(log') : log'[k].node # m) <=>
        (\A k \in 1 .. L : log[k].node # m) /\ n # m
    <3>1. L + 1 \in 1 .. Len(log')
      BY <1>7
    <3> QED BY <1>7, <1>8, <1>9, <1>10, <3>1
  <2> QED BY <1>1, <2>2 DEF Pending, L
<1>12. \A m, o : Before(m, o)' <=> Before(m, o)
  BY <1>1 DEF Before
<1>13. \A a \in 1 .. Len(current) : a # 1 => Before(n, current[a])
  <2>1. TAKE a \in 1 .. Len(current)
  <2>2. a # 1 => 1 < a
    BY <1>4
  <2> QED BY <1>0, <1>2, <1>4, <2>2 DEF Running
<1>14. \A m : Taken(m) <=> Taken(m)' \/ m = n
  <2>1. TAKE m
  <2>2. ASSUME NEW a \in 1 .. Len(current), current[a] = m, m # n PROVE Taken(m)'
    <3>1. a # 1
      BY <1>0, <2>2
    <3>2. a - 1 \in 1 .. Len(current') /\ (a - 1) + 1 = a
      BY <1>4, <1>5, <3>1
    <3>3. current'[a - 1] = m
      BY <1>5, <2>2, <3>2
    <3> QED BY <3>2, <3>3 DEF Taken
  <2>3. Taken(m)' => Taken(m)
    BY <1>5 DEF Taken
  <2>4. m = n => Taken(m)
    BY <1>0, <1>4 DEF Taken
  <2> QED BY <2>2, <2>3, <2>4 DEF Taken
<1>15. ~Taken(n)'
  <2>1. SUFFICES ASSUME NEW a \in 1 .. Len(current'), current'[a] = n PROVE FALSE
    BY DEF Taken
  <2>2. current[a + 1] = n /\ a + 1 \in 1 .. Len(current) /\ a + 1 # 1
    BY <1>5, <2>1
  <2> QED BY <1>2, <1>13, <2>2, NotBeforeItself
<1>16. ASSUME NEW m \in Node, Pending(m), m # n, due[m] = now PROVE Before(n, m)
  <2>1. CASE Taken(m)
    <3>1. PICK a \in 1 .. Len(current) : current[a] = m
      BY <2>1 DEF Taken
    <3> QED BY <1>0, <1>13, <1>16, <3>1
  <2>2. CASE ~Taken(m)
    <3> DEFINE p == Place(expire[m], time)
    <3>1. p = <<Near, time % TIME_NEAR>>
      BY <1>2, <1>16, DueNow
    <3>2. \E a \in 1 .. Len(At(Lists, p)) : At(Lists, p)[a] = m
      BY <1>2, <1>16, <2>2 DEF Complete
    <3>3. At(Lists, p) = <<>>
      <4>1. time \in Span /\ near[time % TIME_NEAR] = <<>>
        BY <1>1, <1>2 DEF Running, WheelTypeOK
      <4>2. At(Lists, <<Near, time % TIME_NEAR>>) = Lists.near[time % TIME_NEAR]
        BY <4>1, PlaceOfTick
      <4> QED BY <3>1, <4>1, <4>2 DEF Lists
    <3> HIDE DEF p
    <3> QED BY <3>2, <3>3
  <2> QED BY <2>1, <2>2
<1>17. Lists' = Lists
  BY <1>1 DEF Lists
<1>18. WheelTypeOK'
  BY <1>1, <1>2, <1>5, <1>7, <1>17 DEF WheelTypeOK
<1>19. AddedOnce'
  BY <1>1, <1>2 DEF AddedOnce
<1>20. DispatchedOnce'
  <2>1. ASSUME NEW k \in 1 .. Len(log'), NEW l \in 1 .. Len(log'), log'[k].node = log'[l].node
        PROVE  k = l
    <3>1. CASE k \in 1 .. L /\ l \in 1 .. L
      BY <1>2, <1>7, <2>1, <3>1 DEF DispatchedOnce, L
    <3>2. CASE k = L + 1 \/ l = L + 1
      BY <1>7, <1>8, <1>9, <1>10, <2>1, <3>2
    <3> QED BY <1>9, <3>1, <3>2
  <2>2. ASSUME NEW k \in 1 .. Len(log')
        PROVE  log'[k].at = due[log'[k].node] /\ due[log'[k].node] # 0 /\ log'[k].at <= now
    <3>1. CASE k \in 1 .. L
      BY <1>2, <1>7, <3>1 DEF DispatchedOnce, L
    <3>2. CASE k = L + 1
      BY <1>3, <1>6, <1>8, <3>2 DEF Pending
    <3> QED BY <1>9, <3>1, <3>2
  <2> QED BY <1>1, <2>1, <2>2 DEF DispatchedOnce
<1>21. NotLate'
  BY <1>1, <1>2, <1>11 DEF NotLate
<1>22. Overtaken'
  <2>1. ASSUME NEW k \in 1 .. Len(log'), NEW l \in 1 .. Len(log'), k < l, log'[k].at = log'[l].at
        PROVE  Before(log'[k].node, log'[l].node)
    <3>1. k \in 1 .. L
      BY <1>7, <1>9, <2>1
    <3>2. CASE l \in 1 .. L
      BY <1>2, <1>7, <2>1, <3>1, <3>2 DEF Overtaken, L
    <3>3. CASE l = L + 1
      <4>1. log[k].at = due[n] /\ log'[k].node = log[k].node /\ log'[l].node = n
        BY <1>6, <1>7, <1>8, <2>1, <3>1, <3>3
      <4> QED BY <1>2, <1>4, <1>6, <3>1, <4>1 DEF Overtaken, L
    <3> QED BY <1>9, <3>2, <3>3
  <2>2. ASSUME NEW k \in 1 .. Len(log'), NEW m \in Node, Pending(m)', due[m] = log'[k].at
        PROVE  Before(log'[k].node, m)
    <3>1. Pending(m) /\ m # n
      BY <1>11, <2>2
    <3>2. CASE k \in 1 .. L
      BY <1>2, <1>7, <2>2, <3>1, <3>2 DEF Overtaken, L
    <3>3. CASE k = L + 1
      BY <1>8, <1>16, <2>2, <3>1, <3>3
    <3> QED BY <1>9, <3>2, <3>3
  <2> QED BY <1>1, <1>12, <2>1, <2>2 DEF Overtaken
<1>23. Ticks'
  BY <1>1, <1>2, <1>11 DEF Ticks
<1>24. Sorted'
  <2>1. ASSUME NEW p \in Places, NEW a \in Nat, a \in 1 .. Len(At(Lists, p))
        PROVE  \A m : m = At(Lists, p)[a] =>
                   Pending(m)' /\ ~Taken(m)' /\ Place(expire[m], time) = p
    <3>1. TAKE m
    <3>2. HAVE m = At(Lists, p)[a]
    <3>3. Pending(m) /\ ~Taken(m) /\ Place(expire[m], time) = p
      BY <1>2, <2>1, <3>2 DEF Sorted
    <3>4. Taken(n)
      BY <1>14
    <3> QED BY <1>11, <1>14, <3>3, <3>4
  <2>2. \A p \in Places, a, b \in Nat :
          a \in 1 .. Len(At(Lists, p)) /\ b \in 1 .. Len(At(Lists, p)) /\ a < b =>
             \A m, o : m = At(Lists, p)[a] /\ o = At(Lists, p)[b] => Before(m, o)'
    BY <1>2, <1>12 DEF Sorted
  <2> QED BY <1>1, <1>17, <2>1, <2>2 DEF Sorted
<1>25. Complete'
  <2>1. ASSUME NEW m \in Node, Pending(m)', ~Taken(m)'
        PROVE  LET p == Place(expire[m], time)
               IN  p \in Places /\ \E a \in 1 .. Len(At(Lists, p)) : At(Lists, p)[a] = m
    <3>1. Pending(m) /\ ~Taken(m)
      BY <1>11, <1>14, <2>1
    <3> QED BY <1>2, <3>1 DEF Complete
  <2> QED BY <1>1, <1>17, <2>1 DEF Complete
<1>26. Running'
  <2>1. ASSUME NEW a \in 1 .. Len(current'), NEW m, m = current'[a] PROVE Pending(m)' /\ due[m] = now
    <3>1. Taken(m)'
      BY <2>1 DEF Taken
    <3>2. m # n
      BY <1>15, <3>1
    <3>3. m = current[a + 1] /\ a + 1 \in 1 .. Len(current)
      BY <1>5, <2>1
    <3>4. Pending(m) /\ due[m] = now
      BY <1>2, <3>3 DEF Running
    <3> QED BY <1>11, <3>2, <3>4
  <2>2. ASSUME NEW a \in 1 .. Len(current'), NEW b \in 1 .. Len(current'), a < b,
               NEW m, NEW o, m = current'[a], o = current'[b]
        PROVE  Before(m, o)'
    <3>1. a + 1 < b + 1 /\ m = current[a + 1] /\ o = current[b + 1]
          /\ a + 1 \in 1 .. Len(current) /\ b + 1 \in 1 .. Len(current)
      BY <1>5, <2>2
    <3>2. Before(m, o)
      BY <1>2, <3>1 DEF Running
    <3> QED BY <1>12, <3>2
  <2>3. pc = "second" /\ near[time % TIME_NEAR] = <<>>
    BY <1>1, <1>2 DEF Running
  <2> QED BY <1>1, <1>12, <2>1, <2>2, <2>3 DEF Running
<1> QED BY <1>18, <1>19, <1>20, <1>21, <1>22, <1>23, <1>24, <1>25, <1>26 DEF WheelInv

(* The list of the tick is taken: it has all nodes that are due.           *)
LEMMA TakeKeeps ==
    WheelAssumption /\ WheelInv /\ fault = "none" /\ near[time % TIME_NEAR] # <<>> /\ Execute => WheelInv'
<1> SUFFICES ASSUME WheelAssumption, WheelInv, fault = "none", near[time % TIME_NEAR] # <<>>, Execute
             PROVE  WheelInv'
  OBVIOUS
<1>0. PICK j, q : j = time % TIME_NEAR /\ q = <<Near, j>>
  OBVIOUS
<1>1. /\ pc \in {"first", "second"} /\ current = <<>> /\ current' = near[j]
      /\ near' = [near EXCEPT ![j] = <<>>]
      /\ UNCHANGED <<pc, time, t, expire, now, due, log, order, fault>>
  BY <1>0 DEF Execute
<1>2. /\ WheelTypeOK /\ AddedOnce /\ DispatchedOnce /\ NotLate /\ Overtaken
      /\ Ticks /\ Sorted /\ Complete /\ Running
  BY DEF WheelInv
<1>3. time \in Span /\ Lists \in Wheels /\ near \in [0 .. TIME_NEAR - 1 -> Seq(Node)]
      /\ t \in [0 .. LEVELS - 1 -> [0 .. TIME_LEVEL - 2 -> Seq(Node)]]
  BY <1>2 DEF WheelTypeOK, Wheels, Lists
<1>4. q \in Places /\ j \in 0 .. TIME_NEAR - 1 /\ At(Lists, q) = near[j] /\ At(Lists, q) = current'
  <2>1. At(Lists, q) = Lists.near[j]
    BY <1>0, <1>3, PlaceOfTick
  <2> QED BY <1>0, <1>1, <1>3, <2>1, PlaceOfTick DEF Lists
<1>5. Lists' \in Wheels /\ near'[j] = <<>>
      /\ \A p \in Places : At(Lists', p) = IF p = q THEN <<>> ELSE At(Lists, p)
  <2>1. near' \in [0 .. TIME_NEAR - 1 -> Seq(Node)]
    BY <1>1, <1>3, <1>4
  <2>2. Lists' \in Wheels
    BY <1>1, <1>3, <2>1 DEF Lists, Wheels
  <2>3. ASSUME NEW p \in Places PROVE At(Lists', p) = IF p = q THEN <<>> ELSE At(Lists, p)
    <3>1. CASE p[1] = Near
      <4>1. p = <<Near, p[2]>> /\ p[2] \in 0 .. TIME_NEAR - 1
        BY <3>1 DEF Places, Near, LEVELS
      <4>2. p = q <=> p[2] = j
        BY <1>0, <4>1
      <4>3. At(Lists', p) = near'[p[2]] /\ At(Lists, p) = near[p[2]]
        BY <3>1 DEF At, Lists
      <4> QED BY <1>1, <1>3, <1>4, <4>1, <4>2, <4>3
    <3>2. CASE p[1] # Near
      <4>1. p # q
        BY <1>0, <3>2
      <4>2. At(Lists', p) = t'[p[1]][p[2]] /\ At(Lists, p) = t[p[1]][p[2]]
        BY <3>2 DEF At, Lists
      <4> QED BY <1>1, <4>1, <4>2
    <3> QED BY <3>1, <3>2
  <2> QED BY <1>1, <1>3, <1>4, <2>2, <2>3
<1>6. \A n : Pending(n)' <=> Pending(n)
  BY <1>1 DEF Pending
<1>7. \A m, n : Before(m, n)' <=> Before(m, n)
  BY <1>1 DEF Before
<1>8. \A n : ~Taken(n)
  BY <1>1 DEF Taken
<1>9. \A a \in 1 .. Len(current') : current'[a] \in Node /\ a \in Nat
  BY <1>3, <1>4, ListAt
<1>10. ASSUME NEW a \in 1 .. Len(current'), NEW n, n = current'[a]
       PROVE  Pending(n) /\ Place(expire[n], time) = q /\ due[n] = now
  <2>1. Pending(n) /\ Place(expire[n], time) = q /\ n \in Node
    BY <1>2, <1>4, <1>9, <1>10 DEF Sorted
  <2> QED BY <1>0, <1>2, <2>1, DueNow
<1>11. ASSUME NEW n \in Node, Pending(n), Place(expire[n], time) = q PROVE Taken(n)'
  <2>1. \E a \in 1 .. Len(At(Lists, q)) : At(Lists, q)[a] = n
    BY <1>2, <1>8, <1>11 DEF Complete
  <2> QED BY <1>4, <2>1 DEF Taken
<1>12. pc = "second"
  <2>1. Len(current') # 0
    BY <1>0, <1>1, <1>3, <1>4
  <2>2. 1 \in 1 .. Len(current')
    BY <1>3, <1>4, <2>1, ListAt
  <2>3. PICK n : n = current'[1]
    OBVIOUS
  <2>4. Pending(n) /\ due[n] = now /\ n \in Node
    BY <1>9, <1>10, <2>2, <2>3
  <2>5. now \in Nat
    BY <1>2 DEF WheelTypeOK
  <2> QED BY <1>2, <2>4, <2>5 DEF NotLate
<1>13. WheelTypeOK'
  BY <1>1, <1>2, <1>3, <1>4, <1>5 DEF WheelTypeOK
<1>14. AddedOnce' /\ DispatchedOnce'
  BY <1>1, <1>2 DEF AddedOnce, DispatchedOnce
<1>15. NotLate' /\ Ticks'
  BY <1>1, <1>2, <1>6 DEF NotLate, Ticks
<1>16. Overtaken'
  BY <1>1, <1>2, <1>6, <1>7 DEF Overtaken
<1>17. Sorted'
  <2>1. ASSUME NEW p \in Places, NEW a \in Nat, a \in 1 .. Len(At(Lists', p)),
               NEW n, n = At(Lists', p)[a]
        PROVE  Pending(n)' /\ ~Taken(n)' /\ Place(expire[n], time) = p
    <3>1. p # q /\ At(Lists', p) = At(Lists, p)
      BY <1>5, <2>1
    <3>2. Pending(n) /\ Place(expire[n], time) = p
      BY <1>2, <2>1, <3>1 DEF Sorted
    <3>3. ~Taken(n)'
      <4>1. SUFFICES ASSUME NEW b \in 1 .. Len(current'), current'[b] = n PROVE FALSE
        BY DEF Taken
      <4> QED BY <1>10, <3>1, <3>2, <4>1
    <3> QED BY <1>6, <3>2, <3>3
  <2>2. ASSUME NEW p \in Places, NEW a \in Nat, NEW b \in Nat,
               a \in 1 .. Len(At(Lists', p)), b \in 1 .. Len(At(Lists', p)), a < b,
               NEW m, NEW n, m = At(Lists', p)[a], n = At(Lists', p)[b]
        PROVE  Before(m, n)'
    <3>1. At(Lists', p) = At(Lists, p)
      BY <1>5, <2>2
    <3>2. Before(m, n)
      BY <1>2, <2>2, <3>1 DEF Sorted
    <3> QED BY <1>7, <3>2
  <2> QED BY <1>1, <2>1, <2>2 DEF Sorted
<1>18. Complete'
  <2>1. ASSUME NEW n \in Node, Pending(n)', ~Taken(n)'
        PROVE  LET p == Place(expire[n], time)
               IN  p \in Places /\ \E a \in 1 .. Len(At(Lists', p)) : At(Lists', p)[a] = n
    <3> DEFINE p == Place(expire[n], time)
    <3>1. Pending(n) /\ ~Taken(n)
      BY <1>6, <1>8, <2>1
    <3>2. p \in Places /\ \E a \in 1 .. Len(At(Lists, p)) : At(Lists, p)[a] = n
      BY <1>2, <3>1 DEF Complete
    <3>3. p # q
      BY <1>11, <2>1, <3>1
    <3> HIDE DEF p
    <3>4. At(Lists', p) = At(Lists, p)
      BY <1>5, <3>2, <3>3
    <3>5. p \in Places /\ \E a \in 1 .. Len(At(Lists', p)) : At(Lists', p)[a] = n
      BY <3>2, <3>4
    <3> QED BY <3>5 DEF p
  <2> QED BY <1>1, <2>1 DEF Complete
<1>19. Running'
  <2>1. ASSUME NEW a \in 1 .. Len(current'), NEW n, n = current'[a] PROVE Pending(n)' /\ due[n] = now
    BY <1>6, <1>10, <2>1
  <2>2. ASSUME NEW a \in 1 .. Len(current'), NEW b \in 1 .. Len(current'), a < b,
               NEW m, NEW n, m = current'[a], n = current'[b]
        PROVE  Before(m, n)'
    <3>1. Before(m, n)
      BY <1>2, <1>4, <1>9, <2>2 DEF Sorted
    <3> QED BY <1>7, <3>1
  <2> QED BY <1>0, <1>1, <1>5, <1>12, <2>1, <2>2 DEF Running
<1> QED BY <1>13, <1>14, <1>15, <1>16, <1>17, <1>18, <1>19 DEF WheelInv

(* Where the list is found empty, nothing is due: the tick is over, or has *)
(* not begun.                                                              *)
LEMMA NoneKeeps ==
    WheelAssumption /\ WheelInv /\ fault = "none" /\ near[time % TIME_NEAR] = <<>> /\ Execute => WheelInv'
<1> SUFFICES ASSUME WheelAssumption, WheelInv, fault = "none", near[time % TIME_NEAR] = <<>>, Execute
             PROVE  WheelInv'
  OBVIOUS
<1>1. /\ pc \in {"first", "second"} /\ pc' \in {"wait", "first", "shift"} /\ current = <<>>
      /\ UNCHANGED <<near, current, time, t, expire, now, due, log, order, fault>>
  BY DEF Execute
<1>2. /\ WheelTypeOK /\ AddedOnce /\ DispatchedOnce /\ NotLate /\ Overtaken
      /\ Ticks /\ Sorted /\ Complete /\ Running
  BY DEF WheelInv
<1>3. Lists' = Lists /\ \A n : (Pending(n)' <=> Pending(n)) /\ (Taken(n)' <=> Taken(n)) /\ ~Taken(n)
  BY <1>1 DEF Lists, Pending, Taken
<1>4. \A m, n : Before(m, n)' <=> Before(m, n)
  BY <1>1 DEF Before
<1>5. ASSUME NEW n \in Node, Pending(n) PROVE due[n] # now
  <2> DEFINE p == Place(expire[n], time)
  <2>1. SUFFICES ASSUME due[n] = now PROVE FALSE
    OBVIOUS
  <2>2. p = <<Near, time % TIME_NEAR>>
    BY <1>2, <1>5, <2>1, DueNow
  <2>3. \E a \in 1 .. Len(At(Lists, p)) : At(Lists, p)[a] = n
    BY <1>2, <1>3, <1>5 DEF Complete
  <2>4. At(Lists, p) = <<>>
    <3>1. time \in Span
      BY <1>2 DEF WheelTypeOK
    <3>2. At(Lists, <<Near, time % TIME_NEAR>>) = Lists.near[time % TIME_NEAR]
      BY <3>1, PlaceOfTick
    <3> QED BY <2>2, <3>2 DEF Lists
  <2> HIDE DEF p
  <2> QED BY <2>3, <2>4
<1>6. WheelTypeOK'
  BY <1>1, <1>2, <1>3 DEF WheelTypeOK
<1>7. AddedOnce' /\ DispatchedOnce'
  BY <1>1, <1>2 DEF AddedOnce, DispatchedOnce
<1>8. NotLate'
  BY <1>1, <1>2, <1>3, <1>5 DEF NotLate
<1>9. Overtaken'
  BY <1>1, <1>2, <1>3, <1>4 DEF Overtaken
<1>10. Ticks' /\ Complete'
  BY <1>1, <1>2, <1>3 DEF Ticks, Complete
<1>11. Sorted'
  BY <1>1, <1>2, <1>3, <1>4 DEF Sorted
<1>12. Running'
  BY <1>1 DEF Running
<1> QED BY <1>6, <1>7, <1>8, <1>9, <1>10, <1>11, <1>12 DEF WheelInv

(* The tick of a new node: as a timeout is less than half of the time's    *)
(* range, a node whose tick lies beyond it is behind.                      *)
LEMMA NewExpire ==
    ASSUME WheelAssumption, NEW cur \in Span, NEW d \in Timeouts,
           NEW e, e = (cur + d) % WIDTH
    PROVE  /\ e \in Span /\ d \in Nat /\ d > 0
           /\ \/ e = cur + d /\ cur <= e
              \/ cur + d = e + WIDTH /\ Behind(e, cur)
<1>1. WIDTH \in Nat /\ WIDTH > 0 /\ cur \in Nat /\ cur < WIDTH
  BY SpanIs DEF Span
<1>2. d \in 1 .. WIDTH \div 2
  BY DEF WheelAssumption
<1>3. d \in Nat /\ d > 0 /\ 2 * d <= WIDTH
  <2>1. PICK q \in Nat, r \in 0 .. 1 : WIDTH = q * 2 + r /\ q = WIDTH \div 2
    BY <1>1, Parts
  <2> QED BY <1>2, <2>1
<1>4. CASE cur + d < WIDTH
  <2>1. cur + d \in 0 .. WIDTH - 1 /\ 0 * WIDTH + (cur + d) = cur + d
    BY <1>1, <1>3, <1>4
  <2>2. (0 * WIDTH + (cur + d)) % WIDTH = cur + d
    BY <1>1, <2>1, QuotientIs
  <2>3. e = cur + d
    BY <2>1, <2>2
  <2> QED BY <1>1, <1>3, <2>1, <2>3 DEF Span
<1>5. CASE ~(cur + d < WIDTH)
  <2>1. cur + d - WIDTH \in 0 .. WIDTH - 1 /\ 1 * WIDTH + (cur + d - WIDTH) = cur + d
    BY <1>1, <1>3, <1>5
  <2>2. (1 * WIDTH + (cur + d - WIDTH)) % WIDTH = cur + d - WIDTH
    BY <1>1, <2>1, QuotientIs
  <2>3. e = cur + d - WIDTH
    BY <2>1, <2>2
  <2>4. Behind(e, cur)
    <3>1. LEVELS - 1 \in 0 .. LEVELS /\ LEVELS - 1 \in 0 .. LEVELS - 1 /\ (LEVELS - 1) + 1 = LEVELS
      BY DEF LEVELS
    <3>2. PICK b \in Nat : b = Size(LEVELS - 1) /\ b > 0 /\ WIDTH = b * TIME_LEVEL
      BY <3>1, Sizes
    <3>3. 2 * b <= WIDTH
      <4>1. TIME_LEVEL \in Nat /\ TIME_LEVEL >= 2
        BY DEF WheelAssumption
      <4>2. PICK k \in Nat : TIME_LEVEL = 2 + k
        <5>1. TIME_LEVEL - 2 \in Nat /\ TIME_LEVEL = 2 + (TIME_LEVEL - 2)
          BY <4>1
        <5> QED BY <5>1
      <4>3. b * (2 + k) = 2 * b + b * k /\ b * k \in Nat
        OBVIOUS
      <4> QED BY <3>2, <4>2, <4>3
    <3>4. e \in Nat /\ e + b <= cur
      BY <1>1, <1>3, <2>1, <2>3, <3>3
    <3>5. PICK q \in Nat, r \in 0 .. b - 1 : e = q * b + r /\ q = e \div b
      <4>1. PICK x \in Nat : x = e
        BY <3>4
      <4>2. PICK q \in Nat, r \in 0 .. b - 1 : x = q * b + r /\ q = x \div b
        BY <3>2, Parts
      <4> QED BY <4>1, <4>2
    <3>6. (e + b) \div b = q + 1
      <4>1. PICK z \in Nat : z = q * b
        OBVIOUS
      <4>2. (q + 1) * b = z + b
        BY <4>1
      <4>3. e + b = (q + 1) * b + r
        BY <3>2, <3>5, <4>1, <4>2
      <4>4. q + 1 \in Nat /\ ((q + 1) * b + r) \div b = q + 1
        BY <3>2, QuotientIs
      <4> QED BY <4>3, <4>4
    <3>7. (e + b) \div b <= cur \div b
      BY <1>1, <3>2, <3>4, QuotientRises
    <3>8. PICK p \in Nat, z \in 0 .. b - 1 : cur = p * b + z /\ p = cur \div b
      BY <1>1, <3>2, Parts
    <3>9. q < p
      BY <3>6, <3>7, <3>8
    <3> QED BY <3>2, <3>5, <3>8, <3>9 DEF Behind, Stretch
  <2> QED BY <1>1, <1>3, <2>1, <2>3, <2>4 DEF Span
<1> QED BY <1>4, <1>5

(* A node that has a list goes to one that there is, if it expires later   *)
(* or after the rewind.                                                    *)
LEMMA InRange ==
    ASSUME WheelAssumption, NEW e \in Span, NEW cur \in Span, cur <= e \/ Behind(e, cur),
           ~OutOfRange(e, cur)
    PROVE  Place(e, cur) \in Places
<1>1. CASE cur <= e
  BY <1>1, PlaceInRange
<1>2. CASE Behind(e, cur)
  <2>1. Place(e, cur) = <<LEVELS - 1, Stretch(e, LEVELS - 1) - 1>>
    BY <1>2, PlaceBehind
  <2>2. ~Together(e, cur, 0)
    <3>1. SUFFICES ASSUME Together(e, cur, 0) PROVE FALSE
      OBVIOUS
    <3>2. <<Near, e % TIME_NEAR>> = <<LEVELS - 1, Stretch(e, LEVELS - 1) - 1>>
      BY <2>1, <3>1, PlaceIs
    <3>3. Near = LEVELS - 1
      BY <3>2
    <3> QED BY <3>3 DEF Near, LEVELS
  <2>3. <<Level(e, cur), Index(e, Level(e, cur))>> = <<LEVELS - 1, Stretch(e, LEVELS - 1) - 1>>
    BY <2>1, <2>2 DEF Place
  <2>4. Index(e, Level(e, cur)) = Stretch(e, LEVELS - 1) - 1
    BY <2>3
  <2>5. ~(Index(e, Level(e, cur)) < 0)
    BY <2>2 DEF OutOfRange, Together
  <2>6. Stretch(e, LEVELS - 1) \in Nat
    <3>1. LEVELS - 1 \in 0 .. LEVELS /\ e \in Nat
      BY SpanIs DEF LEVELS
    <3> QED BY <3>1, Stretches
  <2>7. Stretch(e, LEVELS - 1) > 0
    BY <2>4, <2>5, <2>6
  <2> QED BY <1>2, <2>7, PlaceBehind
<1> QED BY <1>1, <1>2

(* timer_add: the node comes last in the list of its place, and to that of *)
(* this tick only if it has none.                                          *)
LEMMA AddKeeps == WheelAssumption /\ WheelInv /\ fault = "none" /\ Add => WheelInv'
<1> SUFFICES ASSUME WheelAssumption, WheelInv, fault = "none", Add PROVE WheelInv'
  OBVIOUS
<1> USE DEF Near
<1>1. PICK n \in Node, d \in Timeouts :
        LET e == (time + d) % WIDTH IN
        /\ due[n] = 0
        /\ due' = [due EXCEPT ![n] = now + d]
        /\ order' = Append(order, n)
        /\ expire' = [expire EXCEPT ![n] = e]
        /\ IF OutOfRange(e, time)
           THEN fault' = "index" /\ UNCHANGED <<near, t>>
           ELSE LET w == Linked(Lists, n, e, time) IN
                near' = w.near /\ t' = w.t /\ UNCHANGED fault
        /\ UNCHANGED <<time, pc, diff, current, now, log>>
  BY DEF Add, Lists
<1>2. PICK e : e = (time + d) % WIDTH
  OBVIOUS
<1>3. /\ due[n] = 0 /\ due' = [due EXCEPT ![n] = now + d]
      /\ order' = Append(order, n) /\ expire' = [expire EXCEPT ![n] = e]
      /\ UNCHANGED <<time, pc, diff, current, now, log>>
  BY <1>1, <1>2
<1>4. /\ WheelTypeOK /\ AddedOnce /\ DispatchedOnce /\ NotLate /\ Overtaken
      /\ Ticks /\ Sorted /\ Complete /\ Running
  BY DEF WheelInv
<1>5. time \in Span /\ Lists \in Wheels /\ expire \in [Node -> Span] /\ now \in Nat
      /\ due \in [Node -> Nat] /\ order \in Seq(Node) /\ current \in Seq(Node)
      /\ log \in Seq([node : Node, at : Nat]) /\ now = time
  BY <1>4 DEF WheelTypeOK, Ticks
<1>6. /\ e \in Span /\ d \in Nat /\ d > 0
      /\ \/ e = time + d /\ time <= e
         \/ time + d = e + WIDTH /\ Behind(e, time)
  BY <1>2, <1>5, NewExpire
<1>7. /\ due' \in [Node -> Nat] /\ expire' \in [Node -> Span]
      /\ due'[n] = now + d /\ expire'[n] = e
      /\ \A m \in Node : m # n => due'[m] = due[m] /\ expire'[m] = expire[m]
  BY <1>3, <1>5, <1>6
<1>8. due'[n] > now /\ due'[n] # 0 /\ due'[n] # now
  BY <1>5, <1>6, <1>7
<1>9. /\ Len(order) \in Nat /\ order' \in Seq(Node) /\ Len(order') = Len(order) + 1
      /\ order'[Len(order) + 1] = n
      /\ \A i \in 1 .. Len(order) : order'[i] = order[i]
  BY <1>3, <1>5
<1>10. PICK O \in Nat : O = Len(order)
  BY <1>9
<1>11. /\ \A i \in 1 .. Len(order') : i \in 1 .. O \/ i = O + 1
       /\ \A i \in 1 .. O : i \in 1 .. Len(order') /\ i < O + 1
       /\ O + 1 \in 1 .. Len(order')
  BY <1>9, <1>10
<1>12. \A i \in 1 .. O : order[i] # n /\ order[i] \in Node
  BY <1>3, <1>4, <1>5, <1>10, ElementOfSeq DEF AddedOnce
<1>13. \A m, o : Before(m, o) => Before(m, o)'
  <2>1. SUFFICES ASSUME NEW m, NEW o, Before(m, o) PROVE Before(m, o)'
    OBVIOUS
  <2>2. PICK i, k \in 1 .. O : i < k /\ order[i] = m /\ order[k] = o
    BY <1>10, <2>1 DEF Before
  <2>3. i \in 1 .. Len(order') /\ k \in 1 .. Len(order') /\ order'[i] = m /\ order'[k] = o
    BY <1>9, <1>10, <1>11, <2>2
  <2> QED BY <2>2, <2>3 DEF Before
<1>14. \A m \in Node : due[m] # 0 => Before(m, n)'
  <2>1. SUFFICES ASSUME NEW m \in Node, due[m] # 0 PROVE Before(m, n)'
    OBVIOUS
  <2>2. PICK i \in 1 .. O : order[i] = m
    BY <1>4, <1>10, <2>1 DEF AddedOnce
  <2>3. i \in 1 .. Len(order') /\ O + 1 \in 1 .. Len(order') /\ i < O + 1
        /\ order'[i] = m /\ order'[O + 1] = n
    BY <1>9, <1>10, <1>11, <2>2
  <2> QED BY <2>3 DEF Before
<1>15. \A k \in 1 .. Len(log) : log[k].node # n /\ log[k].node \in Node
  <2>1. TAKE k \in 1 .. Len(log)
  <2>2. log[k] \in [node : Node, at : Nat]
    BY <1>5, ElementOfSeq
  <2>3. due[log[k].node] # 0
    BY <1>4 DEF DispatchedOnce
  <2> QED BY <1>3, <2>2, <2>3
<1>16. \A m \in Node : Pending(m)' <=> Pending(m) \/ m = n
  <2>1. TAKE m \in Node
  <2>2. CASE m = n
    <3>1. Pending(m)'
      BY <1>3, <1>8, <1>15, <2>2 DEF Pending
    <3> QED BY <2>2, <3>1
  <2>3. CASE m # n
    BY <1>3, <1>7, <2>3 DEF Pending
  <2> QED BY <2>2, <2>3
<1>17. ~Pending(n)
  BY <1>3 DEF Pending
<1>18. AddedOnce'
  <2>1. ASSUME NEW i \in 1 .. Len(order'), NEW k \in 1 .. Len(order'), order'[i] = order'[k]
        PROVE  i = k
    <3>1. CASE i \in 1 .. O /\ k \in 1 .. O
      BY <1>4, <1>9, <1>10, <2>1, <3>1 DEF AddedOnce
    <3>2. CASE i = O + 1 \/ k = O + 1
      BY <1>9, <1>10, <1>11, <1>12, <2>1, <3>2
    <3> QED BY <1>11, <3>1, <3>2
  <2>2. ASSUME NEW m \in Node PROVE due'[m] # 0 <=> \E i \in 1 .. Len(order') : order'[i] = m
    <3>1. CASE m = n
      BY <1>8, <1>9, <1>10, <1>11, <3>1
    <3>2. CASE m # n
      <4>1. due'[m] # 0 <=> \E i \in 1 .. O : order[i] = m
        BY <1>4, <1>7, <1>10, <3>2 DEF AddedOnce
      <4> QED BY <1>9, <1>10, <1>11, <3>2, <4>1
    <3> QED BY <3>1, <3>2
  <2> QED BY <2>1, <2>2 DEF AddedOnce
<1>19. DispatchedOnce'
  BY <1>3, <1>4, <1>7, <1>15 DEF DispatchedOnce
<1>20. NotLate'
  BY <1>3, <1>4, <1>7, <1>8, <1>16 DEF NotLate
<1>21. Overtaken'
  <2>1. \A k, l \in 1 .. Len(log) : k < l /\ log[k].at = log[l].at =>
            Before(log[k].node, log[l].node)
    BY <1>4 DEF Overtaken
  <2>2. ASSUME NEW k \in 1 .. Len(log), NEW m \in Node, Pending(m)', due'[m] = log[k].at, NEW o, o = log[k].node
        PROVE  Before(o, m)'
    <3>1. CASE m = n
      <4>1. log[k].at <= now /\ log[k].at \in Nat
        <5>1. log[k] \in [node : Node, at : Nat]
          BY <1>5, ElementOfSeq
        <5> QED BY <1>4, <5>1 DEF DispatchedOnce
      <4> QED BY <1>5, <1>8, <2>2, <3>1, <4>1
    <3>2. CASE m # n
      <4>1. Pending(m) /\ due[m] = log[k].at
        BY <1>7, <1>16, <2>2, <3>2
      <4>2. Before(o, m)
        BY <1>4, <2>2, <4>1 DEF Overtaken
      <4> QED BY <1>13, <4>2
    <3> QED BY <3>1, <3>2
  <2>3. \A k, l \in 1 .. Len(log) : k < l /\ log[k].at = log[l].at =>
            \A m, o : m = log[k].node /\ o = log[l].node => Before(m, o)'
    BY <1>13, <2>1
  <2> QED BY <1>3, <2>2, <2>3 DEF Overtaken
<1>22. CASE OutOfRange(e, time)
  <2>1. fault' = "index" /\ UNCHANGED <<near, t>>
    BY <1>1, <1>2, <1>22
  <2>2. WheelTypeOK'
    BY <1>3, <1>4, <1>7, <1>9, <2>1 DEF WheelTypeOK, Lists
  <2> QED BY <1>18, <1>19, <1>20, <1>21, <2>1, <2>2 DEF WheelInv
<1>23. CASE ~OutOfRange(e, time)
  <2>1. PICK w, q : w = Linked(Lists, n, e, time) /\ q = Place(e, time)
    OBVIOUS
  <2>2. near' = w.near /\ t' = w.t /\ fault' = "none"
    BY <1>1, <1>2, <1>23, <2>1
  <2>3. q \in Places
    BY <1>5, <1>6, <1>23, <2>1, InRange
  <2>4. w \in Wheels /\ \A p \in Places : At(w, p) = IF p = q THEN Append(At(Lists, p), n) ELSE At(Lists, p)
    BY <1>5, <1>6, <2>1, <2>3, LinkedAt
  <2>5. Lists' = w
    BY <2>2, <2>4 DEF Lists, Wheels
  <2>6. /\ At(Lists, q) \in Seq(Node) /\ Len(At(Lists, q)) \in Nat
        /\ At(Lists', q) = Append(At(Lists, q), n)
    BY <1>5, <2>3, <2>4, <2>5, ListAt
  <2>7. PICK Q \in Nat : Q = Len(At(Lists, q))
    BY <2>6
  <2>8. /\ Len(At(Lists', q)) = Q + 1 /\ At(Lists', q)[Q + 1] = n
        /\ \A a \in 1 .. Q : At(Lists', q)[a] = At(Lists, q)[a]
    BY <2>6, <2>7
  <2>9. /\ \A a \in 1 .. Len(At(Lists', q)) : a \in 1 .. Q \/ a = Q + 1
        /\ \A a \in 1 .. Q : a \in 1 .. Len(At(Lists', q))
        /\ Q + 1 \in 1 .. Len(At(Lists', q))
    BY <2>7, <2>8
  <2>10. \A p \in Places : p # q => At(Lists', p) = At(Lists, p)
    BY <2>4, <2>5
  <2>11. \A m : Taken(m)' <=> Taken(m)
    BY <1>3 DEF Taken
  <2>12. \A a \in 1 .. Len(current) : current[a] # n /\ current[a] \in Node
    <3>1. TAKE a \in 1 .. Len(current)
    <3>2. Pending(current[a]) /\ current[a] \in Node
      BY <1>4, <1>5, ElementOfSeq DEF Running
    <3> QED BY <1>17, <3>2
  <2>13. ~Taken(n)
    BY <2>12 DEF Taken
  <2>14. WheelTypeOK'
    BY <1>3, <1>4, <1>7, <1>9, <2>4, <2>5 DEF WheelTypeOK
  <2>15. Ticks'
    <3>1. ASSUME NEW m \in Node, Pending(m)'
          PROVE  due'[m] = expire'[m] \/ (due'[m] = expire'[m] + WIDTH /\ Behind(expire'[m], time))
      <4>1. CASE m = n
        BY <1>5, <1>6, <1>7, <4>1
      <4>2. CASE m # n
        BY <1>4, <1>7, <1>16, <3>1, <4>2 DEF Ticks
      <4> QED BY <4>1, <4>2
    <3> QED BY <1>3, <1>5, <3>1 DEF Ticks
  <2>16. ASSUME NEW p \in Places, NEW a \in Nat, a \in 1 .. Len(At(Lists, p)), NEW m, m = At(Lists, p)[a]
         PROVE  m \in Node /\ Pending(m) /\ m # n /\ ~Taken(m) /\ Place(expire[m], time) = p
    <3>1. m \in Node
      BY <1>5, <2>16, ListAt
    <3>2. Pending(m) /\ ~Taken(m) /\ Place(expire[m], time) = p
      BY <1>4, <2>16 DEF Sorted
    <3> QED BY <1>17, <3>1, <3>2
  <2>17. Sorted'
    <3>1. ASSUME NEW p \in Places, NEW a \in Nat, a \in 1 .. Len(At(Lists', p)), NEW m, m = At(Lists', p)[a]
          PROVE  Pending(m)' /\ ~Taken(m)' /\ Place(expire'[m], time) = p
      <4>1. CASE a \in 1 .. Len(At(Lists, p)) /\ m = At(Lists, p)[a]
        BY <1>7, <1>16, <2>11, <2>16, <4>1
      <4>2. CASE p = q /\ m = n
        BY <1>7, <1>16, <2>1, <2>11, <2>13, <4>2
      <4> QED BY <2>7, <2>8, <2>9, <2>10, <3>1, <4>1, <4>2
    <3>2. ASSUME NEW p \in Places, NEW a \in Nat, NEW b \in Nat,
                 a \in 1 .. Len(At(Lists', p)), b \in 1 .. Len(At(Lists', p)), a < b,
                 NEW m, NEW o, m = At(Lists', p)[a], o = At(Lists', p)[b]
          PROVE  Before(m, o)'
      <4>1. CASE a \in 1 .. Len(At(Lists, p)) /\ m = At(Lists, p)[a]
                 /\ b \in 1 .. Len(At(Lists, p)) /\ o = At(Lists, p)[b]
        <5>1. Before(m, o)
          BY <1>4, <3>2, <4>1 DEF Sorted
        <5> QED BY <1>13, <5>1
      <4>2. CASE o = n /\ a \in 1 .. Len(At(Lists, p)) /\ m = At(Lists, p)[a]
        <5>1. m \in Node /\ due[m] # 0
          BY <2>16, <4>2 DEF Pending
        <5> QED BY <1>14, <4>2, <5>1
      <4>3. CASE p = q
        <5>1. a \in 1 .. Q /\ m = At(Lists, q)[a]
          BY <2>8, <3>2, <4>3
        <5>2. CASE b \in 1 .. Q
          BY <2>7, <2>8, <3>2, <4>1, <4>3, <5>1, <5>2
        <5>3. CASE b = Q + 1
          BY <2>7, <2>8, <3>2, <4>2, <4>3, <5>1, <5>3
        <5> QED BY <2>9, <3>2, <4>3, <5>2, <5>3
      <4>4. CASE p # q
        BY <2>10, <3>2, <4>1, <4>4
      <4> QED BY <4>3, <4>4
    <3> QED BY <1>3, <3>1, <3>2 DEF Sorted
  <2>18. Complete'
    <3>1. ASSUME NEW m \in Node, Pending(m)', ~Taken(m)'
          PROVE  LET p == Place(expire'[m], time)
                 IN  p \in Places /\ \E a \in 1 .. Len(At(Lists', p)) : At(Lists', p)[a] = m
      <4>1. CASE m = n
        <5>1. Place(expire'[m], time) = q
          BY <1>7, <2>1, <4>1
        <5> QED BY <2>3, <2>8, <2>9, <4>1, <5>1
      <4>2. CASE m # n
        <5>1. Pending(m) /\ ~Taken(m) /\ expire'[m] = expire[m]
          BY <1>7, <1>16, <2>11, <3>1, <4>2
        <5>2. PICK p : p = Place(expire[m], time)
          OBVIOUS
        <5>3. p \in Places /\ \E a \in 1 .. Len(At(Lists, p)) : At(Lists, p)[a] = m
          BY <1>4, <5>1, <5>2 DEF Complete
        <5>4. \E a \in 1 .. Len(At(Lists', p)) : At(Lists', p)[a] = m
          <6>1. CASE p = q
            BY <2>7, <2>8, <2>9, <5>3, <6>1
          <6>2. CASE p # q
            BY <2>10, <5>3, <6>2
          <6> QED BY <6>1, <6>2
        <5> QED BY <5>1, <5>2, <5>3, <5>4
      <4> QED BY <4>1, <4>2
    <3> QED BY <1>3, <3>1 DEF Complete
  <2>19. Running'
    <3>1. ASSUME NEW a \in 1 .. Len(current), NEW m, m = current[a] PROVE Pending(m)' /\ due'[m] = now
      <4>1. m # n /\ m \in Node
        BY <2>12, <3>1
      <4>2. Pending(m) /\ due[m] = now
        BY <1>4, <3>1 DEF Running
      <4> QED BY <1>7, <1>16, <4>1, <4>2
    <3>2. ASSUME NEW a \in 1 .. Len(current), NEW b \in 1 .. Len(current), a < b,
                 NEW m, NEW o, m = current[a], o = current[b]
          PROVE  Before(m, o)'
      <4>1. Before(m, o)
        BY <1>4, <3>2 DEF Running
      <4> QED BY <1>13, <4>1
    <3>3. current # <<>> => near'[time % TIME_NEAR] = <<>>
      <4>1. SUFFICES ASSUME current # <<>> PROVE near'[time % TIME_NEAR] = <<>>
        OBVIOUS
      <4>2. PICK p : p = <<Near, time % TIME_NEAR>>
        OBVIOUS
      <4>3. p \in Places /\ At(Lists, p) = Lists.near[time % TIME_NEAR]
            /\ At(Lists', p) = (Lists').near[time % TIME_NEAR]
        BY <1>5, <4>2, PlaceOfTick
      <4>4. e # time
        <5>1. Span \subseteq Nat /\ WIDTH \in Nat /\ time < WIDTH /\ e < WIDTH
          <6>1. Span \subseteq Nat /\ WIDTH \in Nat
            BY SpanIs
          <6> QED BY <1>5, <1>6, <6>1 DEF Span
        <5>2. time \in Nat /\ e \in Nat
          BY <1>5, <1>6, <5>1
        <5>3. CASE e = time + d
          BY <1>6, <5>2, <5>3
        <5>4. CASE Behind(e, time)
          <6>1. LEVELS - 1 \in 0 .. LEVELS
            BY DEF LEVELS
          <6>2. Stretch(time, LEVELS - 1) \in Nat
            BY <5>2, <6>1, Stretches
          <6> QED BY <5>4, <6>2 DEF Behind
        <5> QED BY <1>6, <5>3, <5>4
      <4>5. q # p
        BY <1>5, <1>6, <2>1, <4>2, <4>4, PlaceOfNow
      <4>6. near[time % TIME_NEAR] = <<>>
        BY <1>4, <4>1 DEF Running
      <4>7. At(Lists', p) = At(Lists, p)
        BY <2>10, <4>3, <4>5
      <4> QED BY <4>3, <4>6, <4>7 DEF Lists
    <3>4. current # <<>> => pc = "second"
      BY <1>4 DEF Running
    <3> QED BY <1>3, <3>1, <3>2, <3>3, <3>4 DEF Running
  <2> QED BY <1>18, <1>19, <1>20, <1>21, <2>2, <2>14, <2>15, <2>17, <2>18, <2>19 DEF WheelInv
<1> QED BY <1>22, <1>23

(* The next tick, but for the lists.                                       *)
LEMMA ShiftHistory ==
    ASSUME WheelAssumption, WheelInv, fault = "none", Shift
    PROVE  /\ AddedOnce' /\ DispatchedOnce' /\ NotLate' /\ Overtaken'
           /\ time' \in Span /\ now' \in Nat /\ pc' = "second" /\ current = <<>>
           /\ UNCHANGED <<expire, current, due, log, order>>
<1>1. /\ pc = "shift" /\ pc' = "second" /\ time' = (time + 1) % WIDTH /\ now' = now + 1
      /\ UNCHANGED <<expire, current, due, log, order>>
  BY DEF Shift
<1>2. /\ WheelTypeOK /\ AddedOnce /\ DispatchedOnce /\ NotLate /\ Overtaken /\ Running
  BY DEF WheelInv
<1>3. now \in Nat /\ time \in Span /\ due \in [Node -> Nat] /\ log \in Seq([node : Node, at : Nat])
  BY <1>2 DEF WheelTypeOK
<1>4. (\A n : Pending(n)' <=> Pending(n)) /\ \A m, n : Before(m, n)' <=> Before(m, n)
  BY <1>1 DEF Pending, Before
<1>5. AddedOnce'
  BY <1>1, <1>2 DEF AddedOnce
<1>6. DispatchedOnce'
  <2>1. \A k \in 1 .. Len(log) : log[k].at \in Nat /\ log[k].at <= now
    <3>1. \A k \in 1 .. Len(log) : log[k] \in [node : Node, at : Nat]
      BY <1>3, ElementOfSeq
    <3> QED BY <1>2, <3>1 DEF DispatchedOnce
  <2>2. \A k \in 1 .. Len(log) : log[k].at <= now + 1
    BY <1>3, <2>1
  <2> QED BY <1>1, <1>2, <2>2 DEF DispatchedOnce
<1>7. NotLate'
  <2>1. ASSUME NEW n \in Node, Pending(n) PROVE due[n] > now + 1 \/ due[n] = now + 1
    <3>1. due[n] > now /\ due[n] \in Nat
      BY <1>1, <1>2, <1>3, <2>1 DEF NotLate
    <3> QED BY <1>3, <3>1
  <2> QED BY <1>1, <1>4, <2>1 DEF NotLate
<1>8. Overtaken'
  BY <1>1, <1>2, <1>4 DEF Overtaken
<1>9. time' \in Span
  <2>1. WIDTH \in Nat /\ WIDTH > 0 /\ time \in Nat
    BY <1>3, SpanIs
  <2> QED BY <1>1, <2>1 DEF Span
<1>10. current = <<>>
  BY <1>1, <1>2 DEF Running
<1> QED BY <1>1, <1>3, <1>5, <1>6, <1>7, <1>8, <1>9, <1>10

(* What a tick does to the nodes that wait: none of them is due before it, *)
(* and one that is behind stays so.                                        *)
LEMMA ShiftTicks ==
    ASSUME WheelAssumption, WheelInv, fault = "none", Shift, time + 1 \in Span
    PROVE  /\ time' = time + 1 /\ fault' = "none" /\ Ticks' /\ Running'
           /\ \A n \in Node : Pending(n) =>
                  /\ expire[n] \in Span /\ (time + 1 <= expire[n] \/ Behind(expire[n], time))
                  /\ ~Taken(n)
<1>1. /\ pc = "shift" /\ time' = (time + 1) % WIDTH /\ now' = now + 1
      /\ fault' = IF (time + 1) % WIDTH = 0 THEN "endless" ELSE fault
      /\ UNCHANGED <<expire, current, due, log, order>>
  BY DEF Shift
<1>2. WheelTypeOK /\ NotLate /\ Ticks /\ Running /\ current = <<>>
  BY ShiftHistory DEF WheelInv
<1>3. WIDTH \in Nat /\ WIDTH > 0 /\ Span \subseteq Nat /\ time \in Span /\ now = time /\ due \in [Node -> Nat]
  BY <1>2, SpanIs DEF WheelTypeOK, Ticks
<1>4. time \in Nat /\ time + 1 \in 0 .. WIDTH - 1
  BY <1>3 DEF Span
<1>5. (time + 1) % WIDTH = time + 1
  <2>1. 0 * WIDTH + (time + 1) = time + 1
    BY <1>3, <1>4
  <2>2. (0 * WIDTH + (time + 1)) % WIDTH = time + 1
    BY <1>3, <1>4, QuotientIs
  <2> QED BY <2>1, <2>2
<1>6. time' = time + 1 /\ fault' = "none"
  BY <1>1, <1>4, <1>5
<1>7. ASSUME NEW n \in Node, Pending(n)
      PROVE  /\ expire[n] \in Span /\ (time + 1 <= expire[n] \/ Behind(expire[n], time))
             /\ ~Taken(n)
  <2>1. /\ expire[n] \in Span
        /\ (due[n] = expire[n] /\ time <= expire[n]) \/ (due[n] > now /\ Behind(expire[n], time))
    BY <1>2, <1>7, WhoWaits
  <2>2. due[n] > now /\ due[n] \in Nat
    BY <1>1, <1>2, <1>3, <1>7 DEF NotLate
  <2>3. ~Taken(n)
    BY <1>2 DEF Taken
  <2> QED BY <1>3, <1>4, <2>1, <2>2, <2>3
<1>8. \A n : Pending(n)' <=> Pending(n)
  BY <1>1 DEF Pending
<1>9. Ticks'
  <2>1. \A e \in Span : Behind(e, time) => Behind(e, time + 1)
    <3>1. TAKE e \in Span
    <3>2. LEVELS - 1 \in 0 .. LEVELS /\ e \in Nat
      BY <1>3 DEF LEVELS
    <3>3. /\ Stretch(time, LEVELS - 1) <= Stretch(time + 1, LEVELS - 1)
          /\ Stretch(time, LEVELS - 1) \in Nat /\ Stretch(time + 1, LEVELS - 1) \in Nat
          /\ Stretch(e, LEVELS - 1) \in Nat
      BY <1>4, <3>2, Stretches
    <3> QED BY <3>3 DEF Behind
  <2>2. ASSUME NEW n \in Node, Pending(n)
        PROVE  due[n] = expire[n] \/ (due[n] = expire[n] + WIDTH /\ Behind(expire[n], time + 1))
    <3>1. expire[n] \in Span
      BY <1>7, <2>2
    <3> QED BY <1>2, <2>1, <2>2, <3>1 DEF Ticks
  <2> QED BY <1>1, <1>3, <1>6, <1>8, <2>2 DEF Ticks
<1>10. Running'
  <2>1. Len(current) = 0 /\ current' = <<>> /\ Len(current') = 0
    BY <1>1, <1>2
  <2> QED BY <2>1 DEF Running
<1> QED BY <1>6, <1>7, <1>9, <1>10

(* No list moves down.                                                     *)
LEMMA QuietTick ==
    ASSUME WheelAssumption, WheelInv, fault = "none", Shift, time + 1 \in Span, Turning(time + 1) = {}
    PROVE  Lists' = Lists /\ Sorted' /\ Complete'
<1>1. /\ time' = time + 1 /\ UNCHANGED <<near, t>>
      /\ UNCHANGED <<expire, current, due, log, order>>
  <2>1. time' = time + 1 /\ time' = (time + 1) % WIDTH
    BY ShiftTicks DEF Shift
  <2> QED BY <2>1 DEF Shift
<1>2. Lists' = Lists
  BY <1>1 DEF Lists
<1>3. WheelTypeOK /\ Sorted /\ Complete /\ time \in Span /\ Lists \in Wheels
  BY DEF WheelInv, WheelTypeOK
<1>4. \A n : (Pending(n)' <=> Pending(n)) /\ (Taken(n)' <=> Taken(n))
  BY <1>1 DEF Pending, Taken
<1>5. \A m, n : Before(m, n)' <=> Before(m, n)
  BY <1>1 DEF Before
<1>6. \A n \in Node : Pending(n) => Place(expire[n], time + 1) = Place(expire[n], time)
  BY <1>3, ShiftTicks, NoneMoves
<1>7. Sorted'
  <2>1. ASSUME NEW p \in Places, NEW a \in Nat, a \in 1 .. Len(At(Lists, p)), NEW n, n = At(Lists, p)[a]
        PROVE  Pending(n)' /\ ~Taken(n)' /\ Place(expire[n], time + 1) = p
    <3>1. Pending(n) /\ ~Taken(n) /\ Place(expire[n], time) = p
      BY <1>3, <2>1 DEF Sorted
    <3>2. n \in Node
      BY <1>3, <2>1, ListAt
    <3> QED BY <1>4, <1>6, <3>1, <3>2
  <2>2. \A p \in Places, a, b \in Nat :
          a \in 1 .. Len(At(Lists, p)) /\ b \in 1 .. Len(At(Lists, p)) /\ a < b =>
             \A m, o : m = At(Lists, p)[a] /\ o = At(Lists, p)[b] => Before(m, o)'
    BY <1>3, <1>5 DEF Sorted
  <2> QED BY <1>1, <1>2, <2>1, <2>2 DEF Sorted
<1>8. Complete'
  BY <1>1, <1>2, <1>3, <1>4, <1>6 DEF Complete
<1> QED BY <1>2, <1>7, <1>8

(* A list moves down.                                                      *)
LEMMA TurningTick ==
    ASSUME WheelAssumption, WheelInv, fault = "none", Shift, time + 1 \in Span, Turning(time + 1) # {}
    PROVE  Lists' \in Wheels /\ Sorted' /\ Complete'
<1>1. PICK x : x = time + 1
  OBVIOUS
<1>2. x \in Span /\ time' = x /\ time' = (time + 1) % WIDTH
  BY <1>1, ShiftTicks DEF Shift
<1>3. PICK i \in Turning(x) :
        LET j == Index(x, i)
            w == Relinked([near |-> near, t |-> [t EXCEPT ![i][j] = <<>>]], t[i][j], x)
        IN  near' = w.near /\ t' = w.t
  BY <1>1, <1>2 DEF Shift
<1>4. PICK j, q : j = Index(x, i) /\ q = <<i, j>>
  OBVIOUS
<1>5. /\ UNCHANGED <<expire, current, due, log, order>>
      /\ \A n \in Node : Pending(n) =>
             /\ expire[n] \in Span /\ (x <= expire[n] \/ Behind(expire[n], time))
             /\ ~Taken(n)
  BY <1>1, ShiftTicks, ShiftHistory
<1>6. /\ WheelTypeOK /\ Sorted /\ Complete /\ time \in Span /\ Lists \in Wheels
      /\ expire \in [Node -> Span]
      /\ near \in [0 .. TIME_NEAR - 1 -> Seq(Node)]
      /\ t \in [0 .. LEVELS - 1 -> [0 .. TIME_LEVEL - 2 -> Seq(Node)]]
  BY DEF WheelInv, WheelTypeOK, Lists, Wheels
<1>7. /\ q \in Places
      /\ \A e \in Span : x <= e /\ Together(e, x, i) =>
            Place(e, time) = q /\ Place(e, x) \in Places /\ Place(e, x) # q /\ Place(e, x)[1] < i
      /\ \A e \in Span : (x <= e \/ Behind(e, time)) /\ ~(x <= e /\ Together(e, x, i)) =>
            Place(e, x) = Place(e, time) /\ Place(e, time) # q /\ Place(e, x)[1] >= i
  BY <1>1, <1>2, <1>4, <1>6, SomeMove
<1>8. i \in 0 .. LEVELS - 1 /\ i # Near /\ i \in Int
  <2>1. i \in 0 .. LEVELS - 1
    BY <1>1, <1>2, <1>6, TurningIs
  <2> QED BY <2>1 DEF LEVELS, Near
<1>9. j \in 0 .. TIME_LEVEL - 2
  BY <1>4, <1>7, <1>8 DEF Places
<1>10. PICK list, w : list = t[i][j] /\ w = [near |-> near, t |-> [t EXCEPT ![i][j] = <<>>]]
  OBVIOUS
<1>11. list = At(Lists, q) /\ list \in Seq(Node)
  <2>1. list = At(Lists, q)
    BY <1>4, <1>8, <1>10 DEF At, Lists
  <2> QED BY <1>6, <1>7, <2>1, ListAt
<1>12. w \in Wheels /\ \A p \in Places : At(w, p) = IF p = q THEN <<>> ELSE At(Lists, p)
  <2>1. w.near = near /\ w.t = [t EXCEPT ![i] = [t[i] EXCEPT ![j] = <<>>]] /\ w = [near |-> w.near, t |-> w.t]
    BY <1>10
  <2>2. t[i] \in [0 .. TIME_LEVEL - 2 -> Seq(Node)]
    BY <1>6, <1>8
  <2>3. PICK u : u = [t[i] EXCEPT ![j] = <<>>]
    OBVIOUS
  <2>4. u \in [0 .. TIME_LEVEL - 2 -> Seq(Node)] /\ \A h \in 0 .. TIME_LEVEL - 2 : u[h] = IF h = j THEN <<>> ELSE t[i][h]
    <3>1. PICK D : D = 0 .. TIME_LEVEL - 2
      OBVIOUS
    <3>2. PICK f \in [D -> Seq(Node)] : f = t[i]
      BY <2>2, <3>1
    <3>3. PICK none \in Seq(Node) : none = <<>>
      <4>1. <<>> \in Seq(Node)
        OBVIOUS
      <4> QED BY <4>1
    <3>4. u = [f EXCEPT ![j] = none] /\ j \in D
      BY <1>9, <2>3, <3>1, <3>2, <3>3
    <3>5. u \in [D -> Seq(Node)] /\ \A h \in D : u[h] = IF h = j THEN none ELSE f[h]
      BY <3>4
    <3> QED BY <3>1, <3>2, <3>3, <3>5
  <2>5. w.t = [t EXCEPT ![i] = u]
    BY <2>1, <2>3
  <2>6. w.t \in [0 .. LEVELS - 1 -> [0 .. TIME_LEVEL - 2 -> Seq(Node)]]
        /\ \A k \in 0 .. LEVELS - 1 : w.t[k] = IF k = i THEN u ELSE t[k]
    BY <1>6, <1>8, <2>4, <2>5
  <2>7. w \in Wheels
    BY <1>6, <2>1, <2>6 DEF Wheels
  <2>8. ASSUME NEW p \in Places PROVE At(w, p) = IF p = q THEN <<>> ELSE At(Lists, p)
    <3>1. CASE p[1] = Near
      <4>1. p # q
        BY <1>4, <1>8, <3>1
      <4> QED BY <2>1, <3>1, <4>1 DEF At, Lists
    <3>2. CASE p[1] # Near
      <4>1. p = <<p[1], p[2]>> /\ p[1] \in 0 .. LEVELS - 1 /\ p[2] \in 0 .. TIME_LEVEL - 2
        BY <3>2 DEF Places
      <4>2. p = q <=> p[1] = i /\ p[2] = j
        BY <1>4, <4>1
      <4>3. At(w, p) = w.t[p[1]][p[2]] /\ At(Lists, p) = t[p[1]][p[2]]
        BY <3>2 DEF At, Lists
      <4>4. w.t[p[1]][p[2]] = IF p[1] = i /\ p[2] = j THEN <<>> ELSE t[p[1]][p[2]]
        BY <2>4, <2>6, <4>1
      <4> QED BY <4>2, <4>3, <4>4
    <3> QED BY <3>1, <3>2
  <2> QED BY <2>7, <2>8
<1>13. ASSUME NEW m \in 1 .. Len(list)
       PROVE  /\ list[m] \in Node /\ Pending(list[m]) /\ m \in Nat
              /\ Place(expire[list[m]], x) \in Places
              /\ Place(expire[list[m]], x) # q /\ Place(expire[list[m]], x)[1] < i
  <2>1. list[m] \in Node /\ m \in Nat
    BY <1>6, <1>7, <1>11, ListAt
  <2>2. Pending(list[m]) /\ Place(expire[list[m]], time) = q
    BY <1>6, <1>7, <1>11, <2>1 DEF Sorted
  <2>3. expire[list[m]] \in Span /\ (x <= expire[list[m]] \/ Behind(expire[list[m]], time))
    BY <1>5, <2>1, <2>2
  <2>4. x <= expire[list[m]] /\ Together(expire[list[m]], x, i)
    BY <1>7, <2>2, <2>3
  <2> QED BY <1>7, <2>1, <2>2, <2>3, <2>4
<1>14. ASSUME NEW n \in Node, Pending(n), Place(expire[n], time) # q
       PROVE  Place(expire[n], x) = Place(expire[n], time) /\ Place(expire[n], x)[1] >= i
  BY <1>5, <1>7, <1>14
<1>15. ASSUME NEW m \in 1 .. Len(list)
       PROVE  At(w, Place(expire[list[m]], x)) = <<>>
  <2>1. PICK p \in Places : p = Place(expire[list[m]], x)
    BY <1>13
  <2>2. p # q /\ p[1] < i /\ At(w, p) = At(Lists, p)
    BY <1>12, <1>13, <2>1
  <2>3. At(Lists, p) \in Seq(Node)
    BY <1>6, ListAt
  <2>4. SUFFICES ASSUME At(Lists, p) # <<>> PROVE FALSE
    BY <2>1, <2>2
  <2>5. 1 \in 1 .. Len(At(Lists, p))
    BY <2>3, <2>4
  <2>6. PICK n : n = At(Lists, p)[1]
    OBVIOUS
  <2>7. n \in Node
    BY <1>6, <2>5, <2>6, ListAt
  <2>8. Pending(n) /\ Place(expire[n], time) = p
    BY <1>6, <2>5, <2>6 DEF Sorted
  <2>9. p = Place(expire[n], x) /\ Place(expire[n], x)[1] >= i
    BY <1>14, <2>2, <2>7, <2>8
  <2>10. PICK z \in Int : z = p[1]
    <3>1. p[1] \in Int
      BY DEF Places, Near, LEVELS
    <3> QED BY <3>1
  <2> QED BY <1>8, <2>2, <2>9, <2>10
<1>16. PICK r : r = Relinked(w, list, x)
  OBVIOUS
<1>17. /\ r \in Wheels
       /\ \A p \in Places :
              \/ At(w, p) = <<>> /\ Sifted(list, x, Len(list), p, At(r, p))
              \/ Moved(list, x, Len(list), p) = {} /\ At(r, p) = At(w, p)
  <2>1. \A m \in 1 .. Len(list) :
          LET p == Place(expire[list[m]], x) IN p \in Places /\ At(w, p) = <<>>
    BY <1>13, <1>15
  <2>2. /\ Relinked(w, list, x) \in Wheels
        /\ \A p \in Places :
               \/ /\ At(w, p) = <<>>
                  /\ Sifted(list, x, Len(list), p, At(Relinked(w, list, x), p))
               \/ /\ Moved(list, x, Len(list), p) = {}
                  /\ At(Relinked(w, list, x), p) = At(w, p)
    BY <1>2, <1>6, <1>11, <1>12, <2>1, RelinkedIs
  <2> QED BY <1>16, <2>2
<1>18. Lists' = r
  <2>1. near' = r.near /\ t' = r.t
    BY <1>3, <1>4, <1>10, <1>16
  <2> QED BY <1>17, <2>1 DEF Lists, Wheels
<1>19. \A n : (Pending(n)' <=> Pending(n)) /\ (Taken(n)' <=> Taken(n))
  BY <1>5 DEF Pending, Taken
<1>20. \A m, n : Before(m, n)' <=> Before(m, n)
  BY <1>5 DEF Before
<1>21. \A p \in Places : \A m \in Moved(list, x, Len(list), p) :
         m \in 1 .. Len(list) /\ Place(expire[list[m]], x) = p
  BY DEF Moved
<1>22. \A p \in Places : At(r, p) = At(w, p) /\ At(r, p) # <<>> => p # q /\ At(r, p) = At(Lists, p)
  BY <1>12
<1>23. Sorted'
  <2>1. ASSUME NEW p \in Places, NEW a \in Nat, a \in 1 .. Len(At(r, p)), NEW n, n = At(r, p)[a]
        PROVE  Pending(n) /\ ~Taken(n) /\ Place(expire[n], x) = p
    <3>1. At(r, p) # <<>>
      BY <2>1
    <3>2. CASE Sifted(list, x, Len(list), p, At(r, p))
      <4>1. PICK m \in Moved(list, x, Len(list), p) : n = list[m]
        BY <2>1, <3>2 DEF Sifted
      <4>2. m \in 1 .. Len(list) /\ Place(expire[n], x) = p
        BY <1>21, <4>1
      <4>3. n \in Node /\ Pending(n)
        BY <1>13, <4>1, <4>2
      <4> QED BY <1>5, <4>2, <4>3
    <3>3. CASE At(r, p) = At(w, p)
      <4>1. p # q /\ At(r, p) = At(Lists, p)
        BY <1>22, <3>1, <3>3
      <4>2. Pending(n) /\ Place(expire[n], time) = p
        BY <1>6, <2>1, <4>1 DEF Sorted
      <4>3. n \in Node
        BY <1>6, <2>1, <4>1, ListAt
      <4> QED BY <1>5, <1>14, <4>1, <4>2, <4>3
    <3> QED BY <1>17, <3>2, <3>3
  <2>2. ASSUME NEW p \in Places, NEW a \in Nat, NEW b \in Nat,
               a \in 1 .. Len(At(r, p)), b \in 1 .. Len(At(r, p)), a < b,
               NEW m, NEW n, m = At(r, p)[a], n = At(r, p)[b]
        PROVE  Before(m, n)
    <3>1. At(r, p) # <<>>
      BY <2>2
    <3>2. CASE Sifted(list, x, Len(list), p, At(r, p))
      <4>1. PICK k, l \in Moved(list, x, Len(list), p) : k < l /\ m = list[k] /\ n = list[l]
        BY <2>2, <3>2 DEF Sifted
      <4>2. k \in 1 .. Len(list) /\ l \in 1 .. Len(list) /\ k \in Nat /\ l \in Nat
        BY <1>13, <1>21, <4>1
      <4> QED BY <1>6, <1>7, <1>11, <4>1, <4>2 DEF Sorted
    <3>3. CASE At(r, p) = At(w, p)
      <4>1. At(r, p) = At(Lists, p)
        BY <1>22, <3>1, <3>3
      <4> QED BY <1>6, <2>2, <4>1 DEF Sorted
    <3> QED BY <1>17, <3>2, <3>3
  <2>3. ASSUME NEW p \in Places, NEW a \in Nat, a \in 1 .. Len(At(r, p)), NEW n, n = At(r, p)[a]
        PROVE  Pending(n)' /\ ~Taken(n)' /\ Place(expire[n], x) = p
    BY <1>19, <2>1, <2>3
  <2>4. ASSUME NEW p \in Places, NEW a \in Nat, NEW b \in Nat,
               a \in 1 .. Len(At(r, p)), b \in 1 .. Len(At(r, p)), a < b,
               NEW m, NEW n, m = At(r, p)[a], n = At(r, p)[b]
        PROVE  Before(m, n)'
    BY <1>20, <2>2, <2>4
  <2> QED BY <1>2, <1>5, <1>18, <2>3, <2>4 DEF Sorted
<1>24. Complete'
  <2>1. ASSUME NEW n \in Node, Pending(n)
        PROVE  LET p == Place(expire[n], x)
               IN  p \in Places /\ \E a \in 1 .. Len(At(r, p)) : At(r, p)[a] = n
    <3>1. ~Taken(n)
      BY <1>5, <2>1
    <3>2. PICK p, o : p = Place(expire[n], x) /\ o = Place(expire[n], time)
      OBVIOUS
    <3>3. o \in Places /\ \E a \in 1 .. Len(At(Lists, o)) : At(Lists, o)[a] = n
      BY <1>6, <2>1, <3>1, <3>2 DEF Complete
    <3>4. CASE o = q
      <4>1. PICK m \in 1 .. Len(list) : list[m] = n
        BY <1>11, <3>3, <3>4
      <4>2. p \in Places
        BY <1>13, <3>2, <4>1
      <4>3. m \in Moved(list, x, Len(list), p)
        BY <3>2, <4>1 DEF Moved
      <4>4. Sifted(list, x, Len(list), p, At(r, p))
        BY <1>17, <4>2, <4>3
      <4>5. \E a \in 1 .. Len(At(r, p)) : At(r, p)[a] = n
        BY <4>1, <4>3, <4>4 DEF Sifted
      <4> QED BY <3>2, <4>2, <4>5
    <3>5. CASE o # q
      <4>1. p = o
        BY <1>14, <2>1, <3>2, <3>5
      <4>2. At(w, p) = At(Lists, p) /\ p \in Places
        BY <1>12, <3>3, <3>5, <4>1
      <4>3. At(w, p) # <<>>
        BY <3>3, <4>1, <4>2
      <4>4. At(r, p) = At(w, p)
        BY <1>17, <4>2, <4>3
      <4> QED BY <3>2, <3>3, <4>1, <4>2, <4>4
    <3> QED BY <3>4, <3>5
  <2> QED BY <1>2, <1>5, <1>18, <1>19, <2>1 DEF Complete
<1> QED BY <1>17, <1>18, <1>23, <1>24

(* timer_shift.                                                            *)
LEMMA ShiftKeeps == WheelAssumption /\ WheelInv /\ fault = "none" /\ Shift => WheelInv'
<1> SUFFICES ASSUME WheelAssumption, WheelInv, fault = "none", Shift PROVE WheelInv'
  OBVIOUS
<1>1. /\ AddedOnce' /\ DispatchedOnce' /\ NotLate' /\ Overtaken'
      /\ time' \in Span /\ now' \in Nat /\ pc' = "second"
      /\ UNCHANGED <<expire, current, due, log, order>>
  BY ShiftHistory
<1>2. WheelTypeOK /\ time \in Span /\ Lists \in Wheels
  BY DEF WheelInv, WheelTypeOK
<1>3. Lists' \in Wheels => WheelTypeOK'
  BY <1>1, <1>2 DEF WheelTypeOK
<1>4. WIDTH \in Nat /\ WIDTH > 0 /\ time \in Nat /\ time < WIDTH
  BY <1>2, SpanIs DEF Span
<1>5. CASE time + 1 \in Span
  <2>1. Ticks' /\ Running'
    BY <1>5, ShiftTicks
  <2>2. Lists' \in Wheels /\ Sorted' /\ Complete'
    BY <1>2, <1>5, QuietTick, TurningTick
  <2> QED BY <1>1, <1>3, <2>1, <2>2 DEF WheelInv
<1>6. CASE time + 1 \notin Span
  <2>1. time + 1 = WIDTH
    BY <1>4, <1>6 DEF Span
  <2>2. (time + 1) % WIDTH = 0
    <3>1. 1 * WIDTH + 0 = WIDTH /\ 0 \in 0 .. WIDTH - 1
      BY <1>4
    <3>2. (1 * WIDTH + 0) % WIDTH = 0
      BY <1>4, <3>1, QuotientIs
    <3> QED BY <2>1, <3>1, <3>2
  <2>3. Turning(0) = {}
    <3>1. SUFFICES ASSUME NEW i \in 0 .. LEVELS - 1 PROVE Stretch(0, i) % TIME_LEVEL = 0
      BY DEF Turning
    <3>2. i \in 0 .. LEVELS
      BY DEF LEVELS
    <3>3. PICK b \in Nat : b = Size(i) /\ b > 0
      BY <3>2, Sizes
    <3>4. TIME_LEVEL \in Nat /\ TIME_LEVEL > 0
      BY DEF WheelAssumption
    <3>5. \A c \in Nat : c > 0 => 0 \div c = 0 /\ 0 % c = 0
      <4>1. TAKE c \in Nat
      <4>2. HAVE c > 0
      <4>3. 0 * c + 0 = 0 /\ 0 \in 0 .. c - 1
        BY <4>2
      <4>4. (0 * c + 0) \div c = 0 /\ (0 * c + 0) % c = 0
        BY <4>2, <4>3, QuotientIs
      <4> QED BY <4>3, <4>4
    <3> QED BY <3>3, <3>4, <3>5 DEF Stretch
  <2>4. UNCHANGED <<near, t>> /\ fault' = "endless"
    BY <2>2, <2>3 DEF Shift
  <2>5. Lists' = Lists
    BY <2>4 DEF Lists
  <2> QED BY <1>1, <1>2, <1>3, <2>4, <2>5 DEF WheelInv
<1> QED BY <1>5, <1>6

-----------------------------------------------------------------------------
(* The threads' steps together.                                            *)
LEMMA WheelSteps == WheelAssumption /\ WheelInv /\ WheelNext => WheelInv'
<1> SUFFICES ASSUME WheelAssumption, WheelInv, WheelNext PROVE WheelInv'
  OBVIOUS
<1>1. fault = "none" /\ (Add \/ Update \/ Execute \/ Fire \/ Shift)
  BY DEF WheelNext
<1>2. CASE Execute
  BY <1>1, <1>2, TakeKeeps, NoneKeeps
<1> QED BY <1>1, <1>2, AddKeeps, UpdateKeeps, FireKeeps, ShiftKeeps

(* If nothing changes.                                                     *)
LEMMA WheelRests == WheelInv /\ UNCHANGED wheelVars => WheelInv'
<1> SUFFICES ASSUME WheelInv, UNCHANGED wheelVars PROVE WheelInv'
  OBVIOUS
<1>1. UNCHANGED <<time, near, t, expire, pc, diff, current, now, due, log, order, fault>>
  BY DEF wheelVars, wheel
<1>2. /\ Lists' = Lists
      /\ \A n : (Pending(n)' <=> Pending(n)) /\ (Taken(n)' <=> Taken(n))
      /\ \A m, n : Before(m, n)' <=> Before(m, n)
  BY <1>1 DEF Lists, Pending, Taken, Before
<1>3. WheelTypeOK' <=> WheelTypeOK
  BY <1>1, <1>2 DEF WheelTypeOK
<1>4. (AddedOnce' <=> AddedOnce) /\ (DispatchedOnce' <=> DispatchedOnce)
  BY <1>1 DEF AddedOnce, DispatchedOnce
<1>5. (NotLate' <=> NotLate) /\ (Ticks' <=> Ticks)
  BY <1>1, <1>2 DEF NotLate, Ticks
<1>6. Overtaken' <=> Overtaken
  BY <1>1, <1>2 DEF Overtaken
<1>7. Sorted' <=> Sorted
  BY <1>1, <1>2 DEF Sorted
<1>8. Complete' <=> Complete
  BY <1>1, <1>2 DEF Complete
<1>9. Running' <=> Running
  BY <1>1, <1>2 DEF Running
<1> QED BY <1>1, <1>3, <1>4, <1>5, <1>6, <1>7, <1>8, <1>9 DEF WheelInv

(* What is promised of timeouts is part of the invariant.                  *)
LEMMA WheelInvImplies == WheelInv => OnTime /\ InOrder
<1> SUFFICES ASSUME WheelInv PROVE OnTime /\ InOrder
  OBVIOUS
<1>1. WheelTypeOK /\ DispatchedOnce /\ NotLate /\ Overtaken
  BY DEF WheelInv
<1>2. DOMAIN log = 1 .. Len(log) /\ DOMAIN order = 1 .. Len(order)
  BY <1>1 DEF WheelTypeOK
<1>3. OnTime
  <2>1. \A n \in Node \ Done : due[n] # 0 => Pending(n)
    BY <1>2 DEF Done, Pending
  <2> QED BY <1>1, <1>2, <2>1 DEF OnTime, DispatchedOnce, NotLate
<1>4. InOrder
  BY <1>1, <1>2 DEF InOrder, Overtaken, Before
<1> QED BY <1>3, <1>4
=============================================================================
