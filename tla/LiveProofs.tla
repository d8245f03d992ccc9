------------------------------ MODULE LiveProofs ------------------------------
(***************************************************************************)
(* Proofs about the parts of MCLive: a writer that has the lock is alone,  *)
(* and the lock-free ring is an atomic FIFO.  For the ring, the inductive  *)
(* invariant is RingInv of GlobalMQ, and each step of a worker is a step   *)
(* of GlobalQueue or none: the fetch-and-add on tail is the push, and a    *)
(* successful compare-and-swap on head is the pop.                         *)
(***************************************************************************)
EXTENDS MCLive, FiniteSetTheorems, TLAPS

(* The read-write lock.                                                    *)

LEMMA CountedFinite == IsFiniteSet(Counted) /\ Cardinality(Counted) \in Nat
  <1>1. Counted \subseteq Thread
    BY DEF Counted
  <1> QED BY <1>1, ThreadAssumption, FS_Subset, FS_CardinalityType

(* One reader more, one less, or the same.                                 *)
LEMMA CountIn ==
    ASSUME NEW t \in Thread, t \notin Counted, Counted' = Counted \cup {t}
    PROVE  Cardinality(Counted') = Cardinality(Counted) + 1
  BY CountedFinite, FS_AddElement

LEMMA CountOut ==
    ASSUME NEW t \in Thread, t \in Counted, Counted' = Counted \ {t}
    PROVE  Cardinality(Counted') = Cardinality(Counted) - 1 /\ Cardinality(Counted) > 0
  BY CountedFinite, FS_RemoveElement, FS_EmptySet, FS_CardinalityType

LEMMA InitLock == Init => LockInv
  <1> SUFFICES ASSUME Init PROVE LockInv
    OBVIOUS
  <1>1. Counted = {}
    BY DEF Init, Counted
  <1>2. Cardinality(Counted) = 0
    BY <1>1, FS_EmptySet
  <1> QED BY <1>2 DEF Init, LockInv, TypeOK, Single, Set, Alone, Holds

LEMMA StepLock == LockInv /\ [Next]_vars => LockInv'
  <1> SUFFICES ASSUME LockInv, [Next]_vars PROVE LockInv'
    OBVIOUS
  <1> USE DEF LockInv, TypeOK, Goto
  <1>1. ASSUME NEW t \in Thread, Start(t) PROVE LockInv'
    <2>1. Counted' = Counted
      BY <1>1 DEF Start, Counted
    <2> QED BY <1>1, <2>1 DEF Start, Single, Set, Alone, Holds
  <1>2. ASSUME NEW t \in Thread, ReadWait(t) PROVE LockInv'
    <2>1. Counted' = Counted
      BY <1>2 DEF ReadWait, Counted
    <2> QED BY <1>2, <2>1 DEF ReadWait, Single, Set, Alone, Holds
  <1>3. ASSUME NEW t \in Thread, ReadAdd(t) PROVE LockInv'
    <2>1. t \notin Counted /\ Counted' = Counted \cup {t}
      BY <1>3 DEF ReadAdd, Counted
    <2>2. read' = Cardinality(Counted')
      BY <1>3, <2>1, CountIn DEF ReadAdd
    <2> QED BY <1>3, <2>2 DEF ReadAdd, Single, Set, Alone, Holds
  <1>4. ASSUME NEW t \in Thread, ReadLook(t) PROVE LockInv'
    <2>1. Counted' = Counted
      BY <1>4 DEF ReadLook, Counted
    <2> QED BY <1>4, <2>1 DEF ReadLook, Single, Set, Alone, Holds
  <1>5. ASSUME NEW t \in Thread, ReadBack(t) PROVE LockInv'
    <2>1. t \in Counted /\ Counted' = Counted \ {t}
      BY <1>5 DEF ReadBack, Counted
    <2> QED BY <1>5, <2>1, CountOut, CountedFinite DEF ReadBack, Single, Set, Alone, Holds
  <1>6. ASSUME NEW t \in Thread, ReadUnlock(t) PROVE LockInv'
    <2>1. t \in Counted /\ Counted' = Counted \ {t}
      BY <1>6 DEF ReadUnlock, Counted
    <2> QED BY <1>6, <2>1, CountOut, CountedFinite DEF ReadUnlock, Single, Set, Alone, Holds
  <1>7. ASSUME NEW t \in Thread, WriteSet(t) PROVE LockInv'
    <2>1. Counted' = Counted
      BY <1>7 DEF WriteSet, Counted
    <2> QED BY <1>7, <2>1 DEF WriteSet, Single, Set, Alone, Holds
  <1>8. ASSUME NEW t \in Thread, WriteWait(t) PROVE LockInv'
    <2>1. Counted' = Counted
      BY <1>8 DEF WriteWait, Counted
    <2>2. Counted = {}
      BY <1>8, CountedFinite, FS_EmptySet DEF WriteWait
    <2> QED BY <1>8, <2>1, <2>2 DEF WriteWait, Single, Set, Alone, Holds, Counted
  <1>9. ASSUME NEW t \in Thread, WriteUnlock(t) PROVE LockInv'
    <2>1. Counted' = Counted
      BY <1>9 DEF WriteUnlock, Counted
    <2> QED BY <1>9, <2>1 DEF WriteUnlock, Single, Set, Alone, Holds
  <1>10. CASE UNCHANGED vars
    BY <1>10 DEF vars, Counted, Single, Set, Alone, Holds
  <1> QED BY <1>1, <1>2, <1>3, <1>4, <1>5, <1>6, <1>7, <1>8, <1>9, <1>10 DEF Next, Work

(* A writer in its critical section is alone, whatever the interleaving of *)
(* the accesses of rwlock_rlock and rwlock_wlock to lock->write and        *)
(* lock->read.                                                             *)
THEOREM WriterAlone == Spec => []Exclusion
  <1>1. LockInv => Exclusion
    BY DEF LockInv, Single, Alone, Holds, Exclusion
  <1> QED BY InitLock, StepLock, <1>1, PTL DEF Spec

-----------------------------------------------------------------------------
(* The ring: arithmetic of positions and slots.                            *)

(* The instance's operators on sets are those of FiniteSets.               *)
LEMMA SameSize ==
    \A S : (Ring!IsFiniteSet(S) <=> IsFiniteSet(S)) /\ Ring!Cardinality(S) = Cardinality(S)
  <1>1. \A S : Ring!IsFiniteSet(S) <=> IsFiniteSet(S)
    BY DEF Ring!IsFiniteSet, IsFiniteSet
  <1>2. \A S : Ring!Cardinality(S) = Cardinality(S)
    BY Zenon DEF Ring!Cardinality, Cardinality
  <1> QED BY <1>1, <1>2

(* The constants are numbers, and the counters are wider than the ring.    *)
LEMMA Numbers ==
    /\ MAX_GLOBAL_MQ \in Nat \ {0} /\ WIDTH \in Nat \ {0}
    /\ WIDTH > MAX_GLOBAL_MQ /\ WIDTH % MAX_GLOBAL_MQ = 0
    /\ None \notin Queue /\ Boot \subseteq Queue
    /\ IsFiniteSet(Queue) /\ Cardinality(Queue) \in Nat /\ Cardinality(Queue) < MAX_GLOBAL_MQ
  <1>1. IsFiniteSet(Queue) /\ Cardinality(Queue) < MAX_GLOBAL_MQ
    BY LiveAssumption, SameSize DEF Ring!RingAssumption
  <1>2. Cardinality(Queue) \in Nat
    BY <1>1, FS_CardinalityType
  <1> QED BY LiveAssumption, <1>1, <1>2, SMT DEF Ring!RingAssumption

(* A number at most one round off is reduced by adding or subtracting one. *)
LEMMA Reduced ==
    ASSUME NEW n \in Nat \ {0}, NEW x \in Int, - n <= x, x < 2 * n
    PROVE  x % n = IF x < 0 THEN x + n ELSE IF x < n THEN x ELSE x - n
  <1>1. CASE x < 0 BY <1>1, SMT
  <1>2. CASE 0 <= x /\ x < n BY <1>2, SMT
  <1>3. CASE n <= x BY <1>3, SMT
  <1> QED BY <1>1, <1>2, <1>3, SMT

(* Two different numbers with the same remainder are a round apart.        *)
LEMMA SameRemainder ==
    ASSUME NEW n \in Nat \ {0}, NEW x \in Nat, NEW y \in Nat, x < y, x % n = y % n
    PROVE  y - x >= n /\ (y - x) % n = 0
  <1> DEFINE a == x \div n
             b == y \div n
             r == x % n
  <1>1. x = (a * n) + r /\ y = (b * n) + r /\ a \in Int /\ b \in Int /\ r \in Int
    BY SMT
  <1> HIDE DEF a, b, r
  <1>2. y - x = (b - a) * n
    BY <1>1, SMT
  <1>3. b - a >= 1
    <2> SUFFICES ASSUME b - a <= 0 PROVE FALSE
      BY <1>1, SMT
    <2>1. (a - b) * n >= 0 /\ (a - b) * n = - ((b - a) * n)
      BY <1>1, SMT
    <2> QED BY <1>2, <2>1, SMT
  <1>4. (b - a - 1) * n >= 0 /\ (b - a - 1) * n = (b - a) * n - n
    BY <1>1, <1>3, SMT
  <1>5. ((b - a) * n) % n = 0
    BY <1>1, <1>3, SMT
  <1> QED BY <1>2, <1>4, <1>5, SMT

LEMMA SlotType ==
    ASSUME NEW p \in 0 .. WIDTH - 1
    PROVE  Ring!GP(p) \in Ring!Slot
  BY Numbers, SMT DEF Ring!GP, Ring!Slot

(* Two positions with the same slot are a round of the ring apart, and     *)
(* also the other way around the counter.                                  *)
LEMMA SameSlot ==
    ASSUME NEW p \in 0 .. WIDTH - 1, NEW r \in 0 .. WIDTH - 1,
           p < r, Ring!GP(p) = Ring!GP(r)
    PROVE  r - p >= MAX_GLOBAL_MQ /\ r - p <= WIDTH - MAX_GLOBAL_MQ
  <1>1. p \in Nat /\ r \in Nat /\ MAX_GLOBAL_MQ \in Nat \ {0} /\ p % MAX_GLOBAL_MQ = r % MAX_GLOBAL_MQ
    BY Numbers DEF Ring!GP
  <1>2. r - p >= MAX_GLOBAL_MQ /\ (r - p) % MAX_GLOBAL_MQ = WIDTH % MAX_GLOBAL_MQ
    BY <1>1, SameRemainder, Numbers
  <1>3. WIDTH - (r - p) >= MAX_GLOBAL_MQ
    <2>1. r - p \in Nat /\ WIDTH \in Nat /\ r - p < WIDTH
      BY <1>1, <1>2, Numbers, SMT
    <2> QED BY <1>1, <1>2, <2>1, SameRemainder
  <1> QED BY <1>1, <1>2, <1>3, Numbers, SMT

(* Positions in use have slots of their own.                               *)
LEMMA SlotsApart ==
    ASSUME Ring!RingTypeOK, NEW p \in 0 .. WIDTH - 1, NEW r \in 0 .. WIDTH - 1,
           Ring!Ahead(p) < MAX_GLOBAL_MQ, Ring!Ahead(r) < MAX_GLOBAL_MQ, Ring!GP(p) = Ring!GP(r)
    PROVE  p = r
  <1> SUFFICES ASSUME NEW a \in 0 .. WIDTH - 1, NEW b \in 0 .. WIDTH - 1, a < b, Ring!GP(a) = Ring!GP(b),
                      Ring!Ahead(a) < MAX_GLOBAL_MQ, Ring!Ahead(b) < MAX_GLOBAL_MQ
               PROVE  FALSE
    BY Numbers, SMT DEF Ring!Ahead, Ring!RingTypeOK
  <1>1. b - a >= MAX_GLOBAL_MQ /\ b - a <= WIDTH - MAX_GLOBAL_MQ
    BY SameSlot
  <1> QED BY <1>1, Numbers, SMT DEF Ring!Ahead, Ring!RingTypeOK

LEMMA IncIs ==
    ASSUME NEW p \in 0 .. WIDTH - 1
    PROVE  Ring!Inc(p) = IF p = WIDTH - 1 THEN 0 ELSE p + 1
  <1>1. (p + 1) % WIDTH = IF p + 1 < WIDTH THEN p + 1 ELSE p + 1 - WIDTH
    <2>1. p + 1 \in Int /\ 0 <= p + 1 /\ p + 1 < 2 * WIDTH /\ - WIDTH <= p + 1
      BY Numbers, SMT
    <2>2. (p + 1) % WIDTH = IF p + 1 < 0 THEN (p + 1) + WIDTH
                            ELSE IF p + 1 < WIDTH THEN p + 1 ELSE (p + 1) - WIDTH
      <3> DEFINE x == p + 1
      <3> HIDE DEF x
      <3>1. x % WIDTH = IF x < 0 THEN x + WIDTH ELSE IF x < WIDTH THEN x ELSE x - WIDTH
        <4>1. x \in Int /\ - WIDTH <= x /\ x < 2 * WIDTH
          BY <2>1 DEF x
        <4> QED BY <4>1, Reduced, Numbers
      <3> QED BY <3>1 DEF x
    <2> QED BY <2>1, <2>2, Numbers, SMT
  <1> QED BY <1>1, Numbers, SMT DEF Ring!Inc

(* A push claims the position tail, and head is given up by a pop.         *)
LEMMA Grows ==
    ASSUME Ring!RingTypeOK, Ring!Ahead(tail) < MAX_GLOBAL_MQ,
           tail' = Ring!Inc(tail), head' = head
    PROVE  /\ tail' \in 0 .. WIDTH - 1 /\ tail' # head
           /\ tail \notin Ring!Claimed /\ Ring!Claimed' = Ring!Claimed \cup {tail}
           /\ Ring!Ahead(tail)' = Ring!Ahead(tail) + 1
           /\ \A p \in Ring!Claimed : Ring!GP(p) # Ring!GP(tail)
  <1>1. tail' = IF tail = WIDTH - 1 THEN 0 ELSE tail + 1
    BY IncIs DEF Ring!RingTypeOK
  <1>2. Ring!Ahead(tail)' = Ring!Ahead(tail) + 1 /\ tail' \in 0 .. WIDTH - 1 /\ tail' # head
    BY <1>1, Numbers, SMT DEF Ring!Ahead, Ring!RingTypeOK
  <1>3. \A p \in 0 .. WIDTH - 1 : Ring!Ahead(p)' = Ring!Ahead(p)
            /\ (Ring!Ahead(p) = Ring!Ahead(tail) => p = tail)
                                  /\ Ring!Ahead(p) \in Nat
    BY Numbers, SMT DEF Ring!Ahead, Ring!RingTypeOK
  <1>4. Ring!Claimed' = {p \in 0 .. WIDTH - 1 : Ring!Ahead(p)' < Ring!Ahead(tail)'}
    BY DEF Ring!Claimed
  <1>5. tail \notin Ring!Claimed
    BY <1>3, SMT DEF Ring!Claimed, Ring!RingTypeOK
  <1>6. ASSUME NEW p PROVE p \in Ring!Claimed' <=> p \in Ring!Claimed \cup {tail}
    <2>1. CASE p \in 0 .. WIDTH - 1
      <3>1. p \in Ring!Claimed' <=> Ring!Ahead(p) < Ring!Ahead(tail) + 1
        BY <1>2, <1>3, <1>4, <2>1
      <3>2. p \in Ring!Claimed <=> Ring!Ahead(p) < Ring!Ahead(tail)
        BY <2>1 DEF Ring!Claimed
      <3>3. Ring!Ahead(p) \in Nat /\ Ring!Ahead(tail) \in Nat
                /\ (Ring!Ahead(p) = Ring!Ahead(tail) <=> p = tail)
        BY <1>3, <2>1 DEF Ring!RingTypeOK
      <3> QED BY <3>1, <3>2, <3>3, SMT
    <2>2. CASE p \notin 0 .. WIDTH - 1
      BY <1>4, <2>2 DEF Ring!Claimed, Ring!RingTypeOK
    <2> QED BY <2>1, <2>2
  <1>7. \A p \in Ring!Claimed : Ring!GP(p) # Ring!GP(tail)
    <2> SUFFICES ASSUME NEW p \in Ring!Claimed, Ring!GP(p) = Ring!GP(tail) PROVE FALSE
      OBVIOUS
    <2>1. p \in 0 .. WIDTH - 1 /\ Ring!Ahead(p) < MAX_GLOBAL_MQ /\ tail \in 0 .. WIDTH - 1
      BY <1>3, Numbers, SMT DEF Ring!Claimed, Ring!RingTypeOK
    <2> QED BY <2>1, SlotsApart, <1>5
  <1> QED BY <1>2, <1>5, <1>6, <1>7

LEMMA Shrinks ==
    ASSUME Ring!RingTypeOK, Ring!Ahead(tail) < MAX_GLOBAL_MQ, tail # head,
           head' = Ring!Inc(head), tail' = tail
    PROVE  /\ head' \in 0 .. WIDTH - 1 /\ head \in Ring!Claimed /\ Ring!Claimed' = Ring!Claimed \ {head}
           /\ Ring!Ahead(tail)' = Ring!Ahead(tail) - 1
  <1>1. head' = IF head = WIDTH - 1 THEN 0 ELSE head + 1
    BY IncIs DEF Ring!RingTypeOK
  <1>2. /\ Ring!Ahead(tail)' = Ring!Ahead(tail) - 1 /\ head' \in 0 .. WIDTH - 1
        /\ head \in Ring!Claimed
    BY <1>1, Numbers, SMT DEF Ring!Ahead, Ring!Claimed, Ring!RingTypeOK
  <1>3. Ring!Claimed' = {p \in 0 .. WIDTH - 1 : Ring!Ahead(p)' < Ring!Ahead(tail)'}
    BY DEF Ring!Claimed
  <1>4. ASSUME NEW p PROVE p \in Ring!Claimed' <=> p \in Ring!Claimed \ {head}
    <2>1. CASE p \in 0 .. WIDTH - 1
      <3>1. p \in Ring!Claimed' <=> Ring!Ahead(p)' < Ring!Ahead(tail) - 1
        BY <1>2, <1>3, <2>1
      <3>2. p \in Ring!Claimed <=> Ring!Ahead(p) < Ring!Ahead(tail)
        BY <2>1 DEF Ring!Claimed
      <3>3. /\ Ring!Ahead(p)' = IF p = head THEN WIDTH - 1 ELSE Ring!Ahead(p) - 1
            /\ Ring!Ahead(p) \in Nat /\ Ring!Ahead(tail) \in 1 .. WIDTH - 1
        BY <1>1, <2>1, Numbers, SMT DEF Ring!Ahead, Ring!RingTypeOK
      <3> QED BY <3>1, <3>2, <3>3, Numbers, SMT
    <2>2. CASE p \notin 0 .. WIDTH - 1
      BY <1>3, <2>2 DEF Ring!Claimed
    <2> QED BY <2>1, <2>2
  <1> QED BY <1>2, <1>4

-----------------------------------------------------------------------------
(* What is at a position.                                                  *)

LEMMA AtWriter ==
    ASSUME NEW p \in 0 .. WIDTH - 1, NEW t \in Worker, Ring!Writes(t, p),
           \A u \in Worker : Ring!Writes(u, p) => u = t
    PROVE  Ring!At[p] = arg[t]
  <1> DEFINE c == CHOOSE u \in Worker : ringPc[u] = "write" /\ pos[u] = p
  <1>1. \E u \in Worker : ringPc[u] = "write" /\ pos[u] = p
    BY DEF Ring!Writes
  <1>2. c \in Worker /\ ringPc[c] = "write" /\ pos[c] = p
    BY <1>1, Zenon
  <1>3. c = t
    BY <1>2 DEF Ring!Writes
  <1>4. Ring!At[p] = arg[c]
    BY <1>1 DEF Ring!At
  <1> QED BY <1>3, <1>4

LEMMA AtSlot ==
    ASSUME NEW p \in 0 .. WIDTH - 1, \A u \in Worker : ~Ring!Writes(u, p)
    PROVE  Ring!At[p] = slots[Ring!GP(p)]
  BY DEF Ring!At, Ring!Writes

(* The same after a step.                                                  *)
LEMMA AtWriterNext ==
    ASSUME NEW p \in 0 .. WIDTH - 1, NEW t \in Worker, Ring!Writes(t, p)',
           \A u \in Worker : Ring!Writes(u, p)' => u = t
    PROVE  Ring!At'[p] = arg'[t]
  <1> DEFINE c == CHOOSE u \in Worker : ringPc'[u] = "write" /\ pos'[u] = p
  <1>1. \E u \in Worker : ringPc'[u] = "write" /\ pos'[u] = p
    BY DEF Ring!Writes
  <1>2. c \in Worker /\ ringPc'[c] = "write" /\ pos'[c] = p
    BY <1>1, Zenon
  <1>3. c = t
    BY <1>2 DEF Ring!Writes
  <1>4. Ring!At'[p] = arg'[c]
    BY <1>1 DEF Ring!At
  <1> QED BY <1>3, <1>4

LEMMA AtSlotNext ==
    ASSUME NEW p \in 0 .. WIDTH - 1, \A u \in Worker : ~Ring!Writes(u, p)'
    PROVE  Ring!At'[p] = slots'[Ring!GP(p)]
  BY DEF Ring!At, Ring!Writes, Ring!GP

(* What is at a position stays there as long as nobody begins or ends to   *)
(* write it.                                                               *)
LEMMA AtStays ==
    ASSUME NEW p \in 0 .. WIDTH - 1,
           \A u, v \in Worker : Ring!Writes(u, p) /\ Ring!Writes(v, p) => u = v,
           \A u \in Worker : Ring!Writes(u, p)' <=> Ring!Writes(u, p),
           \A u \in Worker : Ring!Writes(u, p) => arg'[u] = arg[u],
           slots'[Ring!GP(p)] = slots[Ring!GP(p)]
    PROVE  Ring!At'[p] = Ring!At[p]
  <1>1. CASE \A u \in Worker : ~Ring!Writes(u, p)
    BY <1>1, AtSlot, AtSlotNext
  <1>2. ASSUME NEW t \in Worker, Ring!Writes(t, p) PROVE Ring!At'[p] = Ring!At[p]
    BY <1>2, AtWriter, AtWriterNext
  <1> QED BY <1>1, <1>2

(* Two workers never write the same position.                              *)
LEMMA OneWriter ==
    ASSUME Ring!RingInv, NEW p, NEW u \in Worker, NEW v \in Worker, Ring!Writes(u, p), Ring!Writes(v, p)
    PROVE  u = v
  BY DEF Ring!RingInv, Ring!Pushes, Ring!Pushing, Ring!Writes

(* There is a queue at every position in use.                              *)
LEMMA AtType ==
    ASSUME Ring!RingInv, NEW p \in Ring!Claimed
    PROVE  Ring!At[p] \in Queue
  <1>0. p \in 0 .. WIDTH - 1
    BY DEF Ring!Claimed
  <1>1. CASE \A u \in Worker : ~Ring!Writes(u, p)
    BY <1>0, <1>1, AtSlot DEF Ring!RingInv, Ring!Written
  <1>2. ASSUME NEW t \in Worker, Ring!Writes(t, p) PROVE Ring!At[p] \in Queue
    <2>1. p = pos[t] /\ Ring!Pushing(t)
      BY <1>2 DEF Ring!Writes, Ring!Pushing
    <2>2. Ring!At[p] = arg[t]
      BY <1>0, <1>2, OneWriter, AtWriter
    <2> QED BY <2>1, <2>2 DEF Ring!RingInv, Ring!Pushes
  <1> QED BY <1>1, <1>2

-----------------------------------------------------------------------------
(* The contents of the ring, as a sequence.                                *)

Position(i) == (head + i - 1) % WIDTH

LEMMA LoadIs ==
    ASSUME Ring!RingTypeOK
    PROVE  (tail - head) % WIDTH = Ring!Ahead(tail) /\ Ring!Ahead(tail) \in 0 .. WIDTH - 1
  <1>1. tail - head \in Int /\ - WIDTH <= tail - head /\ tail - head < 2 * WIDTH
    BY Numbers, SMT DEF Ring!RingTypeOK
  <1>2. (tail - head) % WIDTH = IF tail - head < 0 THEN tail - head + WIDTH
                                ELSE IF tail - head < WIDTH THEN tail - head ELSE tail - head - WIDTH
    BY <1>1, Reduced, Numbers
  <1> QED BY <1>2, Numbers, SMT DEF Ring!Ahead, Ring!RingTypeOK

LEMMA PositionIs ==
    ASSUME Ring!RingTypeOK, NEW i \in 1 .. WIDTH
    PROVE  /\ Position(i) = IF head + i - 1 < WIDTH THEN head + i - 1 ELSE head + i - 1 - WIDTH
           /\ Position(i) \in 0 .. WIDTH - 1
           /\ Ring!Ahead(Position(i)) = i - 1
  <1>1. head + i - 1 \in Int /\ 0 <= head + i - 1 /\ head + i - 1 < 2 * WIDTH /\ - WIDTH <= head + i - 1
    BY Numbers, SMT DEF Ring!RingTypeOK
  <1>2. Position(i) = IF head + i - 1 < 0 THEN head + i - 1 + WIDTH
                      ELSE IF head + i - 1 < WIDTH THEN head + i - 1 ELSE head + i - 1 - WIDTH
    <2> DEFINE x == head + i - 1
    <2> HIDE DEF x
    <2>1. x % WIDTH = IF x < 0 THEN x + WIDTH ELSE IF x < WIDTH THEN x ELSE x - WIDTH
      <3>1. x \in Int /\ - WIDTH <= x /\ x < 2 * WIDTH
        BY <1>1 DEF x
      <3> QED BY <3>1, Reduced, Numbers
    <2> QED BY <2>1, Numbers, SMT DEF x, Position, Ring!RingTypeOK
  <1>3. /\ Position(i) = IF head + i - 1 < WIDTH THEN head + i - 1 ELSE head + i - 1 - WIDTH
        /\ Position(i) \in 0 .. WIDTH - 1
    BY <1>1, <1>2, Numbers, SMT DEF Ring!RingTypeOK
  <1>4. Ring!Ahead(Position(i)) = i - 1
    BY <1>3, Numbers, SMT DEF Ring!Ahead, Ring!RingTypeOK
  <1> QED BY <1>3, <1>4

LEMMA PositionClaimed ==
    ASSUME Ring!RingTypeOK
    PROVE  /\ \A i \in 1 .. Ring!Ahead(tail) : Position(i) \in Ring!Claimed
                  /\ Ring!Ahead(Position(i)) = i - 1
           /\ \A p \in Ring!Claimed : Ring!Ahead(p) + 1 \in 1 .. Ring!Ahead(tail)
                  /\ Position(Ring!Ahead(p) + 1) = p
  <1>1. Ring!Ahead(tail) \in 0 .. WIDTH - 1
    BY LoadIs
  <1>2. ASSUME NEW i \in 1 .. Ring!Ahead(tail)
        PROVE  Position(i) \in Ring!Claimed /\ Ring!Ahead(Position(i)) = i - 1
    <2>1. i \in 1 .. WIDTH /\ i - 1 < Ring!Ahead(tail)
      BY <1>1, Numbers, SMT
    <2> QED BY <2>1, PositionIs DEF Ring!Claimed
  <1>3. ASSUME NEW p \in Ring!Claimed
        PROVE  Ring!Ahead(p) + 1 \in 1 .. Ring!Ahead(tail) /\ Position(Ring!Ahead(p) + 1) = p
    <2>1. p \in 0 .. WIDTH - 1 /\ Ring!Ahead(p) < Ring!Ahead(tail) /\ Ring!Ahead(p) \in Nat
      BY Numbers, SMT DEF Ring!Claimed, Ring!Ahead, Ring!RingTypeOK
    <2>2. Ring!Ahead(p) + 1 \in 1 .. Ring!Ahead(tail) /\ Ring!Ahead(p) + 1 \in 1 .. WIDTH
      BY <1>1, <2>1, Numbers, SMT
    <2>3. Position(Ring!Ahead(p) + 1) = IF head + (Ring!Ahead(p) + 1) - 1 < WIDTH
                                   THEN head + (Ring!Ahead(p) + 1) - 1
                                   ELSE head + (Ring!Ahead(p) + 1) - 1 - WIDTH
      BY <2>2, PositionIs
    <2>4. Position(Ring!Ahead(p) + 1) = p
      BY <2>1, <2>3, Numbers, SMT DEF Ring!Ahead, Ring!RingTypeOK
    <2> QED BY <2>2, <2>4
  <1> QED BY <1>2, <1>3

LEMMA ContentsIs ==
    ASSUME Ring!RingInv
    PROVE  /\ Ring!Contents \in Seq(Queue) /\ Len(Ring!Contents) = Ring!Ahead(tail)
           /\ Ring!Contents = [i \in 1 .. Ring!Ahead(tail) |-> Ring!At[Position(i)]]
  <1>1. Ring!Contents = [i \in 1 .. Ring!Ahead(tail) |-> Ring!At[Position(i)]]
    BY LoadIs DEF Ring!Contents, Position, Ring!RingInv
  <1>2. \A i \in 1 .. Ring!Ahead(tail) : Ring!At[Position(i)] \in Queue
    BY PositionClaimed, AtType DEF Ring!RingInv
  <1>3. Ring!Ahead(tail) \in Nat
    BY LoadIs DEF Ring!RingInv
  <1> QED BY <1>1, <1>2, <1>3

(* The three ways in which a step changes the contents.                    *)
LEMMA ContentsStay ==
    ASSUME Ring!RingInv, head' = head, tail' = tail,
           \A p \in Ring!Claimed : Ring!At'[p] = Ring!At[p]
    PROVE  Ring!Contents' = Ring!Contents
  <1>1. Ring!Contents' = [i \in 1 .. Ring!Ahead(tail) |-> Ring!At'[Position(i)]]
    BY LoadIs DEF Ring!Contents, Position, Ring!RingInv
  <1>2. \A i \in 1 .. Ring!Ahead(tail) : Ring!At'[Position(i)] = Ring!At[Position(i)]
    BY PositionClaimed DEF Ring!RingInv
  <1> QED BY <1>1, <1>2, ContentsIs

LEMMA ContentsGrow ==
    ASSUME Ring!RingInv, head' = head, tail' = Ring!Inc(tail), NEW q \in Queue,
           Ring!At'[tail] = q, \A p \in Ring!Claimed : Ring!At'[p] = Ring!At[p]
    PROVE  Ring!Contents' = Append(Ring!Contents, q)
  <1> DEFINE n == Ring!Ahead(tail)
  <1>1. n \in 0 .. WIDTH - 1 /\ n + 1 < WIDTH
    BY LoadIs, Numbers, SMT DEF Ring!RingInv
  <1>2. (tail' - head') % WIDTH = n + 1
    <2>1. tail' \in 0 .. WIDTH - 1 /\ Ring!Ahead(tail)' = n + 1
      BY Grows DEF Ring!RingInv
    <2>2. tail' - head' \in Int /\ - WIDTH <= tail' - head' /\ tail' - head' < WIDTH
      BY <2>1, Numbers, SMT DEF Ring!RingInv, Ring!RingTypeOK
    <2>3. (tail' - head') % WIDTH = IF tail' - head' < 0 THEN tail' - head' + WIDTH ELSE tail' - head'
      <3> DEFINE x == tail' - head'
      <3> HIDE DEF x
      <3>1. x % WIDTH = IF x < 0 THEN x + WIDTH ELSE IF x < WIDTH THEN x ELSE x - WIDTH
        <4>1. x \in Int /\ - WIDTH <= x /\ x < 2 * WIDTH
          BY <2>2, Numbers, SMT DEF x
        <4> QED BY <4>1, Reduced, Numbers
      <3> QED BY <2>1, <2>2, <3>1, Numbers, SMT DEF x, Ring!RingInv, Ring!RingTypeOK
    <2> QED BY <2>1, <2>3, Numbers, SMT DEF Ring!Ahead, Ring!RingInv, Ring!RingTypeOK
  <1>3. Ring!Contents' = [i \in 1 .. n + 1 |-> Ring!At'[Position(i)]]
    BY <1>2 DEF Ring!Contents, Position
  <1>4. \A i \in 1 .. n : Ring!At'[Position(i)] = Ring!At[Position(i)]
    BY PositionClaimed DEF Ring!RingInv
  <1>5. Position(n + 1) = tail
    <2>1. n + 1 \in 1 .. WIDTH
      BY <1>1, Numbers, SMT
    <2>2. Position(n + 1) \in 0 .. WIDTH - 1 /\ Ring!Ahead(Position(n + 1)) = n
      <3>1. \A i \in 1 .. WIDTH : Position(i) \in 0 .. WIDTH - 1 /\ Ring!Ahead(Position(i)) = i - 1
        BY PositionIs DEF Ring!RingInv
      <3>2. Position(n + 1) \in 0 .. WIDTH - 1 /\ Ring!Ahead(Position(n + 1)) = (n + 1) - 1
        BY <2>1, <3>1
      <3> QED BY <1>1, <3>2, SMT
    <2>3. \A p \in 0 .. WIDTH - 1 : Ring!Ahead(p) = n => p = tail
      BY Numbers, SMT DEF Ring!Ahead, Ring!RingInv, Ring!RingTypeOK
    <2> QED BY <2>2, <2>3
  <1> HIDE DEF n
  <1>6. Ring!Contents = [i \in 1 .. n |-> Ring!At[Position(i)]] /\ Ring!Contents \in Seq(Queue)
            /\ Len(Ring!Contents) = n
    BY ContentsIs DEF n
  <1>7. Append(Ring!Contents, q) = [i \in 1 .. n + 1 |-> IF i = n + 1 THEN q ELSE Ring!Contents[i]]
    BY <1>1, <1>6
  <1>8. \A i \in 1 .. n + 1 : Ring!At'[Position(i)] = IF i = n + 1 THEN q ELSE Ring!Contents[i]
    <2> SUFFICES ASSUME NEW i \in 1 .. n + 1
                 PROVE  Ring!At'[Position(i)] = IF i = n + 1 THEN q ELSE Ring!Contents[i]
      OBVIOUS
    <2>1. CASE i = n + 1
      BY <1>5, <2>1
    <2>2. CASE i # n + 1
      <3>1. i \in 1 .. n
        BY <1>1, <2>2, SMT
      <3> QED BY <1>4, <1>6, <2>2, <3>1
    <2> QED BY <2>1, <2>2
  <1> QED BY <1>3, <1>7, <1>8

LEMMA ContentsShrink ==
    ASSUME Ring!RingInv, head' = Ring!Inc(head), tail' = tail, tail # head,
           \A p \in Ring!Claimed : Ring!At'[p] = Ring!At[p]
    PROVE  /\ Ring!Contents # <<>> /\ Head(Ring!Contents) = Ring!At[head]
           /\ Ring!Contents' = Tail(Ring!Contents)
  <1> DEFINE n == Ring!Ahead(tail)
  <1>1. n \in 1 .. WIDTH - 1
    <2>1. n \in 0 .. WIDTH - 1 /\ n # 0
      BY LoadIs, Numbers, SMT DEF Ring!Ahead, Ring!RingInv, Ring!RingTypeOK
    <2> QED BY <2>1, SMT
  <1>2. head' = IF head = WIDTH - 1 THEN 0 ELSE head + 1
    BY IncIs DEF Ring!RingInv, Ring!RingTypeOK
  <1>3. (tail' - head') % WIDTH = n - 1
    <2>1. head' \in 0 .. WIDTH - 1 /\ Ring!Ahead(tail)' = n - 1
      BY Shrinks DEF Ring!RingInv
    <2>2. tail' - head' \in Int /\ - WIDTH <= tail' - head' /\ tail' - head' < WIDTH
      BY <2>1, Numbers, SMT DEF Ring!RingInv, Ring!RingTypeOK
    <2>3. (tail' - head') % WIDTH = IF tail' - head' < 0 THEN tail' - head' + WIDTH ELSE tail' - head'
      <3> DEFINE x == tail' - head'
      <3> HIDE DEF x
      <3>1. x % WIDTH = IF x < 0 THEN x + WIDTH ELSE IF x < WIDTH THEN x ELSE x - WIDTH
        <4>1. x \in Int /\ - WIDTH <= x /\ x < 2 * WIDTH
          BY <2>2, Numbers, SMT DEF x
        <4> QED BY <4>1, Reduced, Numbers
      <3> QED BY <2>1, <2>2, <3>1, Numbers, SMT DEF x, Ring!RingInv, Ring!RingTypeOK
    <2> QED BY <2>1, <2>3, Numbers, SMT DEF Ring!Ahead, Ring!RingInv, Ring!RingTypeOK
  <1>4. Ring!Contents' = [i \in 1 .. n - 1 |-> Ring!At'[Position(i)']]
    BY <1>3 DEF Ring!Contents, Position
  <1>5. \A i \in 1 .. n - 1 : Position(i)' = Position(i + 1)
    <2> SUFFICES ASSUME NEW i \in 1 .. n - 1 PROVE Position(i)' = Position(i + 1)
      OBVIOUS
    <2>1. i + 1 \in 1 .. WIDTH /\ head + (i + 1) - 1 = head + i
      BY <1>1, Numbers, SMT DEF Ring!RingInv, Ring!RingTypeOK
    <2>2. Position(i + 1) = IF head + i < WIDTH THEN head + i ELSE head + i - WIDTH
      <3>1. \A k \in 1 .. WIDTH :
              Position(k) = IF head + k - 1 < WIDTH THEN head + k - 1 ELSE head + k - 1 - WIDTH
        BY PositionIs DEF Ring!RingInv
      <3>2. Position(i + 1) = IF head + (i + 1) - 1 < WIDTH THEN head + (i + 1) - 1
                              ELSE head + (i + 1) - 1 - WIDTH
        BY <2>1, <3>1
      <3> QED BY <2>1, <3>2
    <2>3. Position(i)' = IF head' + i - 1 < WIDTH THEN head' + i - 1 ELSE head' + i - 1 - WIDTH
      <3> DEFINE x == head' + i - 1
      <3>1. x \in Int /\ - WIDTH <= x /\ x < 2 * WIDTH /\ 0 <= x
        BY <1>1, <1>2, Numbers, SMT DEF Ring!RingInv, Ring!RingTypeOK
      <3> HIDE DEF x
      <3>2. x % WIDTH = IF x < 0 THEN x + WIDTH ELSE IF x < WIDTH THEN x ELSE x - WIDTH
        BY <3>1, Reduced, Numbers
      <3>3. Position(i)' = x % WIDTH
        BY DEF x, Position
      <3>4. Position(i)' = IF x < WIDTH THEN x ELSE x - WIDTH
        BY <3>1, <3>2, <3>3, Numbers, SMT
      <3> QED BY <1>1, <1>2, <3>4, Numbers, SMT DEF x, Ring!RingInv, Ring!RingTypeOK
    <2> QED BY <1>1, <1>2, <2>2, <2>3, Numbers, SMT DEF Ring!RingInv, Ring!RingTypeOK
  <1> HIDE DEF n
  <1>6. Ring!Contents = [i \in 1 .. n |-> Ring!At[Position(i)]] /\ Ring!Contents \in Seq(Queue)
            /\ Len(Ring!Contents) = n
    BY ContentsIs DEF n
  <1>7. Tail(Ring!Contents) = [i \in 1 .. n - 1 |-> Ring!Contents[i + 1]]
    BY <1>1, <1>6
  <1>8. \A i \in 1 .. n - 1 : Ring!At'[Position(i)'] = Ring!Contents[i + 1]
    <2> SUFFICES ASSUME NEW i \in 1 .. n - 1 PROVE Ring!At'[Position(i)'] = Ring!Contents[i + 1]
      OBVIOUS
    <2>1. i + 1 \in 1 .. n
      BY <1>1, SMT
    <2>2. Position(i + 1) \in Ring!Claimed
      BY <2>1, PositionClaimed DEF n, Ring!RingInv
    <2>3. Ring!At'[Position(i)'] = Ring!At[Position(i + 1)]
      BY <1>5, <2>2
    <2> QED BY <1>6, <2>1, <2>3
  <1>9. Head(Ring!Contents) = Ring!At[head] /\ Ring!Contents # <<>>
    <2>1. 1 \in 1 .. n /\ 1 \in 1 .. WIDTH
      BY <1>1, Numbers, SMT
    <2>2. Position(1) = head
      <3>1. Position(1) = IF head + 1 - 1 < WIDTH THEN head + 1 - 1 ELSE head + 1 - 1 - WIDTH
        BY <2>1, PositionIs DEF Ring!RingInv
      <3> QED BY <3>1, Numbers, SMT DEF Ring!RingInv, Ring!RingTypeOK
    <2>3. Ring!Contents[1] = Ring!At[head]
      BY <1>6, <2>1, <2>2
    <2>4. Ring!Contents # <<>>
      BY <1>1, <1>6, SMT
    <2> QED BY <1>6, <2>3, <2>4
  <1> QED BY <1>4, <1>7, <1>8, <1>9

(* There is always a free slot for a queue that is not in the ring, since  *)
(* there are fewer queues than slots.                                      *)
LEMMA RoomForOne ==
    ASSUME Ring!RingInv, NEW q \in Queue, \A p \in Ring!Claimed : Ring!At[p] # q
    PROVE  Ring!Ahead(tail) + 1 < MAX_GLOBAL_MQ
  <1> DEFINE n == Ring!Ahead(tail)
             f == [i \in 1 .. n + 1 |-> IF i = n + 1 THEN q ELSE Ring!At[Position(i)]]
  <1>1. n \in Nat
    BY LoadIs DEF Ring!RingInv
  <1>2. \A i \in 1 .. n : Ring!At[Position(i)] \in Queue /\ Ring!At[Position(i)] # q
    BY PositionClaimed, AtType DEF Ring!RingInv
  <1>3. \A i, j \in 1 .. n : Ring!At[Position(i)] = Ring!At[Position(j)] => i = j
    <2> SUFFICES ASSUME NEW i \in 1 .. n, NEW j \in 1 .. n, Ring!At[Position(i)] = Ring!At[Position(j)]
                 PROVE  i = j
      OBVIOUS
    <2>1. /\ Position(i) \in Ring!Claimed /\ Ring!Ahead(Position(i)) = i - 1
          /\ Position(j) \in Ring!Claimed /\ Ring!Ahead(Position(j)) = j - 1
      BY PositionClaimed DEF Ring!RingInv
    <2>2. Position(i) = Position(j)
      BY <2>1 DEF Ring!RingInv, Ring!OnePlace
    <2> QED BY <1>1, <2>1, <2>2, SMT
  <1> HIDE DEF n
  <1>4. f \in [1 .. n + 1 -> Queue]
    <2>1. \A i \in 1 .. n + 1 : i # n + 1 => i \in 1 .. n
      BY <1>1, SMT
    <2> QED BY <1>2, <2>1
  <1>5. \A i, j \in 1 .. n + 1 : f[i] = f[j] => i = j
    <2>1. \A i \in 1 .. n + 1 : i # n + 1 => i \in 1 .. n
      BY <1>1, SMT
    <2> QED BY <1>2, <1>3, <2>1
  <1>6. f \in Injection(1 .. n + 1, Queue)
    BY <1>4, <1>5 DEF Injection, IsInjective
  <1>7. IsFiniteSet(1 .. n + 1) /\ Cardinality(1 .. n + 1) = n + 1
    <2>1. n + 1 \in Int /\ 1 \in Int
      BY <1>1
    <2>2. IsFiniteSet(1 .. n + 1) /\ Cardinality(1 .. n + 1) = IF 1 > n + 1 THEN 0 ELSE (n + 1) - 1 + 1
      BY <2>1, FS_Interval
    <2> QED BY <1>1, <2>2, SMT
  <1>8. n + 1 <= Cardinality(Queue)
    BY <1>6, <1>7, FS_Injection, Numbers
  <1> QED BY <1>1, <1>8, Numbers, SMT DEF n

-----------------------------------------------------------------------------
(* The steps.                                                              *)

(* Nothing that others see changes when a worker looks around in order to  *)
(* pop.                                                                    *)
LEMMA Looks ==
    ASSUME Ring!RingInv, NEW t \in Worker, ringPc[t] \in {"run"} \cup Ring!Popping,
           NEW c \in {"run"} \cup Ring!Popping, NEW p \in 0 .. WIDTH - 1, NEW a \in Queue \cup {None},
           ringPc' = [ringPc EXCEPT ![t] = c], pos' = [pos EXCEPT ![t] = p], arg' = [arg EXCEPT ![t] = a],
           UNCHANGED <<Ring!ring, idle, has>>, Ring!Pops(t)'
    PROVE  Ring!RingInv' /\ UNCHANGED <<Ring!Contents, Ring!Hands, idle>>
  <1> USE DEF Ring!ring
  <1>1. Ring!RingTypeOK'
    BY DEF Ring!RingInv, Ring!RingTypeOK, Ring!Popping
  <1>2. Ring!Claimed' = Ring!Claimed /\ Ring!Ahead(tail)' = Ring!Ahead(tail)
    BY DEF Ring!Claimed, Ring!Ahead
  <1>3. ASSUME NEW u \in Worker
        PROVE  /\ Ring!Pushing(u)' <=> Ring!Pushing(u)
               /\ ringPc'[u] = "clear" <=> ringPc[u] = "clear"
               /\ u # t => pos'[u] = pos[u] /\ arg'[u] = arg[u] /\ ringPc'[u] = ringPc[u]
               /\ Ring!Pushing(u) \/ ringPc[u] = "clear" => u # t
    BY DEF Ring!RingInv, Ring!RingTypeOK, Ring!Popping, Ring!Pushing
  <1>4. \A u \in Worker : \A r \in 0 .. WIDTH - 1 : Ring!Writes(u, r)' <=> Ring!Writes(u, r)
    BY <1>3 DEF Ring!Writes, Ring!Pushing
  <1>5. \A r \in Ring!Claimed : Ring!At'[r] = Ring!At[r]
    <2> SUFFICES ASSUME NEW r \in Ring!Claimed PROVE Ring!At'[r] = Ring!At[r]
      OBVIOUS
    <2>1. r \in 0 .. WIDTH - 1
      BY DEF Ring!Claimed
    <2>2. \A u \in Worker : Ring!Writes(u, r) => arg'[u] = arg[u]
      BY <1>3 DEF Ring!Writes, Ring!Pushing
    <2> QED BY <1>4, <2>1, <2>2, OneWriter, AtStays
  <1>6. Ring!Contents' = Ring!Contents
    BY <1>5, ContentsStay
  <1>7. Ring!Hands' = Ring!Hands
    BY <1>3 DEF Ring!Hands
  <1>8. Ring!Flags'
    <2> SUFFICES ASSUME NEW s \in Ring!Slot, flag[s]
                 PROVE  \/ \E r \in Ring!Claimed : Ring!GP(r) = s
                        \/ \E u \in Worker : ringPc'[u] = "clear" /\ Ring!GP(pos'[u]) = s
      BY <1>2 DEF Ring!Flags, Ring!GP
    <2> QED BY <1>3 DEF Ring!RingInv, Ring!Flags
  <1>9. Ring!Written'
    BY <1>2, <1>4 DEF Ring!RingInv, Ring!Written, Ring!Claimed, Ring!GP
  <1>10. Ring!OnePlace'
    BY <1>2, <1>5, <1>7 DEF Ring!RingInv, Ring!OnePlace
  <1>11. ASSUME NEW u \in Worker PROVE Ring!Pushes(u)'
    BY <1>2, <1>3 DEF Ring!RingInv, Ring!Pushes, Ring!GP, Ring!Pushing
  <1>12. ASSUME NEW u \in Worker PROVE Ring!Pops(u)'
    <2>1. CASE u = t BY <2>1
    <2>2. CASE u # t
      <3>1. Ring!Pops(u)
        BY DEF Ring!RingInv
      <3>2. \A v \in Worker : Ring!Pushing(v)' => Ring!Pushing(v) /\ pos'[v] = pos[v]
        BY <1>3
      <3> QED BY <1>3, <2>2, <3>1, <3>2 DEF Ring!Pops, Ring!GP
    <2> QED BY <2>1, <2>2
  <1> QED BY <1>1, <1>2, <1>6, <1>7, <1>8, <1>9, <1>10, <1>11, <1>12 DEF Ring!RingInv

LEMMA StepPopHead ==
    ASSUME Ring!RingInv, NEW t \in Worker, Ring!PopHead(t)
    PROVE  Ring!RingInv' /\ UNCHANGED <<Ring!Contents, Ring!Hands, idle>>
  <1>1. /\ ringPc' = [ringPc EXCEPT ![t] = "tail"] /\ pos' = [pos EXCEPT ![t] = head]
        /\ arg' = [arg EXCEPT ![t] = arg[t]] /\ UNCHANGED <<Ring!ring, idle, has>>
        /\ ringPc[t] = "run" /\ has[t] = None
        /\ head \in 0 .. WIDTH - 1 /\ arg[t] \in Queue \cup {None}
    BY DEF Ring!PopHead, Ring!RingInv, Ring!RingTypeOK
  <1>2. Ring!Pops(t)'
    BY <1>1 DEF Ring!Pops, Ring!RingInv, Ring!RingTypeOK, Ring!Popping
  <1> QED BY <1>1, <1>2, Looks DEF Ring!Popping

LEMMA StepPopTail ==
    ASSUME Ring!RingInv, NEW t \in Worker, Ring!PopTail(t)
    PROVE  Ring!RingInv' /\ UNCHANGED <<Ring!Contents, Ring!Hands, idle>>
  <1> DEFINE c == IF Ring!GP(pos[t]) = Ring!GP(tail) THEN "run" ELSE "flagged"
  <1>1. /\ ringPc' = [ringPc EXCEPT ![t] = c] /\ pos' = [pos EXCEPT ![t] = pos[t]]
        /\ arg' = [arg EXCEPT ![t] = arg[t]] /\ UNCHANGED <<Ring!ring, idle, has>>
        /\ ringPc[t] = "tail"
        /\ pos[t] \in 0 .. WIDTH - 1 /\ arg[t] \in Queue \cup {None}
    BY DEF Ring!PopTail, Ring!RingInv, Ring!RingTypeOK
  <1>2. c \in {"run", "flagged"} /\ (c = "flagged" => pos[t] # tail)
    OBVIOUS
  <1> HIDE DEF c
  <1>3. Ring!Pops(t)'
    BY <1>1, <1>2 DEF Ring!Pops, Ring!RingInv, Ring!RingTypeOK, Ring!Popping, Ring!ring
  <1> QED BY <1>1, <1>2, <1>3, Looks DEF Ring!Popping

LEMMA StepPopFlag ==
    ASSUME Ring!RingInv, NEW t \in Worker, Ring!PopFlag(t)
    PROVE  Ring!RingInv' /\ UNCHANGED <<Ring!Contents, Ring!Hands, idle>>
  <1> DEFINE c == IF flag[Ring!GP(pos[t])] THEN "read" ELSE "run"
  <1>1. /\ ringPc' = [ringPc EXCEPT ![t] = c] /\ pos' = [pos EXCEPT ![t] = pos[t]]
        /\ arg' = [arg EXCEPT ![t] = arg[t]] /\ UNCHANGED <<Ring!ring, idle, has>>
        /\ ringPc[t] = "flagged"
        /\ pos[t] \in 0 .. WIDTH - 1 /\ arg[t] \in Queue \cup {None}
    BY DEF Ring!PopFlag, Ring!RingInv, Ring!RingTypeOK
  <1>2. c \in {"run", "read"} /\ (c = "read" => flag[Ring!GP(pos[t])])
    OBVIOUS
  <1> HIDE DEF c
  <1>3. ASSUME c = "read", NEW u \in Worker, Ring!Pushing(u)' PROVE pos[u] # pos[t] /\ pos'[u] = pos[u]
    <2>1. Ring!Pushing(u) /\ pos'[u] = pos[u]
      BY <1>1, <1>2, <1>3 DEF Ring!Pushing, Ring!RingInv, Ring!RingTypeOK
    <2>2. ~flag[Ring!GP(pos[u])]
      BY <2>1 DEF Ring!RingInv, Ring!Pushes
    <2> QED BY <1>2, <1>3, <2>1, <2>2
  <1>4. Ring!Pops(t)'
    BY <1>1, <1>2, <1>3 DEF Ring!Pops, Ring!RingInv, Ring!RingTypeOK, Ring!Popping, Ring!ring
  <1> QED BY <1>1, <1>2, <1>4, Looks DEF Ring!Popping

LEMMA StepPopRead ==
    ASSUME Ring!RingInv, NEW t \in Worker, Ring!PopRead(t)
    PROVE  Ring!RingInv' /\ UNCHANGED <<Ring!Contents, Ring!Hands, idle>>
  <1> DEFINE a == slots[Ring!GP(pos[t])]
  <1>1. /\ ringPc' = [ringPc EXCEPT ![t] = "cas"] /\ pos' = [pos EXCEPT ![t] = pos[t]]
        /\ arg' = [arg EXCEPT ![t] = a] /\ UNCHANGED <<Ring!ring, idle, has>>
        /\ ringPc[t] = "read" /\ pos[t] \in 0 .. WIDTH - 1
    BY DEF Ring!PopRead, Ring!RingInv, Ring!RingTypeOK
  <1>2. a \in Queue \cup {None}
    BY <1>1, SlotType DEF Ring!RingInv, Ring!RingTypeOK
  <1>3. Ring!Pops(t)'
    <2>1. pos'[t] = pos[t] /\ ringPc'[t] = "cas" /\ arg'[t] = a /\ has'[t] = None /\ head' = head
              /\ tail' = tail
      BY <1>1 DEF Ring!RingInv, Ring!RingTypeOK, Ring!Pops, Ring!ring, Ring!Popping
    <2>2. \A u \in Worker : Ring!Pushing(u)' => Ring!Pushing(u) /\ pos'[u] = pos[u]
      BY <1>1 DEF Ring!RingInv, Ring!RingTypeOK, Ring!Pushing
    <2>3. slots' = slots
      BY <1>1 DEF Ring!ring
    <2>4. pos[t] = head => tail # head /\ \A u \in Worker : Ring!Pushing(u) => pos[u] # head
      BY <1>1 DEF Ring!RingInv, Ring!Pops
    <2> QED BY <2>1, <2>2, <2>3, <2>4 DEF Ring!Pops, Ring!GP
  <1> QED BY <1>1, <1>2, <1>3, Looks DEF Ring!Popping

(* A position is claimed for a queue that is nowhere else any more.        *)
LEMMA Claims ==
    ASSUME Ring!RingInv, Ring!Pace, NEW t \in Worker, NEW q \in Queue, Ring!PushClaim(t, q),
           \A p \in Ring!Claimed : Ring!At[p] # q,
           has' \in [Worker -> Queue \cup {None}],
           \A u \in Worker : has'[u] \in {has[u], None},
           \A u \in Worker : Ring!Hands'[u] # q /\ Ring!Hands'[u] \in {Ring!Hands[u], None},
           idle' \subseteq idle, q \notin idle'
    PROVE  Ring!RingInv' /\ Ring!Contents' = Append(Ring!Contents, q)
  <1>1. /\ ringPc[t] = "run" /\ ringPc' = [ringPc EXCEPT ![t] = "write"] /\ pos' = [pos EXCEPT ![t] = tail]
        /\ arg' = [arg EXCEPT ![t] = q] /\ tail' = Ring!Inc(tail)
        /\ head' = head /\ slots' = slots /\ flag' = flag
    BY DEF Ring!PushClaim
  <1>2. Ring!Ahead(tail) + 1 < MAX_GLOBAL_MQ
    BY RoomForOne
  <1>3. /\ tail' \in 0 .. WIDTH - 1 /\ tail' # head
        /\ tail \notin Ring!Claimed /\ Ring!Claimed' = Ring!Claimed \cup {tail}
        /\ Ring!Ahead(tail)' = Ring!Ahead(tail) + 1
        /\ \A p \in Ring!Claimed : Ring!GP(p) # Ring!GP(tail)
    BY <1>1, Grows DEF Ring!RingInv
  <1>4. Ring!RingTypeOK'
    BY <1>1, <1>3 DEF Ring!RingInv, Ring!RingTypeOK
  <1>5. /\ ringPc'[t] = "write" /\ pos'[t] = tail /\ arg'[t] = q
        /\ \A u \in Worker : u # t => ringPc'[u] = ringPc[u] /\ pos'[u] = pos[u] /\ arg'[u] = arg[u]
        /\ ~Ring!Pushing(t)
    BY <1>1 DEF Ring!RingInv, Ring!RingTypeOK, Ring!Pushing
  <1>6. tail \in 0 .. WIDTH - 1 /\ \A u \in Worker : Ring!Pushing(u) => pos[u] \in Ring!Claimed
            /\ pos[u] # tail
    BY <1>3 DEF Ring!RingInv, Ring!RingTypeOK, Ring!Pushes
  <1>7. Ring!At'[tail] = q
    <2> PICK r \in 0 .. WIDTH - 1 : r = tail
      BY <1>6
    <2>1. \A u \in Worker : Ring!Writes(u, r)' => u = t
      BY <1>5, <1>6 DEF Ring!Writes, Ring!Pushing
    <2>2. Ring!Writes(t, r)'
      BY <1>5 DEF Ring!Writes
    <2>3. Ring!At'[r] = arg'[t]
      BY <2>1, <2>2, AtWriterNext
    <2> QED BY <1>5, <2>3
  <1>8. ASSUME NEW p \in Ring!Claimed
        PROVE  /\ p \in 0 .. WIDTH - 1 /\ p # tail
               /\ \A u \in Worker : Ring!Writes(u, p)' <=> Ring!Writes(u, p)
    BY <1>3, <1>5 DEF Ring!Claimed, Ring!Writes, Ring!Pushing
  <1>9. \A p \in Ring!Claimed : Ring!At'[p] = Ring!At[p]
    <2> SUFFICES ASSUME NEW p \in Ring!Claimed PROVE Ring!At'[p] = Ring!At[p]
      OBVIOUS
    <2>1. \A u \in Worker : Ring!Writes(u, p) => arg'[u] = arg[u]
      BY <1>5 DEF Ring!Writes, Ring!Pushing
    <2> QED BY <1>1, <1>8, <2>1, OneWriter, AtStays
  <1>10. Ring!Contents' = Append(Ring!Contents, q)
    BY <1>1, <1>7, <1>9, ContentsGrow
  <1>11. ~flag[Ring!GP(tail)]
    <2>1. Ring!GP(tail) \in Ring!Slot
      BY <1>6, SlotType
    <2>2. tail' # tail
      BY <1>6, IncIs, <1>1, Numbers, SMT
    <2>3. \A u \in Worker : ~(ringPc[u] = "clear" /\ Ring!GP(pos[u]) = Ring!GP(tail))
      BY <2>2 DEF Ring!Pace
    <2> QED BY <1>3, <2>1, <2>3 DEF Ring!RingInv, Ring!Flags
  <1>12. Ring!Flags'
    <2> SUFFICES ASSUME NEW s \in Ring!Slot, flag[s]
                 PROVE  \/ \E r \in Ring!Claimed' : Ring!GP(r) = s
                        \/ \E u \in Worker : ringPc'[u] = "clear" /\ Ring!GP(pos'[u]) = s
      BY <1>1 DEF Ring!Flags, Ring!GP
    <2>1. \A u \in Worker : ringPc[u] = "clear" => u # t
      BY <1>1
    <2> QED BY <1>3, <1>5, <2>1 DEF Ring!RingInv, Ring!Flags
  <1>13. Ring!Written'
    <2> SUFFICES ASSUME NEW p \in Ring!Claimed', \A u \in Worker : ~Ring!Writes(u, p)'
                 PROVE  slots[Ring!GP(p)] \in Queue
      BY <1>1 DEF Ring!Written, Ring!GP
    <2>1. p # tail
      BY <1>5 DEF Ring!Writes
    <2>2. p \in Ring!Claimed
      BY <1>3, <2>1
    <2> QED BY <1>8, <2>2 DEF Ring!RingInv, Ring!Written
  <1>14. Ring!OnePlace'
    <2>1. \A p \in Ring!Claimed' : Ring!At'[p] = (IF p = tail THEN q ELSE Ring!At[p])
      BY <1>3, <1>7, <1>9
    <2>2. \A p \in Ring!Claimed : Ring!At[p] \in Queue
      BY AtType
    <2>3. \A p, r \in Ring!Claimed' : Ring!At'[p] = Ring!At'[r] => p = r
      BY <1>3, <2>1 DEF Ring!RingInv, Ring!OnePlace
    <2>4. \A p \in Ring!Claimed' : Ring!At'[p] \notin idle'
              /\ \A u \in Worker : Ring!Hands'[u] # Ring!At'[p]
      <3> SUFFICES ASSUME NEW p \in Ring!Claimed'
                   PROVE  Ring!At'[p] \notin idle' /\ \A u \in Worker : Ring!Hands'[u] # Ring!At'[p]
        OBVIOUS
      <3>1. CASE p = tail
        BY <1>7, <3>1
      <3>2. CASE p # tail
        <4>1. p \in Ring!Claimed /\ Ring!At'[p] = Ring!At[p] /\ Ring!At[p] \in Queue /\ None \notin Queue
          BY <1>3, <2>1, <2>2, <3>2, Numbers
        <4> QED BY <4>1 DEF Ring!RingInv, Ring!OnePlace
      <3> QED BY <3>1, <3>2
    <2>5. \A u \in Worker : Ring!Hands'[u] \notin idle'
      BY Numbers DEF Ring!RingInv, Ring!OnePlace, Ring!RingTypeOK
    <2>6. \A u, v \in Worker : Ring!Hands'[u] = Ring!Hands'[v] /\ Ring!Hands'[u] # None => u = v
      BY DEF Ring!RingInv, Ring!OnePlace
    <2> QED BY <2>3, <2>4, <2>5, <2>6 DEF Ring!OnePlace
  <1>15. ASSUME NEW u \in Worker PROVE Ring!Pushes(u)'
    <2>1. CASE u = t
      <3>1. pos'[t] \in Ring!Claimed' /\ ~flag'[Ring!GP(pos[t])'] /\ arg'[t] \in Queue
                /\ ringPc'[t] = "write"
        BY <1>1, <1>3, <1>5, <1>11 DEF Ring!GP
      <3>2. \A v \in Worker : Ring!Pushing(v)' /\ pos'[v] = pos'[t] => v = t
        BY <1>5, <1>6 DEF Ring!Pushing
      <3> QED BY <2>1, <3>1, <3>2 DEF Ring!Pushes
    <2>2. CASE u # t
      <3> SUFFICES ASSUME Ring!Pushing(u)' PROVE Ring!Pushes(u)'
        BY DEF Ring!Pushes
      <3>1. Ring!Pushing(u) /\ pos'[u] = pos[u] /\ arg'[u] = arg[u] /\ ringPc'[u] = ringPc[u]
        BY <1>5, <2>2 DEF Ring!Pushing
      <3>2. pos[u] # tail /\ Ring!Pushes(u)
        BY <1>6, <3>1 DEF Ring!RingInv
      <3>3. \A v \in Worker : Ring!Pushing(v)' /\ pos'[v] = pos'[u] => v = u
        BY <1>5, <3>1, <3>2 DEF Ring!Pushing, Ring!Pushes
      <3>4. pos'[u] \in Ring!Claimed' /\ ~flag'[Ring!GP(pos'[u])] /\ arg'[u] \in Queue
            /\ (ringPc'[u] = "publish" => slots'[Ring!GP(pos'[u])] = arg'[u])
        BY <1>1, <1>3, <3>1, <3>2 DEF Ring!Pushes
      <3> QED BY <3>3, <3>4 DEF Ring!Pushes, Ring!GP
    <2> QED BY <2>1, <2>2
  <1>16. ASSUME NEW u \in Worker PROVE Ring!Pops(u)'
    <2>1. CASE u = t
      BY <1>5, <2>1 DEF Ring!Pops, Ring!Popping
    <2>2. CASE u # t
      <3>1. ringPc'[u] = ringPc[u] /\ pos'[u] = pos[u] /\ arg'[u] = arg[u] /\ Ring!Pops(u)
        BY <1>5, <2>2 DEF Ring!RingInv
      <3>2. ringPc[u] \in Ring!Popping \cup {"clear"} => has'[u] = None
        BY <3>1 DEF Ring!Pops
      <3>3. pos[u] = head /\ ringPc[u] \in {"flagged", "read", "cas"} => tail # head
        BY <3>1 DEF Ring!Pops
      <3>4. pos[u] = head /\ ringPc[u] \in {"read", "cas"} =>
              \A v \in Worker : Ring!Pushing(v)' => pos'[v] # head
        BY <1>5, <3>1, <3>3 DEF Ring!Pops, Ring!Pushing
      <3>5. Ring!GP(head)' = Ring!GP(head)
        BY <1>1 DEF Ring!GP
      <3> QED BY <1>1, <1>3, <3>1, <3>2, <3>4, <3>5 DEF Ring!Pops
    <2> QED BY <2>1, <2>2
  <1>17. Ring!Ahead(tail)' < MAX_GLOBAL_MQ
    BY <1>2, <1>3
  <1> QED BY <1>4, <1>10, <1>12, <1>13, <1>14, <1>15, <1>16, <1>17 DEF Ring!RingInv

LEMMA StepSchedule ==
    ASSUME Ring!RingInv, Ring!Pace, NEW t \in Worker, Ring!Schedule(t)
    PROVE  Ring!RingInv' /\ Ring!Fifo!Schedule(t)
  <1> PICK q \in idle : /\ has[t] # None /\ Ring!PushClaim(t, q)
                        /\ idle' = idle \ {q} /\ UNCHANGED has
    BY DEF Ring!Schedule
  <1>1. q \in Queue /\ ringPc[t] = "run"
    BY DEF Ring!RingInv, Ring!RingTypeOK, Ring!PushClaim
  <1>2. Ring!Hands' = Ring!Hands /\ Ring!Hands[t] = has[t]
    BY <1>1 DEF Ring!PushClaim, Ring!Hands, Ring!RingInv, Ring!RingTypeOK
  <1>3. \A u \in Worker : Ring!Hands[u] # q
    BY DEF Ring!RingInv, Ring!OnePlace
  <1>4. \A p \in Ring!Claimed : Ring!At[p] # q
    BY DEF Ring!RingInv, Ring!OnePlace
  <1>5. Ring!RingInv' /\ Ring!Contents' = Append(Ring!Contents, q)
    BY <1>1, <1>2, <1>3, <1>4, Claims DEF Ring!RingInv, Ring!RingTypeOK
  <1> QED BY <1>2, <1>5 DEF Ring!Fifo!Schedule

LEMMA StepPutBack ==
    ASSUME Ring!RingInv, Ring!Pace, NEW t \in Worker, Ring!PutBack(t)
    PROVE  Ring!RingInv' /\ Ring!Fifo!PutBack(t)
  <1> DEFINE q == has[t]
  <1>1. /\ q \in Queue /\ Ring!PushClaim(t, q) /\ ringPc[t] = "run"
        /\ has' = [has EXCEPT ![t] = None] /\ idle' = idle
    BY DEF Ring!PutBack, Ring!PushClaim, Ring!RingInv, Ring!RingTypeOK
  <1>2. Ring!Hands[t] = q /\ Ring!Hands' = [Ring!Hands EXCEPT ![t] = None]
    <2>1. ringPc' = [ringPc EXCEPT ![t] = "write"] /\ arg' = [arg EXCEPT ![t] = q]
      BY <1>1 DEF Ring!PushClaim
    <2> QED BY <1>1, <2>1 DEF Ring!Hands, Ring!RingInv, Ring!RingTypeOK
  <1>3. \A p \in Ring!Claimed : Ring!At[p] # q
    BY <1>1, <1>2 DEF Ring!RingInv, Ring!OnePlace
  <1>4. \A u \in Worker : Ring!Hands'[u] # q /\ Ring!Hands'[u] \in {Ring!Hands[u], None}
    <2>1. \A u \in Worker : Ring!Hands'[u] = IF u = t THEN None ELSE Ring!Hands[u]
      BY <1>2 DEF Ring!Hands
    <2> QED BY <1>1, <1>2, <2>1, Numbers DEF Ring!RingInv, Ring!OnePlace
  <1>5. q \notin idle'
    BY <1>1, <1>2 DEF Ring!RingInv, Ring!OnePlace
  <1>6. /\ has' \in [Worker -> Queue \cup {None}]
        /\ \A u \in Worker : has'[u] \in {has[u], None}
    BY <1>1 DEF Ring!RingInv, Ring!RingTypeOK
  <1> HIDE DEF q
  <1>7. Ring!RingInv' /\ Ring!Contents' = Append(Ring!Contents, q)
    BY <1>1, <1>3, <1>4, <1>5, <1>6, Claims
  <1> QED BY <1>1, <1>2, <1>7, Numbers DEF Ring!Fifo!PutBack

LEMMA StepLeaveOut ==
    ASSUME Ring!RingInv, NEW t \in Worker, Ring!LeaveOut(t)
    PROVE  Ring!RingInv' /\ Ring!Fifo!LeaveOut(t)
  <1>1. /\ ringPc[t] = "run" /\ has[t] # None
        /\ idle' = idle \cup {has[t]} /\ has' = [has EXCEPT ![t] = None]
        /\ head' = head /\ tail' = tail /\ slots' = slots /\ flag' = flag
        /\ ringPc' = ringPc /\ pos' = pos /\ arg' = arg
    BY DEF Ring!LeaveOut, Ring!ring, Ring!local
  <1>2. Ring!Hands[t] = has[t] /\ Ring!Hands' = [Ring!Hands EXCEPT ![t] = None] /\ has[t] \in Queue
    BY <1>1 DEF Ring!Hands, Ring!RingInv, Ring!RingTypeOK
  <1>3. Ring!At' = Ring!At /\ Ring!Claimed' = Ring!Claimed /\ Ring!Ahead(tail)' = Ring!Ahead(tail)
            /\ Ring!Contents' = Ring!Contents
    BY <1>1 DEF Ring!At, Ring!Claimed, Ring!Ahead, Ring!Contents, Ring!GP
  <1>4. Ring!RingTypeOK'
    BY <1>1, <1>2 DEF Ring!RingInv, Ring!RingTypeOK
  <1>5. Ring!Flags' /\ Ring!Written'
    BY <1>1, <1>3 DEF Ring!RingInv, Ring!Flags, Ring!Written, Ring!Writes, Ring!GP
  <1>6. Ring!OnePlace'
    <2>1. \A u \in Worker : Ring!Hands'[u] = IF u = t THEN None ELSE Ring!Hands[u]
      BY <1>2 DEF Ring!Hands
    <2>2. \A p \in Ring!Claimed : Ring!At[p] # None
      BY AtType, Numbers
    <2> QED BY <1>1, <1>2, <1>3, <2>1, <2>2, Numbers DEF Ring!RingInv, Ring!OnePlace, Ring!RingTypeOK
  <1>7. ASSUME NEW u \in Worker PROVE Ring!Pushes(u)' /\ Ring!Pops(u)'
    <2>1. Ring!Pushes(u) /\ Ring!Pops(u) /\ has'[u] \in {has[u], None}
      BY <1>1 DEF Ring!RingInv, Ring!RingTypeOK
    <2>2. Ring!Pushes(u)'
      BY <1>1, <1>3, <2>1 DEF Ring!Pushes, Ring!Pushing, Ring!GP
    <2>3. Ring!Pops(u)'
      BY <1>1, <2>1 DEF Ring!Pops, Ring!Pushing, Ring!GP
    <2> QED BY <2>2, <2>3
  <1>8. Ring!RingInv'
    BY <1>3, <1>4, <1>5, <1>6, <1>7 DEF Ring!RingInv
  <1> QED BY <1>1, <1>2, <1>3, <1>8 DEF Ring!Fifo!LeaveOut

LEMMA StepPushWrite ==
    ASSUME Ring!RingInv, NEW t \in Worker, Ring!PushWrite(t)
    PROVE  Ring!RingInv' /\ UNCHANGED <<Ring!Contents, Ring!Hands, idle>>
  <1> PICK r \in 0 .. WIDTH - 1 : r = pos[t]
    BY DEF Ring!RingInv, Ring!RingTypeOK
  <1>1. /\ ringPc[t] = "write" /\ ringPc' = [ringPc EXCEPT ![t] = "publish"]
        /\ slots' = [slots EXCEPT ![Ring!GP(r)] = arg[t]]
        /\ head' = head /\ tail' = tail /\ flag' = flag /\ idle' = idle /\ has' = has
        /\ pos' = pos /\ arg' = arg
    BY DEF Ring!PushWrite
  <1>2. /\ Ring!Claimed' = Ring!Claimed /\ Ring!Ahead(tail)' = Ring!Ahead(tail) /\ Ring!GP(r) \in Ring!Slot
        /\ r \in Ring!Claimed /\ arg[t] \in Queue /\ Ring!Writes(t, r)
    BY <1>1, SlotType DEF Ring!Claimed, Ring!Ahead, Ring!RingInv, Ring!Pushes, Ring!Pushing, Ring!Writes
  <1>3. Ring!RingTypeOK'
    BY <1>1, <1>2 DEF Ring!RingInv, Ring!RingTypeOK
  <1>4. /\ ringPc'[t] = "publish"
        /\ \A u \in Worker : u # t => ringPc'[u] = ringPc[u]
        /\ \A u \in Worker : Ring!Pushing(u)' <=> Ring!Pushing(u)
        /\ \A u \in Worker : ringPc'[u] = "clear" <=> ringPc[u] = "clear"
    BY <1>1 DEF Ring!RingInv, Ring!RingTypeOK, Ring!Pushing
  <1>5. \A u \in Worker : Ring!Pushing(u) /\ u # t => pos[u] # r
    BY <1>1 DEF Ring!RingInv, Ring!Pushes, Ring!Pushing
  <1>6. ASSUME NEW p \in Ring!Claimed, p # r
        PROVE  slots'[Ring!GP(p)] = slots[Ring!GP(p)] /\ p \in 0 .. WIDTH - 1
    <2>1. p \in 0 .. WIDTH - 1 /\ Ring!Ahead(p) < MAX_GLOBAL_MQ /\ Ring!Ahead(r) < MAX_GLOBAL_MQ
      <3>1. p \in 0 .. WIDTH - 1 /\ Ring!Ahead(p) < Ring!Ahead(tail) /\ Ring!Ahead(r) < Ring!Ahead(tail)
            /\ Ring!Ahead(p) \in Int /\ Ring!Ahead(r) \in Int /\ Ring!Ahead(tail) \in Int
        BY <1>2, Numbers, SMT DEF Ring!Claimed, Ring!Ahead, Ring!RingInv, Ring!RingTypeOK
      <3> QED BY <3>1, Numbers, SMT DEF Ring!RingInv
    <2>2. Ring!GP(p) # Ring!GP(r)
      BY <1>6, <2>1, SlotsApart DEF Ring!RingInv
    <2>3. Ring!GP(p) \in Ring!Slot
      BY <2>1, SlotType
    <2> QED BY <1>1, <2>1, <2>2, <2>3 DEF Ring!RingInv, Ring!RingTypeOK
  <1>7. slots'[Ring!GP(r)] = arg[t]
    BY <1>1, <1>2 DEF Ring!RingInv, Ring!RingTypeOK
  <1>8. \A p \in Ring!Claimed : Ring!At'[p] = Ring!At[p]
    <2> SUFFICES ASSUME NEW p \in Ring!Claimed PROVE Ring!At'[p] = Ring!At[p]
      OBVIOUS
    <2>1. CASE p = r
      <3>1. Ring!At[r] = arg[t]
        BY <1>2, OneWriter, AtWriter
      <3>2. \A u \in Worker : ~Ring!Writes(u, r)'
        BY <1>1, <1>4, <1>5 DEF Ring!Writes, Ring!Pushing
      <3>3. Ring!At'[r] = slots'[Ring!GP(r)]
        BY <3>2, AtSlotNext
      <3> QED BY <1>7, <2>1, <3>1, <3>3
    <2>2. CASE p # r
      <3>1. \A u \in Worker : Ring!Writes(u, p)' <=> Ring!Writes(u, p)
        BY <1>1, <1>4, <2>2 DEF Ring!Writes
      <3> QED BY <1>1, <1>6, <2>2, <3>1, OneWriter, AtStays
    <2> QED BY <2>1, <2>2
  <1>9. Ring!Contents' = Ring!Contents
    BY <1>1, <1>8, ContentsStay
  <1>10. Ring!Hands' = Ring!Hands
    BY <1>1, <1>4 DEF Ring!Hands
  <1>11. Ring!Flags'
    BY <1>1, <1>2, <1>4 DEF Ring!RingInv, Ring!Flags, Ring!GP
  <1>12. Ring!Written'
    <2> SUFFICES ASSUME NEW p \in Ring!Claimed, \A u \in Worker : ~Ring!Writes(u, p)'
                 PROVE  slots'[Ring!GP(p)] \in Queue
      BY <1>2 DEF Ring!Written, Ring!GP
    <2>1. CASE p = r
      BY <1>2, <1>7, <2>1
    <2>2. CASE p # r
      <3>1. \A u \in Worker : ~Ring!Writes(u, p)
        BY <1>1, <1>4, <2>2 DEF Ring!Writes
      <3> QED BY <1>6, <2>2, <3>1 DEF Ring!RingInv, Ring!Written
    <2> QED BY <2>1, <2>2
  <1>13. Ring!OnePlace'
    BY <1>1, <1>2, <1>8, <1>10 DEF Ring!RingInv, Ring!OnePlace
  <1>14. ASSUME NEW u \in Worker PROVE Ring!Pushes(u)'
    <2> SUFFICES ASSUME Ring!Pushing(u) PROVE Ring!Pushes(u)'
      BY <1>4 DEF Ring!Pushes
    <2>1. Ring!Pushes(u)
      BY DEF Ring!RingInv
    <2>2. ringPc'[u] = "publish" => slots'[Ring!GP(pos[u])] = arg[u]
      <3>1. CASE u = t
        BY <1>7, <3>1
      <3>2. CASE u # t
        BY <1>4, <1>5, <1>6, <2>1, <3>2 DEF Ring!Pushes
      <3> QED BY <3>1, <3>2
    <2> QED BY <1>1, <1>2, <1>4, <2>1, <2>2 DEF Ring!Pushes, Ring!GP
  <1>15. ASSUME NEW u \in Worker PROVE Ring!Pops(u)'
    <2>1. CASE u = t
      BY <1>4, <2>1 DEF Ring!Pops, Ring!Popping
    <2>2. CASE u # t
      <3>1. ringPc'[u] = ringPc[u] /\ Ring!Pops(u)
        BY <1>4, <2>2 DEF Ring!RingInv
      <3>2. pos[u] = head /\ ringPc[u] = "cas" => slots'[Ring!GP(head)] = slots[Ring!GP(head)]
        <4> SUFFICES ASSUME pos[u] = head, ringPc[u] = "cas"
                PROVE slots'[Ring!GP(head)] = slots[Ring!GP(head)]
          OBVIOUS
        <4>1. tail # head /\ r # head
          BY <1>1, <3>1 DEF Ring!Pops, Ring!Pushing
        <4>2. head \in Ring!Claimed
          BY <4>1, Numbers, SMT DEF Ring!Claimed, Ring!Ahead, Ring!RingInv, Ring!RingTypeOK
        <4> QED BY <1>6, <4>1, <4>2
      <3>3. Ring!GP(head)' = Ring!GP(head)
        BY <1>1 DEF Ring!GP
      <3> QED BY <1>1, <1>4, <3>1, <3>2, <3>3 DEF Ring!Pops
    <2> QED BY <2>1, <2>2
  <1> QED BY <1>1, <1>2, <1>3, <1>9, <1>10, <1>11, <1>12, <1>13, <1>14, <1>15 DEF Ring!RingInv

LEMMA StepPushFlag ==
    ASSUME Ring!RingInv, NEW t \in Worker, Ring!PushFlag(t)
    PROVE  Ring!RingInv' /\ UNCHANGED <<Ring!Contents, Ring!Hands, idle>>
  <1> PICK r \in 0 .. WIDTH - 1 : r = pos[t]
    BY DEF Ring!RingInv, Ring!RingTypeOK
  <1>1. /\ ringPc[t] = "publish" /\ ringPc' = [ringPc EXCEPT ![t] = "run"]
        /\ flag' = [flag EXCEPT ![Ring!GP(r)] = TRUE] /\ arg' = [arg EXCEPT ![t] = None]
        /\ head' = head /\ tail' = tail /\ slots' = slots /\ idle' = idle /\ has' = has
        /\ pos' = pos
    BY DEF Ring!PushFlag
  <1>2. /\ Ring!Claimed' = Ring!Claimed /\ Ring!Ahead(tail)' = Ring!Ahead(tail) /\ Ring!GP(r) \in Ring!Slot
        /\ r \in Ring!Claimed
    BY <1>1, SlotType DEF Ring!Claimed, Ring!Ahead, Ring!RingInv, Ring!Pushes, Ring!Pushing
  <1>3. Ring!RingTypeOK'
    BY <1>1, <1>2 DEF Ring!RingInv, Ring!RingTypeOK
  <1>4. /\ ringPc'[t] = "run" /\ ~Ring!Pushing(t)'
        /\ \A u \in Worker : u # t => ringPc'[u] = ringPc[u] /\ arg'[u] = arg[u]
        /\ \A u \in Worker : ringPc'[u] = "clear" <=> ringPc[u] = "clear"
    BY <1>1 DEF Ring!RingInv, Ring!RingTypeOK, Ring!Pushing
  <1>5. \A u \in Worker : Ring!Pushing(u)' => Ring!Pushing(u) /\ u # t /\ pos[u] # r
    BY <1>1, <1>4 DEF Ring!RingInv, Ring!Pushes, Ring!Pushing
  <1>6. ASSUME NEW p \in Ring!Claimed, p # r
        PROVE  flag'[Ring!GP(p)] = flag[Ring!GP(p)]
    <2>1. p \in 0 .. WIDTH - 1 /\ Ring!Ahead(p) < MAX_GLOBAL_MQ /\ Ring!Ahead(r) < MAX_GLOBAL_MQ
      <3>1. p \in 0 .. WIDTH - 1 /\ Ring!Ahead(p) < Ring!Ahead(tail) /\ Ring!Ahead(r) < Ring!Ahead(tail)
            /\ Ring!Ahead(p) \in Int /\ Ring!Ahead(r) \in Int /\ Ring!Ahead(tail) \in Int
        BY <1>2, Numbers, SMT DEF Ring!Claimed, Ring!Ahead, Ring!RingInv, Ring!RingTypeOK
      <3> QED BY <3>1, Numbers, SMT DEF Ring!RingInv
    <2>2. Ring!GP(p) # Ring!GP(r)
      BY <1>6, <2>1, SlotsApart DEF Ring!RingInv
    <2>3. Ring!GP(p) \in Ring!Slot
      BY <2>1, SlotType
    <2> QED BY <1>1, <2>2, <2>3 DEF Ring!RingInv, Ring!RingTypeOK
  <1>7. \A u \in Worker : \A p \in 0 .. WIDTH - 1 : Ring!Writes(u, p)' <=> Ring!Writes(u, p)
    BY <1>1, <1>4 DEF Ring!Writes
  <1>8. \A p \in Ring!Claimed : Ring!At'[p] = Ring!At[p]
    <2> SUFFICES ASSUME NEW p \in Ring!Claimed PROVE Ring!At'[p] = Ring!At[p]
      OBVIOUS
    <2>1. p \in 0 .. WIDTH - 1
      BY DEF Ring!Claimed
    <2>2. \A u \in Worker : Ring!Writes(u, p) => arg'[u] = arg[u]
      BY <1>1, <1>4 DEF Ring!Writes
    <2> QED BY <1>1, <1>7, <2>1, <2>2, OneWriter, AtStays
  <1>9. Ring!Contents' = Ring!Contents
    BY <1>1, <1>8, ContentsStay
  <1>10. Ring!Hands' = Ring!Hands
    BY <1>1, <1>4 DEF Ring!Hands
  <1>11. Ring!Flags'
    <2> SUFFICES ASSUME NEW s \in Ring!Slot, flag'[s]
                 PROVE  \/ \E p \in Ring!Claimed : Ring!GP(p) = s
                        \/ \E u \in Worker : ringPc[u] = "clear" /\ Ring!GP(pos[u]) = s
      BY <1>1, <1>2, <1>4 DEF Ring!Flags, Ring!GP
    <2>1. CASE s = Ring!GP(r)
      BY <1>2, <2>1
    <2>2. CASE s # Ring!GP(r)
      <3>1. flag[s]
        BY <1>1, <2>2 DEF Ring!RingInv, Ring!RingTypeOK
      <3> QED BY <3>1 DEF Ring!RingInv, Ring!Flags
    <2> QED BY <2>1, <2>2
  <1>12. Ring!Written'
    BY <1>1, <1>2, <1>7 DEF Ring!RingInv, Ring!Written, Ring!GP, Ring!Claimed
  <1>13. Ring!OnePlace'
    BY <1>1, <1>2, <1>8, <1>10 DEF Ring!RingInv, Ring!OnePlace
  <1>14. ASSUME NEW u \in Worker PROVE Ring!Pushes(u)'
    <2> SUFFICES ASSUME Ring!Pushing(u)' PROVE Ring!Pushes(u)'
      BY DEF Ring!Pushes
    <2>1. Ring!Pushes(u) /\ Ring!Pushing(u) /\ pos[u] \in Ring!Claimed /\ pos[u] # r
          /\ ringPc'[u] = ringPc[u] /\ arg'[u] = arg[u]
      BY <1>4, <1>5 DEF Ring!RingInv, Ring!Pushes
    <2>2. flag'[Ring!GP(pos[u])] = flag[Ring!GP(pos[u])]
      BY <1>6, <2>1
    <2> QED BY <1>1, <1>2, <1>5, <2>1, <2>2 DEF Ring!Pushes, Ring!GP
  <1>15. ASSUME NEW u \in Worker PROVE Ring!Pops(u)'
    <2>1. CASE u = t
      BY <1>4, <2>1 DEF Ring!Pops, Ring!Popping
    <2>2. CASE u # t
      BY <1>1, <1>4, <1>5, <2>2 DEF Ring!RingInv, Ring!Pops, Ring!GP
    <2> QED BY <2>1, <2>2
  <1> QED BY <1>1, <1>2, <1>3, <1>9, <1>10, <1>11, <1>12, <1>13, <1>14, <1>15 DEF Ring!RingInv

(* The loser of the race for head goes back with nothing.                  *)
LEMMA StepPopLost ==
    ASSUME Ring!RingInv, NEW t \in Worker, Ring!PopCas(t), head # pos[t]
    PROVE  Ring!RingInv' /\ UNCHANGED <<Ring!Contents, Ring!Hands, idle>>
  <1>1. /\ ringPc' = [ringPc EXCEPT ![t] = "run"] /\ pos' = [pos EXCEPT ![t] = pos[t]]
        /\ arg' = [arg EXCEPT ![t] = None] /\ UNCHANGED <<Ring!ring, idle, has>>
        /\ ringPc[t] = "cas" /\ pos[t] \in 0 .. WIDTH - 1
    BY DEF Ring!PopCas, Ring!RingInv, Ring!RingTypeOK, Ring!ring
  <1>2. Ring!Pops(t)'
    BY <1>1 DEF Ring!Pops, Ring!RingInv, Ring!RingTypeOK, Ring!Popping
  <1> QED BY <1>1, <1>2, Looks DEF Ring!Popping

(* The winner has read what is at head, since it was written before the    *)
(* flag was set and nobody writes to a position in use.                    *)
LEMMA StepPopWon ==
    ASSUME Ring!RingInv, Ring!Pace, NEW t \in Worker, Ring!PopCas(t), head = pos[t]
    PROVE  Ring!RingInv' /\ Ring!Fifo!Take(t)
  <1>1. /\ ringPc[t] = "cas" /\ ringPc' = [ringPc EXCEPT ![t] = "clear"] /\ head' = Ring!Inc(head)
        /\ tail' = tail /\ slots' = slots /\ flag' = flag /\ idle' = idle /\ has' = has
        /\ pos' = pos /\ arg' = arg
    BY DEF Ring!PopCas
  <1>2. /\ has[t] = None /\ tail # head /\ arg[t] = slots[Ring!GP(head)]
        /\ \A u \in Worker : Ring!Pushing(u) => pos[u] # head
    BY <1>1 DEF Ring!RingInv, Ring!Pops, Ring!Popping
  <1>3. /\ head' \in 0 .. WIDTH - 1 /\ head \in Ring!Claimed /\ Ring!Claimed' = Ring!Claimed \ {head}
        /\ Ring!Ahead(tail)' = Ring!Ahead(tail) - 1
    BY <1>1, <1>2, Shrinks DEF Ring!RingInv
  <1>4. Ring!RingTypeOK'
    BY <1>1, <1>3 DEF Ring!RingInv, Ring!RingTypeOK
  <1>5. /\ ringPc'[t] = "clear"
        /\ \A u \in Worker : u # t => ringPc'[u] = ringPc[u]
        /\ \A u \in Worker : Ring!Pushing(u)' <=> Ring!Pushing(u)
        /\ \A u \in Worker : Ring!Pushing(u) => u # t
    BY <1>1 DEF Ring!RingInv, Ring!RingTypeOK, Ring!Pushing
  <1>6. Ring!At' = Ring!At
    BY <1>1, <1>5 DEF Ring!At, Ring!GP, Ring!RingInv, Ring!RingTypeOK
  <1>7. Ring!At[head] = arg[t] /\ arg[t] \in Queue
    <2>1. \A u \in Worker : ~Ring!Writes(u, head)
      BY <1>2 DEF Ring!Writes, Ring!Pushing
    <2>2. Ring!At[head] = slots[Ring!GP(head)]
      BY <2>1, AtSlot DEF Ring!RingInv, Ring!RingTypeOK
    <2> QED BY <1>2, <1>3, <2>2, AtType
  <1>8. Ring!Contents # <<>> /\ Head(Ring!Contents) = arg[t] /\ Ring!Contents' = Tail(Ring!Contents)
    BY <1>1, <1>2, <1>6, <1>7, ContentsShrink
  <1>9. Ring!Hands[t] = None /\ Ring!Hands' = [Ring!Hands EXCEPT ![t] = arg[t]]
    BY <1>1, <1>2, <1>5 DEF Ring!Hands, Ring!RingInv, Ring!RingTypeOK
  <1>10. Ring!Flags'
    <2> SUFFICES ASSUME NEW s \in Ring!Slot, flag[s]
                 PROVE  \/ \E p \in Ring!Claimed' : Ring!GP(p) = s
                        \/ \E u \in Worker : ringPc'[u] = "clear" /\ Ring!GP(pos[u]) = s
      BY <1>1 DEF Ring!Flags, Ring!GP
    <2>1. CASE s = Ring!GP(head)
      BY <1>5, <2>1
    <2>2. CASE s # Ring!GP(head)
      BY <1>3, <1>5, <2>2 DEF Ring!RingInv, Ring!Flags
    <2> QED BY <2>1, <2>2
  <1>11. Ring!Written'
    <2> SUFFICES ASSUME NEW p \in Ring!Claimed', \A u \in Worker : ~Ring!Writes(u, p)'
                 PROVE  slots[Ring!GP(p)] \in Queue
      BY <1>1 DEF Ring!Written, Ring!GP
    <2>1. \A u \in Worker : ~Ring!Writes(u, p)
      BY <1>1, <1>5 DEF Ring!Writes
    <2> QED BY <1>3, <2>1 DEF Ring!RingInv, Ring!Written
  <1>12. Ring!OnePlace'
    <2>1. \A u \in Worker : Ring!Hands'[u] = IF u = t THEN Ring!At[head] ELSE Ring!Hands[u]
      BY <1>7, <1>9 DEF Ring!Hands
    <2> QED BY <1>1, <1>3, <1>6, <2>1 DEF Ring!RingInv, Ring!OnePlace
  <1>13. ASSUME NEW u \in Worker PROVE Ring!Pushes(u)'
    <2> SUFFICES ASSUME Ring!Pushing(u) PROVE Ring!Pushes(u)'
      BY <1>5 DEF Ring!Pushes
    <2>1. Ring!Pushes(u) /\ pos[u] \in Ring!Claimed' /\ ringPc'[u] = ringPc[u]
      BY <1>2, <1>3, <1>5 DEF Ring!RingInv, Ring!Pushes
    <2> QED BY <1>1, <1>5, <2>1 DEF Ring!Pushes, Ring!GP
  <1>14. ASSUME NEW u \in Worker PROVE Ring!Pops(u)'
    <2>1. CASE u = t
      BY <1>1, <1>2, <1>5, <1>7, <2>1 DEF Ring!Pops, Ring!Popping
    <2>2. CASE u # t
      <3>1. ringPc'[u] = ringPc[u] /\ Ring!Pops(u)
        BY <1>5, <2>2 DEF Ring!RingInv
      <3>2. head' # head
        BY <1>1, IncIs, Numbers, SMT DEF Ring!RingInv, Ring!RingTypeOK
      <3>3. ringPc[u] \in Ring!Popping => pos[u] # head'
        BY <3>2 DEF Ring!Pace
      <3> QED BY <1>1, <3>1, <3>3 DEF Ring!Pops, Ring!Popping
    <2> QED BY <2>1, <2>2
  <1>15. Ring!Ahead(tail)' < MAX_GLOBAL_MQ
    <2>1. Ring!Ahead(tail) \in Int
      BY LoadIs DEF Ring!RingInv
    <2> QED BY <1>3, <2>1, Numbers, SMT DEF Ring!RingInv
  <1>16. Ring!RingInv'
    BY <1>4, <1>10, <1>11, <1>12, <1>13, <1>14, <1>15 DEF Ring!RingInv
  <1> QED BY <1>1, <1>8, <1>9, <1>16 DEF Ring!Fifo!Take

LEMMA StepPopClear ==
    ASSUME Ring!RingInv, NEW t \in Worker, Ring!PopClear(t)
    PROVE  Ring!RingInv' /\ UNCHANGED <<Ring!Contents, Ring!Hands, idle>>
  <1>1. /\ ringPc[t] = "clear" /\ ringPc' = [ringPc EXCEPT ![t] = "run"]
        /\ flag' = [flag EXCEPT ![Ring!GP(pos[t])] = FALSE]
        /\ has' = [has EXCEPT ![t] = arg[t]] /\ arg' = [arg EXCEPT ![t] = None]
        /\ head' = head /\ tail' = tail /\ slots' = slots /\ idle' = idle /\ pos' = pos
    BY DEF Ring!PopClear
  <1>2. /\ Ring!Claimed' = Ring!Claimed /\ Ring!Ahead(tail)' = Ring!Ahead(tail)
               /\ Ring!GP(pos[t]) \in Ring!Slot
        /\ arg[t] \in Queue
    BY <1>1, SlotType DEF Ring!Claimed, Ring!Ahead, Ring!RingInv, Ring!RingTypeOK, Ring!Pops
  <1>3. Ring!RingTypeOK'
    BY <1>1, <1>2 DEF Ring!RingInv, Ring!RingTypeOK
  <1>4. /\ ringPc'[t] = "run" /\ has'[t] = arg[t]
        /\ \A u \in Worker : u # t => ringPc'[u] = ringPc[u] /\ arg'[u] = arg[u] /\ has'[u] = has[u]
        /\ \A u \in Worker : Ring!Pushing(u)' <=> Ring!Pushing(u)
        /\ \A u \in Worker : Ring!Pushing(u) => u # t
    BY <1>1 DEF Ring!RingInv, Ring!RingTypeOK, Ring!Pushing
  <1>5. \A s \in Ring!Slot : flag'[s] => flag[s] /\ s # Ring!GP(pos[t])
    BY <1>1 DEF Ring!RingInv, Ring!RingTypeOK
  <1>6. \A p \in Ring!Claimed : Ring!At'[p] = Ring!At[p]
    <2> SUFFICES ASSUME NEW p \in Ring!Claimed PROVE Ring!At'[p] = Ring!At[p]
      OBVIOUS
    <2>1. p \in 0 .. WIDTH - 1
      BY DEF Ring!Claimed
    <2>2. \A u \in Worker : (Ring!Writes(u, p)' <=> Ring!Writes(u, p))
              /\ (Ring!Writes(u, p) => arg'[u] = arg[u])
      BY <1>1, <1>4 DEF Ring!Writes
    <2> QED BY <1>1, <2>1, <2>2, OneWriter, AtStays
  <1>7. Ring!Contents' = Ring!Contents
    BY <1>1, <1>6, ContentsStay
  <1>8. Ring!Hands' = Ring!Hands
    BY <1>1, <1>4 DEF Ring!Hands
  <1>9. Ring!Flags'
    <2> SUFFICES ASSUME NEW s \in Ring!Slot, flag'[s]
                 PROVE  \/ \E p \in Ring!Claimed : Ring!GP(p) = s
                        \/ \E u \in Worker : ringPc'[u] = "clear" /\ Ring!GP(pos[u]) = s
      BY <1>1, <1>2 DEF Ring!Flags, Ring!GP
    <2>1. flag[s] /\ s # Ring!GP(pos[t])
      BY <1>5
    <2> QED BY <1>4, <2>1 DEF Ring!RingInv, Ring!Flags
  <1>10. Ring!Written'
    <2> SUFFICES ASSUME NEW p \in Ring!Claimed, \A u \in Worker : ~Ring!Writes(u, p)'
                 PROVE  slots[Ring!GP(p)] \in Queue
      BY <1>1, <1>2 DEF Ring!Written, Ring!GP
    <2>1. \A u \in Worker : ~Ring!Writes(u, p)
      BY <1>1, <1>4 DEF Ring!Writes
    <2> QED BY <2>1 DEF Ring!RingInv, Ring!Written
  <1>11. Ring!OnePlace'
    BY <1>1, <1>2, <1>6, <1>8 DEF Ring!RingInv, Ring!OnePlace
  <1>12. ASSUME NEW u \in Worker PROVE Ring!Pushes(u)'
    <2> SUFFICES ASSUME Ring!Pushing(u) PROVE Ring!Pushes(u)'
      BY <1>4 DEF Ring!Pushes
    <2>1. Ring!Pushes(u) /\ ringPc'[u] = ringPc[u] /\ arg'[u] = arg[u] /\ pos[u] \in 0 .. WIDTH - 1
      BY <1>4 DEF Ring!RingInv, Ring!RingTypeOK
    <2>2. ~flag'[Ring!GP(pos[u])]
      BY <1>5, <2>1, SlotType DEF Ring!Pushes
    <2> QED BY <1>1, <1>2, <1>4, <2>1, <2>2 DEF Ring!Pushes, Ring!GP
  <1>13. ASSUME NEW u \in Worker PROVE Ring!Pops(u)'
    <2>1. CASE u = t
      BY <1>4, <2>1 DEF Ring!Pops, Ring!Popping
    <2>2. CASE u # t
      BY <1>1, <1>4, <2>2 DEF Ring!RingInv, Ring!Pops, Ring!GP
    <2> QED BY <2>1, <2>2
  <1> QED BY <1>1, <1>2, <1>3, <1>7, <1>8, <1>9, <1>10, <1>11, <1>12, <1>13 DEF Ring!RingInv

LEMMA RingInit ==
    ASSUME Ring!Init
    PROVE  Ring!RingInv /\ Ring!Fifo!Start
  <1> DEFINE n == Cardinality(Boot)
  <1>1. /\ n \in Nat /\ n < MAX_GLOBAL_MQ /\ IsFiniteSet(Boot)
    <2>1. IsFiniteSet(Boot) /\ Cardinality(Boot) <= Cardinality(Queue)
      BY FS_Subset, Numbers
    <2>2. n \in Nat
      BY <2>1, FS_CardinalityType
    <2> QED BY <2>1, <2>2, Numbers, SMT
  <1>2. head = 0 /\ tail = n
    BY SameSize DEF Ring!Init
  <1>3. Ring!Ahead(tail) = n /\ Ring!Claimed = 0 .. n - 1 /\ (tail - head) % WIDTH = n
    <2>1. n \in 0 .. WIDTH - 1 /\ n - 0 \in Nat /\ n - 0 < WIDTH
      BY <1>1, Numbers, SMT
    <2>2. Ring!Ahead(tail) = n
      BY <1>1, <1>2, SMT DEF Ring!Ahead
    <2>3. \A p : p \in Ring!Claimed <=> p \in 0 .. n - 1
      BY <1>1, <1>2, <2>1, <2>2, Numbers, SMT DEF Ring!Claimed, Ring!Ahead
    <2>4. n % WIDTH = n
      <3>1. - WIDTH <= n /\ n < 2 * WIDTH /\ n \in Int
        BY <2>1, Numbers, SMT
      <3>2. n % WIDTH = IF n < 0 THEN n + WIDTH ELSE IF n < WIDTH THEN n ELSE n - WIDTH
        BY <3>1, Reduced, Numbers
      <3> QED BY <1>1, <2>1, <3>2, SMT
    <2>5. tail - head = n
      BY <1>1, <1>2, SMT
    <2> QED BY <2>2, <2>3, <2>4, <2>5
  <1>4. ASSUME NEW p \in 0 .. n - 1 PROVE Ring!GP(p) = p /\ p \in Ring!Slot /\ p \in 0 .. WIDTH - 1
    <2>1. p \in Nat /\ p < MAX_GLOBAL_MQ
      BY <1>1, Numbers, SMT
    <2>2. - MAX_GLOBAL_MQ <= p /\ p < 2 * MAX_GLOBAL_MQ
      BY <2>1, Numbers, SMT
    <2>3. p % MAX_GLOBAL_MQ = IF p < 0 THEN p + MAX_GLOBAL_MQ
                              ELSE IF p < MAX_GLOBAL_MQ THEN p ELSE p - MAX_GLOBAL_MQ
      BY <2>1, <2>2, Reduced, Numbers
    <2> QED BY <2>1, <2>3, Numbers, SMT DEF Ring!GP, Ring!Slot
  <1>5. \A t \in Worker : ringPc[t] = "run" /\ has[t] = None /\ arg[t] = None /\ pos[t] = 0
    BY DEF Ring!Init
  <1>6. /\ slots \in [Ring!Slot -> Boot \cup {None}]
        /\ \A s \in Ring!Slot : slots[s] = None <=> s >= n
        /\ \A s, r \in 0 .. n - 1 : slots[s] = slots[r] => s = r
    BY <1>2 DEF Ring!Init
  <1>7. \A p \in 0 .. n - 1 : Ring!At[p] = slots[p] /\ slots[p] \in Boot
    <2> SUFFICES ASSUME NEW p \in 0 .. n - 1 PROVE Ring!At[p] = slots[p] /\ slots[p] \in Boot
      OBVIOUS
    <2>1. \A u \in Worker : ~Ring!Writes(u, p)
      BY <1>5 DEF Ring!Writes
    <2>2. Ring!At[p] = slots[p]
      BY <1>4, <2>1, AtSlot
    <2>3. ~(p >= n)
      BY <1>1, SMT
    <2> QED BY <1>4, <1>6, <2>2, <2>3
  <1>8. Ring!RingTypeOK
    <2>1. head \in 0 .. WIDTH - 1 /\ tail \in 0 .. WIDTH - 1
      BY <1>1, <1>2, Numbers, SMT
    <2>2. 0 \in 0 .. WIDTH - 1
      BY Numbers, SMT
    <2> QED BY <1>6, <2>1, <2>2, Numbers DEF Ring!Init, Ring!RingTypeOK
  <1>9. Ring!Hands = [t \in Worker |-> None]
    BY <1>5 DEF Ring!Hands
  <1>10. idle = Queue \ Boot
    BY DEF Ring!Init
  <1>11. Ring!Flags /\ Ring!Written
    <2>1. \A s \in Ring!Slot : flag[s] => s \in 0 .. n - 1
      <3>1. \A s \in Ring!Slot : flag[s] = (s < n)
        BY <1>2 DEF Ring!Init
      <3>2. \A s \in Ring!Slot : s < n => s \in 0 .. n - 1
        BY <1>1, Numbers, SMT DEF Ring!Slot
      <3> QED BY <3>1, <3>2
    <2> QED BY <1>3, <1>4, <1>7, <2>1, Numbers DEF Ring!Flags, Ring!Written
  <1>12. Ring!OnePlace
    BY <1>3, <1>6, <1>7, <1>9, <1>10, Numbers DEF Ring!OnePlace
  <1>13. \A t \in Worker : Ring!Pushes(t) /\ Ring!Pops(t)
    BY <1>5 DEF Ring!Pushes, Ring!Pushing, Ring!Pops, Ring!Popping
  <1>14. Ring!RingInv
    BY <1>1, <1>3, <1>8, <1>11, <1>12, <1>13 DEF Ring!RingInv
  <1>15. Ring!Contents = [i \in 1 .. n |-> slots[i - 1]] /\ Len(Ring!Contents) = n
    <2>1. Ring!Contents = [i \in 1 .. n |-> Ring!At[Position(i)]] /\ Len(Ring!Contents) = n
      BY <1>3, <1>14, ContentsIs
    <2>2. ASSUME NEW i \in 1 .. n PROVE Position(i) = i - 1 /\ i - 1 \in 0 .. n - 1
      <3>1. Position(i) \in Ring!Claimed /\ Ring!Ahead(Position(i)) = i - 1
        BY <1>3, <1>8, PositionClaimed
      <3>2. i - 1 \in 0 .. n - 1
        BY <1>1, SMT
      <3>3. Position(i) = i - 1
        BY <1>1, <1>2, <1>3, <3>1, <3>2, SMT DEF Ring!Ahead
      <3> QED BY <3>2, <3>3
    <2> QED BY <1>7, <2>1, <2>2
  <1>16. {Ring!Contents[i] : i \in 1 .. n} = Boot
    <2> DEFINE f == [i \in 1 .. n |-> slots[i - 1]]
    <2>1. \A i \in 1 .. n : i - 1 \in 0 .. n - 1
      BY <1>1, SMT
    <2>2. f \in [1 .. n -> Boot]
      BY <1>7, <2>1
    <2>3. \A i, j \in 1 .. n : f[i] = f[j] => i = j
      <3> SUFFICES ASSUME NEW i \in 1 .. n, NEW j \in 1 .. n, f[i] = f[j] PROVE i = j
        OBVIOUS
      <3>1. i - 1 = j - 1
        BY <1>6, <2>1
      <3> QED BY <1>1, <3>1, SMT
    <2>4. f \in Injection(1 .. n, Boot)
      BY <2>2, <2>3 DEF Injection, IsInjective
    <2>5. IsFiniteSet(1 .. n) /\ Cardinality(1 .. n) = n
      <3>1. n \in Int /\ 1 \in Int
        BY <1>1
      <3>2. IsFiniteSet(1 .. n) /\ Cardinality(1 .. n) = IF 1 > n THEN 0 ELSE n - 1 + 1
        BY <3>1, FS_Interval
      <3> QED BY <1>1, <3>2, SMT
    <2>6. f \in Surjection(1 .. n, Boot)
      BY <1>1, <2>4, <2>5, FS_Injection
    <2> QED BY <1>15, <2>2, <2>6 DEF Surjection
  <1>17. \A i, j \in 1 .. n : Ring!Contents[i] = Ring!Contents[j] => i = j
    <2> SUFFICES ASSUME NEW i \in 1 .. n, NEW j \in 1 .. n, Ring!Contents[i] = Ring!Contents[j] PROVE i = j
      OBVIOUS
    <2>1. i - 1 \in 0 .. n - 1 /\ j - 1 \in 0 .. n - 1
      BY <1>1, SMT
    <2>2. i - 1 = j - 1
      BY <1>6, <1>15, <2>1
    <2> QED BY <1>1, <2>2, SMT
  <1>18. Ring!Fifo!Start
    BY <1>9, <1>10, <1>15, <1>16, <1>17 DEF Ring!Fifo!Start
  <1> QED BY <1>14, <1>18

LEMMA RingStep ==
    ASSUME Ring!RingInv, [Ring!Next /\ Ring!Pace]_(Ring!vars)
    PROVE  Ring!RingInv' /\ [Ring!Fifo!Next]_<<Ring!Contents, Ring!Hands, idle>>
  <1>1. CASE UNCHANGED Ring!vars
    <2>1. /\ head' = head /\ tail' = tail /\ slots' = slots /\ flag' = flag /\ idle' = idle
          /\ has' = has /\ ringPc' = ringPc /\ pos' = pos /\ arg' = arg
      BY <1>1 DEF Ring!vars, Ring!ring, Ring!local
    <2>2. Ring!Contents' = Ring!Contents /\ Ring!Hands' = Ring!Hands /\ Ring!At' = Ring!At
              /\ Ring!Claimed' = Ring!Claimed
          /\ Ring!Ahead(tail)' = Ring!Ahead(tail)
      BY <2>1 DEF Ring!Contents, Ring!Hands, Ring!At, Ring!GP, Ring!Claimed, Ring!Ahead
    <2>3. Ring!RingInv'
      BY <2>1, <2>2 DEF Ring!RingInv, Ring!RingTypeOK, Ring!Flags, Ring!Written, Ring!OnePlace,
          Ring!Pushes, Ring!Pops, Ring!Pushing,
                        Ring!Writes, Ring!GP
    <2> QED BY <2>1, <2>2, <2>3
  <1>2. ASSUME NEW t \in Worker, Ring!Pace,
               Ring!Inside(t) \/ Ring!PopHead(t) \/ Ring!Schedule(t) \/ Ring!PutBack(t) \/ Ring!LeaveOut(t)
        PROVE  Ring!RingInv' /\ [Ring!Fifo!Next]_<<Ring!Contents, Ring!Hands, idle>>
    <2>1. CASE Ring!PushWrite(t)  BY <2>1, StepPushWrite
    <2>2. CASE Ring!PushFlag(t)   BY <2>2, StepPushFlag
    <2>3. CASE Ring!PopTail(t)    BY <2>3, StepPopTail
    <2>4. CASE Ring!PopFlag(t)    BY <2>4, StepPopFlag
    <2>5. CASE Ring!PopRead(t)    BY <2>5, StepPopRead
    <2>6. CASE Ring!PopCas(t) /\ head # pos[t]  BY <2>6, StepPopLost
    <2>7. CASE Ring!PopCas(t) /\ head = pos[t]  BY <1>2, <2>7, StepPopWon DEF Ring!Fifo!Next
    <2>8. CASE Ring!PopClear(t)   BY <2>8, StepPopClear
    <2>9. CASE Ring!PopHead(t)    BY <2>9, StepPopHead
    <2>10. CASE Ring!Schedule(t)  BY <1>2, <2>10, StepSchedule DEF Ring!Fifo!Next
    <2>11. CASE Ring!PutBack(t)   BY <1>2, <2>11, StepPutBack DEF Ring!Fifo!Next
    <2>12. CASE Ring!LeaveOut(t)  BY <2>12, StepLeaveOut DEF Ring!Fifo!Next
    <2> QED BY <1>2, <2>1, <2>2, <2>3, <2>4, <2>5, <2>6, <2>7, <2>8, <2>9, <2>10, <2>11, <2>12
            DEF Ring!Inside
  <1>3. CASE Ring!Next /\ Ring!Pace
    BY <1>2, <1>3 DEF Ring!Next
  <1> QED BY <1>1, <1>3

(* The lock-free ring of skynet_globalmq_push and skynet_globalmq_pop is   *)
(* an atomic FIFO for any number of workers and queues and any width of    *)
(* its counters, as long as there are fewer queues than slots and nobody   *)
(* is overtaken by a whole round (Pace).                                   *)
THEOREM RingIsFifo == LiveSpec => ImplementsFifo
  <1>1. LiveInit => Ring!RingInv /\ Ring!Fifo!Start
    BY RingInit DEF LiveInit
  <1>2. [LiveNext]_liveVars => [Ring!Next /\ Ring!Pace]_(Ring!vars)
    BY DEF LiveNext, liveVars, ringVars, Ring!vars, Ring!ring, Ring!local
  <1>3. Ring!RingInv /\ [LiveNext]_liveVars => Ring!RingInv' /\ [Ring!Fifo!Next]_<<Ring!Contents,
            Ring!Hands, idle>>
    <2> SUFFICES ASSUME Ring!RingInv, [LiveNext]_liveVars
                 PROVE  Ring!RingInv' /\ [Ring!Fifo!Next]_<<Ring!Contents, Ring!Hands, idle>>
      OBVIOUS
    <2>1. [Ring!Next /\ Ring!Pace]_(Ring!vars)
      BY <1>2
    <2> QED BY <2>1, RingStep
  <1> QED BY <1>1, <1>3, PTL DEF LiveSpec, ImplementsFifo, Ring!ImplementsFifo, Ring!Fifo!Fifo,
          Ring!Fifo!vars
=============================================================================
