------------------------------ MODULE NodeProofs ------------------------------
(***************************************************************************)
(* Proofs about what a node is made of below its services: the ring of a   *)
(* message queue implements a sequence, a service gets its module, the     *)
(* memory of a message has one owner, handles and names find the services  *)
(* they were given to, and timeouts come in their tick.                    *)
(***************************************************************************)
EXTENDS MCNode, Induction, SequenceTheorems, TLAPS

-----------------------------------------------------------------------------
(* The buffer of a message queue (MessageQueue).                           *)

(* The messages between head and tail are messages that have been pushed.  *)
Filled == \A i \in 1 .. Size : buffer[Index(i)] \in Message

RingInv == TypeOK /\ Filled

Slots(c) == [0 .. c - 1 -> Message \cup {Garbage}]

-----------------------------------------------------------------------------
(* Positions in the ring.                                                  *)
LEMMA ModOnce ==
    ASSUME NEW a \in Nat, NEW b \in Nat, NEW n \in Nat \ {0}, a < n, b < n
    PROVE  (a + b) % n = IF a + b < n THEN a + b ELSE a + b - n
  OBVIOUS

LEMMA SizeRange ==
    ASSUME TypeOK
    PROVE  /\ cap \in Nat /\ cap > 1 /\ head \in 0 .. cap - 1 /\ tail \in 0 .. cap - 1
           /\ Size \in 0 .. cap - 1
           /\ Size = 0 <=> head = tail
           /\ \A i \in 1 .. cap : Index(i) \in 0 .. cap - 1
           /\ buffer \in Slots(cap)
  BY DEF TypeOK, Size, Index, Slots

LEMMA Distance ==
    ASSUME NEW c \in Nat, NEW h \in 0 .. c - 1, NEW u \in 0 .. c - 1
    PROVE  (IF h <= u THEN u - h ELSE u - h + c) \in Nat
  OBVIOUS

LEMMA NextSize ==
    ASSUME TypeOK'
    PROVE  Size' \in Nat
  <1>1. cap' \in Nat /\ head' \in 0 .. cap' - 1 /\ tail' \in 0 .. cap' - 1
    BY DEF TypeOK
  <1> QED BY <1>1, Distance DEF Size

(* A sequence with the length and the elements of the next contents.       *)
LEMMA ContentsIs ==
    ASSUME RingInv', NEW s \in Seq(Message), Len(s) = Size',
           \A i \in 1 .. Size' : s[i] = buffer'[Index(i)']
    PROVE  Contents' = s
  <1>1. Contents' \in Seq(Message) /\ Len(Contents') = Size'
        /\ \A i \in 1 .. Size' : Contents'[i] = buffer'[Index(i)']
    <2>1. Size' \in Nat
      BY NextSize DEF RingInv
    <2>2. \A i \in 1 .. Size' : buffer'[Index(i)'] \in Message
      BY DEF RingInv, Filled
    <2> QED BY <2>1, <2>2 DEF Contents
  <1> QED BY <1>1, SeqEqual

LEMMA ContentsSeq ==
    ASSUME RingInv
    PROVE  /\ Contents \in Seq(Message) /\ Len(Contents) = Size
           /\ \A i \in 1 .. Size : Contents[i] = buffer[Index(i)]
  <1>1. Size \in Nat /\ \A i \in 1 .. Size : buffer[Index(i)] \in Message
    BY SizeRange DEF RingInv, Filled
  <1> QED BY <1>1 DEF Contents

(* What expand_queue copies: the slots from head on, in order.             *)
LEMMA ExpandedSlots ==
    ASSUME TypeOK, NEW b \in Slots(cap)
    PROVE  /\ Expanded(b) \in Slots(2 * cap)
           /\ \A i \in 0 .. cap - 1 : Expanded(b)[i] = b[Index(i + 1)]
  <1>1. \A i \in 0 .. cap - 1 :
          (head + i) % cap = Index(i + 1) /\ Index(i + 1) \in 0 .. cap - 1
    <2> TAKE i \in 0 .. cap - 1
    <2>1. head \in Nat /\ i \in Nat /\ head < cap /\ i < cap /\ cap \in Nat \ {0}
      BY SizeRange
    <2>2. (head + i) % cap = IF head + i < cap THEN head + i ELSE head + i - cap
      BY <2>1, SizeRange, ModOnce
    <2>3. Index(i + 1) = IF head + i < cap THEN head + i ELSE head + i - cap
      BY <2>1, SizeRange DEF Index
    <2>4. i + 1 \in 1 .. cap
      BY SizeRange
    <2> QED BY <2>2, <2>3, <2>4, SizeRange
  <1>2. cap \in Nat /\ 0 .. cap - 1 \subseteq 0 .. 2 * cap - 1
    BY SizeRange
  <1>3. \A i \in 0 .. 2 * cap - 1 :
          Expanded(b)[i] = IF i < cap THEN b[(head + i) % cap] ELSE Garbage
    BY DEF Expanded
  <1>4. \A i \in 0 .. 2 * cap - 1 :
          (IF i < cap THEN b[(head + i) % cap] ELSE Garbage) \in Message \cup {Garbage}
    BY <1>1, <1>2 DEF Slots
  <1>5. Expanded(b) \in Slots(2 * cap)
    BY <1>4 DEF Expanded, Slots
  <1> QED BY <1>1, <1>2, <1>3, <1>5

-----------------------------------------------------------------------------
(* What each operation does to the invariant and to the contents.          *)
LEMMA PopEffect ==
    ASSUME RingInv, Pop
    PROVE  RingInv' /\ Abstract!Pop
  <1>1. CASE head = tail
    <2>1. Size = 0 /\ Contents = <<>>
      BY <1>1, SizeRange, ContentsSeq DEF RingInv
    <2>2. UNCHANGED <<cap, head, tail, buffer>> /\ result' = "none"
      BY <1>1 DEF Pop
    <2>3. Contents' = Contents /\ Size' = Size
      BY <2>2 DEF Contents, Size, Index
    <2>4. RingInv'
      BY <2>2 DEF RingInv, TypeOK, Filled, Size, Index
    <2> QED BY <2>1, <2>2, <2>3, <2>4 DEF Abstract!Pop
  <1>2. CASE head # tail
    <2>1. Size > 0 /\ Index(1) = head /\ Contents # <<>> /\ Head(Contents) = buffer[head]
      BY <1>2, SizeRange, ContentsSeq DEF RingInv, Index
    <2>2. result' = buffer[head] /\ head' = Wrapped(head) /\ UNCHANGED <<cap, tail, buffer>>
      BY <1>2 DEF Pop
    <2>3. Size' = Size - 1 /\ \A i \in 1 .. Size - 1 : Index(i)' = Index(i + 1)
      BY <1>2, <2>2, SizeRange DEF RingInv, Size, Index, Wrapped
    <2>4. RingInv'
      <3>1. TypeOK'
        BY <2>1, <2>2, SizeRange DEF RingInv, TypeOK, Filled, Wrapped
      <3>2. Filled'
        BY <2>2, <2>3, SizeRange DEF RingInv, Filled
      <3> QED BY <3>1, <3>2 DEF RingInv
    <2>5. Contents' = Tail(Contents)
      <3>1. Tail(Contents) \in Seq(Message) /\ Len(Tail(Contents)) = Size'
            /\ \A i \in 1 .. Size' : Tail(Contents)[i] = buffer'[Index(i)']
        BY <2>1, <2>2, <2>3, SizeRange, ContentsSeq DEF RingInv
      <3> QED BY <2>4, <3>1, ContentsIs
    <2> QED BY <2>1, <2>2, <2>4, <2>5 DEF Abstract!Pop
  <1> QED BY <1>1, <1>2

LEMMA PushTailEffect ==
    ASSUME RingInv, NEW m \in Message, PushTail(m), result' = "none"
    PROVE  RingInv' /\ Contents' = Append(Contents, m)
  <1> DEFINE written == [buffer EXCEPT ![tail] = m]
  <1>1. /\ written \in Slots(cap) /\ Index(Size + 1) = tail /\ Size + 1 \in 1 .. cap
        /\ written[tail] = m
        /\ \A i \in 1 .. Size : Index(i) \in 0 .. cap - 1 /\ written[Index(i)] = buffer[Index(i)]
    <2>1. Size + 1 \in 1 .. cap /\ \A i \in 1 .. Size : Index(i) \in 0 .. cap - 1
      BY SizeRange DEF RingInv
    <2>2. Index(Size + 1) = tail /\ \A i \in 1 .. Size : Index(i) # tail
      BY SizeRange DEF RingInv, Size, Index
    <2>3. written \in Slots(cap) /\ written[tail] = m
          /\ \A j \in 0 .. cap - 1 : j # tail => written[j] = buffer[j]
      BY SizeRange DEF RingInv, Slots
    <2> QED BY <2>1, <2>2, <2>3
  <1>2. \A i \in 1 .. Size + 1 : written[Index(i)] = IF i = Size + 1 THEN m ELSE buffer[Index(i)]
    BY <1>1, SizeRange DEF RingInv
  <1>3. Append(Contents, m) \in Seq(Message) /\ Len(Append(Contents, m)) = Size + 1
        /\ \A i \in 1 .. Size + 1 : Append(Contents, m)[i] = written[Index(i)]
    BY <1>2, ContentsSeq, SizeRange DEF RingInv
  <1>4. CASE Wrapped(tail) = head
    <2>1. /\ buffer' = Expanded(written) /\ head' = 0 /\ tail' = cap /\ cap' = 2 * cap
      BY <1>4 DEF PushTail
    <2>2. Size' = Size + 1 /\ Size + 1 = cap
      BY <1>4, <2>1, SizeRange DEF RingInv, Size, Wrapped
    <2>3. \A i \in 1 .. Size' : Index(i)' = i - 1 /\ buffer'[i - 1] = written[Index(i)]
      <3> TAKE i \in 1 .. Size'
      <3>1. i - 1 \in 0 .. cap - 1 /\ (i - 1) + 1 = i /\ i <= 2 * cap
        BY <2>2, SizeRange DEF RingInv
      <3>2. buffer'[i - 1] = written[Index((i - 1) + 1)]
        BY <1>1, <2>1, <3>1, ExpandedSlots DEF RingInv
      <3> QED BY <2>1, <3>1, <3>2, SizeRange DEF RingInv, Index
    <2>4. RingInv'
      <3>1. TypeOK'
        <4>1. cap' \in Nat \ {0, 1} /\ head' \in 0 .. cap' - 1 /\ tail' \in 0 .. cap' - 1
          BY <2>1, SizeRange DEF RingInv
        <4>2. buffer' \in Slots(cap')
          BY <1>1, <2>1, ExpandedSlots DEF RingInv
        <4> QED BY <4>1, <4>2 DEF TypeOK, Slots
      <3>2. Filled'
        BY <1>3, <2>2, <2>3 DEF Filled
      <3> QED BY <3>1, <3>2 DEF RingInv
    <2> QED BY <1>3, <2>2, <2>3, <2>4, ContentsIs
  <1>5. CASE Wrapped(tail) # head
    <2>1. buffer' = written /\ tail' = Wrapped(tail) /\ UNCHANGED <<cap, head>>
      BY <1>5 DEF PushTail
    <2>2. Size' = Size + 1 /\ \A i \in 1 .. Size + 1 : Index(i)' = Index(i)
      BY <1>5, <2>1, SizeRange DEF RingInv, Size, Index, Wrapped
    <2>3. RingInv'
      <3>1. TypeOK'
        BY <1>1, <2>1, SizeRange DEF RingInv, TypeOK, Wrapped, Slots
      <3>2. Filled'
        BY <1>3, <2>1, <2>2 DEF Filled
      <3> QED BY <3>1, <3>2 DEF RingInv
    <2> QED BY <1>3, <2>1, <2>2, <2>3, ContentsIs
  <1> QED BY <1>4, <1>5

LEMMA PushHeadEffect ==
    ASSUME RingInv, NEW m \in Message, PushHead(m), result' = "none"
    PROVE  RingInv' /\ Contents' = <<m>> \o Contents
  <1> DEFINE before == IF head - 1 < 0 THEN cap - 1 ELSE head - 1
  <1>1. before \in 0 .. cap - 1 /\ \A i \in 1 .. Size : Index(i) \in 0 .. cap - 1
    BY SizeRange DEF RingInv
  <1>2. <<m>> \o Contents \in Seq(Message) /\ Len(<<m>> \o Contents) = Size + 1
        /\ \A i \in 1 .. Size + 1 :
              (<<m>> \o Contents)[i] = IF i = 1 THEN m ELSE buffer[Index(i - 1)]
    BY ContentsSeq, SizeRange DEF RingInv
  <1>3. CASE before = tail
    <2> DEFINE wide == Expanded(buffer)
    <2>1. /\ buffer' = [wide EXCEPT ![2 * cap - 1] = m]
          /\ head' = 2 * cap - 1 /\ tail' = cap - 1 /\ cap' = 2 * cap
      BY <1>3 DEF PushHead
    <2>2. Size = cap - 1 /\ Size' = Size + 1
      BY <1>3, <2>1, SizeRange DEF RingInv, Size
    <2>3. wide \in Slots(2 * cap) /\ \A i \in 0 .. cap - 1 : wide[i] = buffer[Index(i + 1)]
      BY SizeRange, ExpandedSlots DEF RingInv
    <2>4. \A i \in 1 .. Size + 1 :
             /\ Index(i)' = IF i = 1 THEN 2 * cap - 1 ELSE i - 2
             /\ i # 1 => i - 2 \in 0 .. cap - 1 /\ i - 2 # 2 * cap - 1 /\ (i - 2) + 1 = i - 1
      BY <2>1, <2>2, SizeRange DEF RingInv, Index
    <2>5. buffer'[2 * cap - 1] = m /\ \A i \in 0 .. cap - 1 : buffer'[i] = buffer[Index(i + 1)]
      BY <2>1, <2>3, SizeRange DEF RingInv, Slots
    <2>6. \A i \in 1 .. Size' : buffer'[Index(i)'] = (<<m>> \o Contents)[i]
      <3> TAKE i \in 1 .. Size'
      <3>1. i \in 1 .. Size + 1 /\ i \in Nat /\ Size \in Nat
        BY <2>2, SizeRange DEF RingInv
      <3>2. CASE i = 1
        BY <1>2, <2>4, <2>5, <3>1, <3>2
      <3>3. CASE i # 1
        <4>1. Index(i)' = i - 2 /\ i - 2 \in 0 .. cap - 1 /\ (i - 2) + 1 = i - 1
          BY <2>4, <3>1, <3>3
        <4>2. buffer'[i - 2] = buffer[Index(i - 1)]
          BY <2>5, <4>1
        <4>3. (<<m>> \o Contents)[i] = buffer[Index(i - 1)]
          BY <1>2, <3>1, <3>3
        <4> QED BY <4>1, <4>2, <4>3
      <3> QED BY <3>2, <3>3
    <2>7. RingInv'
      <3>1. TypeOK'
        BY <2>1, <2>3, SizeRange DEF RingInv, TypeOK, Slots
      <3>2. Filled'
        BY <1>2, <2>2, <2>6 DEF Filled
      <3> QED BY <3>1, <3>2 DEF RingInv
    <2> QED BY <1>2, <2>2, <2>6, <2>7, ContentsIs
  <1>4. CASE before # tail
    <2>1. buffer' = [buffer EXCEPT ![before] = m] /\ head' = before /\ UNCHANGED <<cap, tail>>
      BY <1>4 DEF PushHead
    <2>2. Size' = Size + 1
      BY <1>4, <2>1, SizeRange DEF RingInv, Size
    <2>3. \A i \in 1 .. Size + 1 :
             /\ Index(i)' = IF i = 1 THEN before ELSE Index(i - 1)
             /\ i # 1 => Index(i - 1) # before
      BY <1>4, <2>1, SizeRange DEF RingInv, Size, Index
    <2>4. \A i \in 1 .. Size' : buffer'[Index(i)'] = (<<m>> \o Contents)[i]
      BY <1>1, <1>2, <2>1, <2>2, <2>3, SizeRange DEF RingInv, Slots
    <2>5. RingInv'
      <3>1. TypeOK'
        BY <1>1, <2>1, SizeRange DEF RingInv, TypeOK, Slots
      <3>2. Filled'
        BY <1>2, <2>2, <2>4 DEF Filled
      <3> QED BY <3>1, <3>2 DEF RingInv
    <2> QED BY <1>2, <2>2, <2>4, <2>5, ContentsIs
  <1> QED BY <1>3, <1>4

-----------------------------------------------------------------------------
LEMMA InitRing == Init => RingInv /\ Abstract!Empty
  <1> SUFFICES ASSUME Init PROVE RingInv /\ Abstract!Empty
    OBVIOUS
  <1>1. RingInv /\ Size = 0
    BY QueueAssumption DEF Init, RingInv, TypeOK, Filled, Size
  <1>2. Contents = <<>>
    BY <1>1, ContentsSeq
  <1> QED BY <1>1, <1>2 DEF Init, Abstract!Empty

LEMMA StepRing ==
    RingInv /\ [Next]_vars => RingInv' /\ [Abstract!Next]_(Abstract!vars)
  <1> SUFFICES ASSUME RingInv, [Next]_vars
               PROVE  RingInv' /\ [Abstract!Next]_(Abstract!vars)
    OBVIOUS
  <1>1. CASE Pop
    BY <1>1, PopEffect DEF Abstract!Next
  <1>2. ASSUME NEW m \in Message, PushTail(m), result' = "none"
        PROVE  RingInv' /\ Abstract!PushTail
    BY <1>2, PushTailEffect DEF Abstract!PushTail
  <1>3. ASSUME NEW m \in Message, PushHead(m), result' = "none"
        PROVE  RingInv' /\ Abstract!PushHead
    BY <1>3, PushHeadEffect DEF Abstract!PushHead
  <1>4. CASE UNCHANGED vars
    BY <1>4 DEF vars, RingInv, TypeOK, Filled, Size, Index, Contents, Abstract!vars
  <1> QED BY <1>1, <1>2, <1>3, <1>4 DEF Next, Push, Abstract!Next

(* The ring of a message queue always has a free slot, its positions are   *)
(* in range and no pop returns what malloc left in it, at every capacity   *)
(* that skynet_mq_push, _pushhead and skynet_mq_pop can produce.           *)
THEOREM RingTypeCorrect == Spec => []TypeOK
  <1>1. RingInv => TypeOK
    BY DEF RingInv
  <1> QED BY InitRing, StepRing, <1>1, PTL DEF Spec

(* Through wrap-around and expand_queue the ring implements a sequence:    *)
(* what skynet_mq_push and _pushhead put in is what skynet_mq_pop returns, *)
(* in order.                                                               *)
THEOREM RingIsDeque == Spec => ImplementsDeque
  <1> QED BY InitRing, StepRing, PTL DEF Spec, ImplementsDeque, Abstract!Deque

-----------------------------------------------------------------------------
(* The modules and the environment (Modules).  A thread that launches a    *)
(* service takes one step of skynet_module_query at a time.                *)
LEMMA LaunchKeeps ==
    ASSUME NodeAssumption, Loading!ModulesInv, NEW w \in Loader, NEW m \in ModuleName, Loading!Launch(w, m)
    PROVE  Loading!ModulesInv'
  <1>0. /\ MaxModule \in Nat /\ Void \notin Loader /\ Void \notin Nat
        /\ loader \in [Loader -> Loading!LoaderState] /\ loader[w] \in Loading!LoaderState
    BY DEF NodeAssumption, Loading!ModulesAssumption, Loading!ModulesInv, Loading!ModulesTypeOK
  <1>00. loader[w].at # "idle" => loader[w].name \in ModuleName
    BY DEF Loading!ModulesInv, Loading!ModulesTypeOK
  <1>02. loader[w].i \in Nat /\ (loader[w].result \in Nat \/ loader[w].result = Void)
    BY <1>0 DEF Loading!LoaderState
  <1>01. /\ count \in Nat /\ count <= MaxModule
         /\ table \in [0..MaxModule - 1 -> [name : ModuleName \cup {Void}, symbols : BOOLEAN]]
    BY <1>0 DEF Loading!ModulesInv, Loading!ModulesTypeOK
  <1>1. /\ loader[w].at = "idle"
        /\ UNCHANGED <<count, table, lock, opened, wasFull>>
        /\ UNCHANGED <<env, read>>
    BY <1>0, <1>01 DEF Loading!Launch, Loading!At
  <1>2. /\ \A u \in Loader : u # w => loader'[u] = loader[u]
        /\ loader'[w].at = "look" /\ loader'[w].name = m
        /\ loader'[w].i = 0 /\ loader'[w].result = Void
    BY <1>0, <1>01, <1>02, <1>1 DEF Loading!Launch, Loading!Goes, Loading!Idle, Loading!LoaderState
  <1>3. loader' \in [Loader -> Loading!LoaderState]
    BY <1>0, <1>00, <1>01, <1>02, <1>1 DEF Loading!Launch, Loading!Goes, Loading!Idle, Loading!LoaderState, Loading!Within
  <1>4. Loading!ModulesTypeOK'
    BY <1>0, <1>00, <1>01, <1>02, <1>1, <1>2, <1>3 DEF Loading!ModulesInv, Loading!ModulesTypeOK, Loading!Searched, Loading!SearchedBy, Loading!LoaderState, Loading!Within, Loading!Searched
  <1>5. Loading!Locked'
    BY <1>0, <1>00, <1>01, <1>02, <1>1, <1>2 DEF Loading!ModulesInv, Loading!ModulesTypeOK, Loading!Locked, Loading!SearchedBy, Loading!LoaderState, Loading!Within
  <1>6. Loading!Complete'
    BY <1>0, <1>00, <1>01, <1>02, <1>1, <1>2 DEF Loading!ModulesInv, Loading!ModulesTypeOK, Loading!Complete, Loading!Searched, Loading!SearchedBy, Loading!LoaderState, Loading!Within
  <1>7. Loading!Searched'
    <2> SUFFICES ASSUME NEW u \in Loader PROVE Loading!SearchedBy(u)'
      BY DEF Loading!Searched
    <2>1. Loading!SearchedBy(u) /\ Loading!SearchedBy(w) /\ loader[u] \in Loading!LoaderState
      BY <1>0 DEF Loading!ModulesInv, Loading!Found, Loading!Searched
    <2>2. CASE u = w
      BY <1>0, <1>00, <1>01, <1>02, <1>1, <1>2, <2>1, <2>2 DEF Loading!SearchedBy
    <2>3. CASE u # w
      <3>1. loader'[u] = loader[u]
        BY <1>1, <1>2, <2>3, <1>0 DEF Loading!ModulesInv, Loading!Locked, Loading!Within
      <3> QED BY <1>0, <1>01, <1>1, <3>1, <2>1 DEF Loading!SearchedBy, Loading!SearchedBy, Loading!Within
    <2> QED BY <2>2, <2>3
  <1>8. Loading!Found'
    <2> SUFFICES ASSUME NEW u \in Loader PROVE Loading!FoundBy(u)'
      BY DEF Loading!Found
    <2>1. Loading!FoundBy(u) /\ Loading!SearchedBy(w) /\ loader[u] \in Loading!LoaderState
      BY <1>0 DEF Loading!ModulesInv, Loading!Found, Loading!Searched
    <2>2. CASE u = w
      BY <1>0, <1>00, <1>01, <1>02, <1>1, <1>2, <2>1, <2>2 DEF Loading!FoundBy, Loading!SearchedBy
    <2>3. CASE u # w
      <3>1. loader'[u] = loader[u]
        BY <1>1, <1>2, <2>3, <1>0 DEF Loading!ModulesInv, Loading!Locked, Loading!Within
      <3> QED BY <1>0, <1>01, <1>1, <3>1, <2>1 DEF Loading!FoundBy, Loading!SearchedBy, Loading!Within
    <2> QED BY <2>2, <2>3
  <1>9. Loading!OpenedOnce'
    <2>1. \A u \in Loader : loader[u].at \in {"symbols", "count"} => loader'[u].at = loader[u].at /\ loader'[u].name = loader[u].name
      BY <1>0, <1>1, <1>2
    <2> QED BY <2>1, <1>1 DEF Loading!ModulesInv, Loading!OpenedOnce
  <1>10. Loading!ReadStays'
    BY <1>1 DEF Loading!ModulesInv, Loading!ReadStays
  <1> QED BY <1>4, <1>5, <1>6, <1>7, <1>8, <1>9, <1>10 DEF Loading!ModulesInv

LEMMA LookKeeps ==
    ASSUME NodeAssumption, Loading!ModulesInv, NEW w \in Loader, Loading!Look(w, "look", "create", "lock")
    PROVE  Loading!ModulesInv'
  <1>0. /\ MaxModule \in Nat /\ Void \notin Loader /\ Void \notin Nat
        /\ loader \in [Loader -> Loading!LoaderState] /\ loader[w] \in Loading!LoaderState
    BY DEF NodeAssumption, Loading!ModulesAssumption, Loading!ModulesInv, Loading!ModulesTypeOK
  <1>00. loader[w].at # "idle" => loader[w].name \in ModuleName
    BY DEF Loading!ModulesInv, Loading!ModulesTypeOK
  <1>02. loader[w].i \in Nat /\ (loader[w].result \in Nat \/ loader[w].result = Void)
    BY <1>0 DEF Loading!LoaderState
  <1>01. /\ count \in Nat /\ count <= MaxModule
         /\ table \in [0..MaxModule - 1 -> [name : ModuleName \cup {Void}, symbols : BOOLEAN]]
    BY <1>0 DEF Loading!ModulesInv, Loading!ModulesTypeOK
  <1>1. CASE loader[w].i >= count
    <2>1. /\ loader[w].at = "look"
          /\ UNCHANGED <<count, table, lock, opened, wasFull>>
          /\ UNCHANGED <<env, read>>
      BY <1>1, <1>0, <1>01 DEF Loading!Look, Loading!At
    <2>2. /\ \A u \in Loader : u # w => loader'[u] = loader[u]
          /\ loader'[w].at = "lock" /\ loader'[w].name = loader[w].name
          /\ loader'[w].i = 0 /\ loader'[w].result = loader[w].result
      BY <1>1, <1>0, <1>01, <1>02, <2>1 DEF Loading!Look, Loading!Goes, Loading!Idle, Loading!LoaderState
    <2>3. loader' \in [Loader -> Loading!LoaderState]
      <3>1. loader' = [loader EXCEPT ![w].at = "lock", ![w].i = 0]
        BY <1>1, <1>0, <1>01, <1>02, <2>1 DEF Loading!Look, Loading!Goes
      <3>2. [loader[w] EXCEPT !.at = "lock", !.i = 0] \in Loading!LoaderState
        BY <1>0, <1>01, <1>02 DEF Loading!LoaderState, Loading!Within
      <3> QED BY <3>1, <3>2, <1>0
    <2>4. Loading!ModulesTypeOK'
      BY <1>1, <1>0, <1>00, <1>01, <1>02, <2>1, <2>2, <2>3 DEF Loading!ModulesInv, Loading!ModulesTypeOK, Loading!Searched, Loading!SearchedBy, Loading!LoaderState, Loading!Within, Loading!Searched
    <2>5. Loading!Locked'
      BY <1>1, <1>0, <1>00, <1>01, <1>02, <2>1, <2>2 DEF Loading!ModulesInv, Loading!ModulesTypeOK, Loading!Locked, Loading!SearchedBy, Loading!LoaderState, Loading!Within
    <2>6. Loading!Complete'
      BY <1>1, <1>0, <1>00, <1>01, <1>02, <2>1, <2>2 DEF Loading!ModulesInv, Loading!ModulesTypeOK, Loading!Complete, Loading!Searched, Loading!SearchedBy, Loading!LoaderState, Loading!Within
    <2>7. Loading!Searched'
      <3> SUFFICES ASSUME NEW u \in Loader PROVE Loading!SearchedBy(u)'
        BY DEF Loading!Searched
      <3>1. Loading!SearchedBy(u) /\ Loading!SearchedBy(w) /\ loader[u] \in Loading!LoaderState
        BY <1>0 DEF Loading!ModulesInv, Loading!Found, Loading!Searched
      <3>2. CASE u = w
        BY <1>1, <1>0, <1>00, <1>01, <1>02, <2>1, <2>2, <3>1, <3>2 DEF Loading!SearchedBy
      <3>3. CASE u # w
        <4>1. loader'[u] = loader[u]
          BY <2>1, <2>2, <3>3, <1>0 DEF Loading!ModulesInv, Loading!Locked, Loading!Within
        <4> QED BY <1>0, <1>01, <2>1, <4>1, <3>1 DEF Loading!SearchedBy, Loading!SearchedBy, Loading!Within
      <3> QED BY <3>2, <3>3
    <2>8. Loading!Found'
      <3> SUFFICES ASSUME NEW u \in Loader PROVE Loading!FoundBy(u)'
        BY DEF Loading!Found
      <3>1. Loading!FoundBy(u) /\ Loading!SearchedBy(w) /\ loader[u] \in Loading!LoaderState
        BY <1>0 DEF Loading!ModulesInv, Loading!Found, Loading!Searched
      <3>2. CASE u = w
        BY <1>1, <1>0, <1>00, <1>01, <1>02, <2>1, <2>2, <3>1, <3>2 DEF Loading!FoundBy, Loading!SearchedBy
      <3>3. CASE u # w
        <4>1. loader'[u] = loader[u]
          BY <2>1, <2>2, <3>3, <1>0 DEF Loading!ModulesInv, Loading!Locked, Loading!Within
        <4> QED BY <1>0, <1>01, <2>1, <4>1, <3>1 DEF Loading!FoundBy, Loading!SearchedBy, Loading!Within
      <3> QED BY <3>2, <3>3
    <2>9. Loading!OpenedOnce'
      <3>1. \A u \in Loader : loader[u].at \in {"symbols", "count"} => loader'[u].at = loader[u].at /\ loader'[u].name = loader[u].name
        BY <1>0, <2>1, <2>2
      <3> QED BY <3>1, <2>1 DEF Loading!ModulesInv, Loading!OpenedOnce
    <2>10. Loading!ReadStays'
      BY <2>1 DEF Loading!ModulesInv, Loading!ReadStays
    <2> QED BY <2>4, <2>5, <2>6, <2>7, <2>8, <2>9, <2>10 DEF Loading!ModulesInv
  <1>2. CASE loader[w].i < count /\ table[loader[w].i].name = loader[w].name
    <2>1. /\ loader[w].at = "look"
          /\ UNCHANGED <<count, table, lock, opened, wasFull>>
          /\ UNCHANGED <<env, read>>
      BY <1>2, <1>0, <1>01 DEF Loading!Look, Loading!At
    <2>2. /\ \A u \in Loader : u # w => loader'[u] = loader[u]
          /\ loader'[w].at = "create" /\ loader'[w].name = loader[w].name
          /\ loader'[w].i = loader[w].i /\ loader'[w].result = loader[w].i
      BY <1>2, <1>0, <1>01, <1>02, <2>1 DEF Loading!Look, Loading!Goes, Loading!Idle, Loading!LoaderState
    <2>3. loader' \in [Loader -> Loading!LoaderState]
      <3>1. loader' = [loader EXCEPT ![w].at = "create", ![w].result = loader[w].i]
        BY <1>2, <1>0, <1>01, <1>02, <2>1 DEF Loading!Look, Loading!Goes
      <3>2. [loader[w] EXCEPT !.at = "create", !.result = loader[w].i] \in Loading!LoaderState
        BY <1>0, <1>01, <1>02 DEF Loading!LoaderState, Loading!Within
      <3> QED BY <3>1, <3>2, <1>0
    <2>4. Loading!ModulesTypeOK'
      BY <1>2, <1>0, <1>00, <1>01, <1>02, <2>1, <2>2, <2>3 DEF Loading!ModulesInv, Loading!ModulesTypeOK, Loading!Searched, Loading!SearchedBy, Loading!LoaderState, Loading!Within, Loading!Searched
    <2>5. Loading!Locked'
      BY <1>2, <1>0, <1>00, <1>01, <1>02, <2>1, <2>2 DEF Loading!ModulesInv, Loading!ModulesTypeOK, Loading!Locked, Loading!SearchedBy, Loading!LoaderState, Loading!Within
    <2>6. Loading!Complete'
      BY <1>2, <1>0, <1>00, <1>01, <1>02, <2>1, <2>2 DEF Loading!ModulesInv, Loading!ModulesTypeOK, Loading!Complete, Loading!Searched, Loading!SearchedBy, Loading!LoaderState, Loading!Within
    <2>7. Loading!Searched'
      <3> SUFFICES ASSUME NEW u \in Loader PROVE Loading!SearchedBy(u)'
        BY DEF Loading!Searched
      <3>1. Loading!SearchedBy(u) /\ Loading!SearchedBy(w) /\ loader[u] \in Loading!LoaderState
        BY <1>0 DEF Loading!ModulesInv, Loading!Found, Loading!Searched
      <3>2. CASE u = w
        BY <1>2, <1>0, <1>00, <1>01, <1>02, <2>1, <2>2, <3>1, <3>2 DEF Loading!SearchedBy
      <3>3. CASE u # w
        <4>1. loader'[u] = loader[u]
          BY <2>1, <2>2, <3>3, <1>0 DEF Loading!ModulesInv, Loading!Locked, Loading!Within
        <4> QED BY <1>0, <1>01, <2>1, <4>1, <3>1 DEF Loading!SearchedBy, Loading!SearchedBy, Loading!Within
      <3> QED BY <3>2, <3>3
    <2>8. Loading!Found'
      <3> SUFFICES ASSUME NEW u \in Loader PROVE Loading!FoundBy(u)'
        BY DEF Loading!Found
      <3>1. Loading!FoundBy(u) /\ Loading!SearchedBy(w) /\ loader[u] \in Loading!LoaderState
        BY <1>0 DEF Loading!ModulesInv, Loading!Found, Loading!Searched
      <3>2. CASE u = w
        BY <1>2, <1>0, <1>00, <1>01, <1>02, <2>1, <2>2, <3>1, <3>2 DEF Loading!FoundBy, Loading!SearchedBy
      <3>3. CASE u # w
        <4>1. loader'[u] = loader[u]
          BY <2>1, <2>2, <3>3, <1>0 DEF Loading!ModulesInv, Loading!Locked, Loading!Within
        <4> QED BY <1>0, <1>01, <2>1, <4>1, <3>1 DEF Loading!FoundBy, Loading!SearchedBy, Loading!Within
      <3> QED BY <3>2, <3>3
    <2>9. Loading!OpenedOnce'
      <3>1. \A u \in Loader : loader[u].at \in {"symbols", "count"} => loader'[u].at = loader[u].at /\ loader'[u].name = loader[u].name
        BY <1>0, <2>1, <2>2
      <3> QED BY <3>1, <2>1 DEF Loading!ModulesInv, Loading!OpenedOnce
    <2>10. Loading!ReadStays'
      BY <2>1 DEF Loading!ModulesInv, Loading!ReadStays
    <2> QED BY <2>4, <2>5, <2>6, <2>7, <2>8, <2>9, <2>10 DEF Loading!ModulesInv
  <1>3. CASE loader[w].i < count /\ table[loader[w].i].name # loader[w].name
    <2>1. /\ loader[w].at = "look"
          /\ UNCHANGED <<count, table, lock, opened, wasFull>>
          /\ UNCHANGED <<env, read>>
      BY <1>3, <1>0, <1>01 DEF Loading!Look, Loading!At
    <2>2. /\ \A u \in Loader : u # w => loader'[u] = loader[u]
          /\ loader'[w].at = "look" /\ loader'[w].name = loader[w].name
          /\ loader'[w].i = loader[w].i + 1 /\ loader'[w].result = loader[w].result
      BY <1>3, <1>0, <1>01, <1>02, <2>1 DEF Loading!Look, Loading!Goes, Loading!Idle, Loading!LoaderState
    <2>3. loader' \in [Loader -> Loading!LoaderState]
      <3>1. loader' = [loader EXCEPT ![w].i = loader[w].i + 1]
        BY <1>3, <1>0, <1>01, <1>02, <2>1 DEF Loading!Look, Loading!Goes
      <3>2. [loader[w] EXCEPT !.i = loader[w].i + 1] \in Loading!LoaderState
        BY <1>0, <1>01, <1>02 DEF Loading!LoaderState, Loading!Within
      <3> QED BY <3>1, <3>2, <1>0
    <2>4. Loading!ModulesTypeOK'
      BY <1>3, <1>0, <1>00, <1>01, <1>02, <2>1, <2>2, <2>3 DEF Loading!ModulesInv, Loading!ModulesTypeOK, Loading!Searched, Loading!SearchedBy, Loading!LoaderState, Loading!Within, Loading!Searched
    <2>5. Loading!Locked'
      BY <1>3, <1>0, <1>00, <1>01, <1>02, <2>1, <2>2 DEF Loading!ModulesInv, Loading!ModulesTypeOK, Loading!Locked, Loading!SearchedBy, Loading!LoaderState, Loading!Within
    <2>6. Loading!Complete'
      BY <1>3, <1>0, <1>00, <1>01, <1>02, <2>1, <2>2 DEF Loading!ModulesInv, Loading!ModulesTypeOK, Loading!Complete, Loading!Searched, Loading!SearchedBy, Loading!LoaderState, Loading!Within
    <2>7. Loading!Searched'
      <3> SUFFICES ASSUME NEW u \in Loader PROVE Loading!SearchedBy(u)'
        BY DEF Loading!Searched
      <3>1. Loading!SearchedBy(u) /\ Loading!SearchedBy(w) /\ loader[u] \in Loading!LoaderState
        BY <1>0 DEF Loading!ModulesInv, Loading!Found, Loading!Searched
      <3>2. CASE u = w
        BY <1>3, <1>0, <1>00, <1>01, <1>02, <2>1, <2>2, <3>1, <3>2 DEF Loading!SearchedBy
      <3>3. CASE u # w
        <4>1. loader'[u] = loader[u]
          BY <2>1, <2>2, <3>3, <1>0 DEF Loading!ModulesInv, Loading!Locked, Loading!Within
        <4> QED BY <1>0, <1>01, <2>1, <4>1, <3>1 DEF Loading!SearchedBy, Loading!SearchedBy, Loading!Within
      <3> QED BY <3>2, <3>3
    <2>8. Loading!Found'
      <3> SUFFICES ASSUME NEW u \in Loader PROVE Loading!FoundBy(u)'
        BY DEF Loading!Found
      <3>1. Loading!FoundBy(u) /\ Loading!SearchedBy(w) /\ loader[u] \in Loading!LoaderState
        BY <1>0 DEF Loading!ModulesInv, Loading!Found, Loading!Searched
      <3>2. CASE u = w
        BY <1>3, <1>0, <1>00, <1>01, <1>02, <2>1, <2>2, <3>1, <3>2 DEF Loading!FoundBy, Loading!SearchedBy
      <3>3. CASE u # w
        <4>1. loader'[u] = loader[u]
          BY <2>1, <2>2, <3>3, <1>0 DEF Loading!ModulesInv, Loading!Locked, Loading!Within
        <4> QED BY <1>0, <1>01, <2>1, <4>1, <3>1 DEF Loading!FoundBy, Loading!SearchedBy, Loading!Within
      <3> QED BY <3>2, <3>3
    <2>9. Loading!OpenedOnce'
      <3>1. \A u \in Loader : loader[u].at \in {"symbols", "count"} => loader'[u].at = loader[u].at /\ loader'[u].name = loader[u].name
        BY <1>0, <2>1, <2>2
      <3> QED BY <3>1, <2>1 DEF Loading!ModulesInv, Loading!OpenedOnce
    <2>10. Loading!ReadStays'
      BY <2>1 DEF Loading!ModulesInv, Loading!ReadStays
    <2> QED BY <2>4, <2>5, <2>6, <2>7, <2>8, <2>9, <2>10 DEF Loading!ModulesInv
  <1> QED BY <1>0, <1>1, <1>2, <1>3 DEF Loading!ModulesInv, Loading!ModulesTypeOK, Loading!LoaderState

LEMMA LockKeeps ==
    ASSUME NodeAssumption, Loading!ModulesInv, NEW w \in Loader, Loading!Lock(w)
    PROVE  Loading!ModulesInv'
  <1>0. /\ MaxModule \in Nat /\ Void \notin Loader /\ Void \notin Nat
        /\ loader \in [Loader -> Loading!LoaderState] /\ loader[w] \in Loading!LoaderState
    BY DEF NodeAssumption, Loading!ModulesAssumption, Loading!ModulesInv, Loading!ModulesTypeOK
  <1>00. loader[w].at # "idle" => loader[w].name \in ModuleName
    BY DEF Loading!ModulesInv, Loading!ModulesTypeOK
  <1>02. loader[w].i \in Nat /\ (loader[w].result \in Nat \/ loader[w].result = Void)
    BY <1>0 DEF Loading!LoaderState
  <1>01. /\ count \in Nat /\ count <= MaxModule
         /\ table \in [0..MaxModule - 1 -> [name : ModuleName \cup {Void}, symbols : BOOLEAN]]
    BY <1>0 DEF Loading!ModulesInv, Loading!ModulesTypeOK
  <1>1. /\ loader[w].at = "lock"
        /\ lock = Void /\ lock' = w /\ UNCHANGED <<count, table, opened, wasFull>>
        /\ UNCHANGED <<env, read>>
    BY <1>0, <1>01 DEF Loading!Lock, Loading!At
  <1>2. /\ \A u \in Loader : u # w => loader'[u] = loader[u]
        /\ loader'[w].at = "check" /\ loader'[w].name = loader[w].name
        /\ loader'[w].i = 0 /\ loader'[w].result = loader[w].result
    BY <1>0, <1>01, <1>02, <1>1 DEF Loading!Lock, Loading!Goes, Loading!Idle, Loading!LoaderState
  <1>3. loader' \in [Loader -> Loading!LoaderState]
    BY <1>0, <1>00, <1>01, <1>02, <1>1 DEF Loading!Lock, Loading!Goes, Loading!Idle, Loading!LoaderState, Loading!Within
  <1>4. Loading!ModulesTypeOK'
    BY <1>0, <1>00, <1>01, <1>02, <1>1, <1>2, <1>3 DEF Loading!ModulesInv, Loading!ModulesTypeOK, Loading!Searched, Loading!SearchedBy, Loading!LoaderState, Loading!Within, Loading!Searched
  <1>5. Loading!Locked'
    BY <1>0, <1>00, <1>01, <1>02, <1>1, <1>2 DEF Loading!ModulesInv, Loading!ModulesTypeOK, Loading!Locked, Loading!SearchedBy, Loading!LoaderState, Loading!Within
  <1>6. Loading!Complete'
    BY <1>0, <1>00, <1>01, <1>02, <1>1, <1>2 DEF Loading!ModulesInv, Loading!ModulesTypeOK, Loading!Complete, Loading!Searched, Loading!SearchedBy, Loading!LoaderState, Loading!Within
  <1>7. Loading!Searched'
    <2> SUFFICES ASSUME NEW u \in Loader PROVE Loading!SearchedBy(u)'
      BY DEF Loading!Searched
    <2>1. Loading!SearchedBy(u) /\ Loading!SearchedBy(w) /\ loader[u] \in Loading!LoaderState
      BY <1>0 DEF Loading!ModulesInv, Loading!Found, Loading!Searched
    <2>2. CASE u = w
      BY <1>0, <1>00, <1>01, <1>02, <1>1, <1>2, <2>1, <2>2 DEF Loading!SearchedBy
    <2>3. CASE u # w
      <3>1. loader'[u] = loader[u]
        BY <1>1, <1>2, <2>3, <1>0 DEF Loading!ModulesInv, Loading!Locked, Loading!Within
      <3> QED BY <1>0, <1>01, <1>1, <3>1, <2>1 DEF Loading!SearchedBy, Loading!SearchedBy, Loading!Within
    <2> QED BY <2>2, <2>3
  <1>8. Loading!Found'
    <2> SUFFICES ASSUME NEW u \in Loader PROVE Loading!FoundBy(u)'
      BY DEF Loading!Found
    <2>1. Loading!FoundBy(u) /\ Loading!SearchedBy(w) /\ loader[u] \in Loading!LoaderState
      BY <1>0 DEF Loading!ModulesInv, Loading!Found, Loading!Searched
    <2>2. CASE u = w
      BY <1>0, <1>00, <1>01, <1>02, <1>1, <1>2, <2>1, <2>2 DEF Loading!FoundBy, Loading!SearchedBy
    <2>3. CASE u # w
      <3>1. loader'[u] = loader[u]
        BY <1>1, <1>2, <2>3, <1>0 DEF Loading!ModulesInv, Loading!Locked, Loading!Within
      <3> QED BY <1>0, <1>01, <1>1, <3>1, <2>1 DEF Loading!FoundBy, Loading!SearchedBy, Loading!Within
    <2> QED BY <2>2, <2>3
  <1>9. Loading!OpenedOnce'
    <2>1. \A u \in Loader : loader[u].at \in {"symbols", "count"} => loader'[u].at = loader[u].at /\ loader'[u].name = loader[u].name
      BY <1>0, <1>1, <1>2
    <2> QED BY <2>1, <1>1 DEF Loading!ModulesInv, Loading!OpenedOnce
  <1>10. Loading!ReadStays'
    BY <1>1 DEF Loading!ModulesInv, Loading!ReadStays
  <1> QED BY <1>4, <1>5, <1>6, <1>7, <1>8, <1>9, <1>10 DEF Loading!ModulesInv

LEMMA SearchKeeps ==
    ASSUME NodeAssumption, Loading!ModulesInv, NEW w \in Loader, Loading!Look(w, "check", "unlock", "open")
    PROVE  Loading!ModulesInv'
  <1>0. /\ MaxModule \in Nat /\ Void \notin Loader /\ Void \notin Nat
        /\ loader \in [Loader -> Loading!LoaderState] /\ loader[w] \in Loading!LoaderState
    BY DEF NodeAssumption, Loading!ModulesAssumption, Loading!ModulesInv, Loading!ModulesTypeOK
  <1>00. loader[w].at # "idle" => loader[w].name \in ModuleName
    BY DEF Loading!ModulesInv, Loading!ModulesTypeOK
  <1>02. loader[w].i \in Nat /\ (loader[w].result \in Nat \/ loader[w].result = Void)
    BY <1>0 DEF Loading!LoaderState
  <1>01. /\ count \in Nat /\ count <= MaxModule
         /\ table \in [0..MaxModule - 1 -> [name : ModuleName \cup {Void}, symbols : BOOLEAN]]
    BY <1>0 DEF Loading!ModulesInv, Loading!ModulesTypeOK
  <1>1. CASE loader[w].i >= count
    <2>1. /\ loader[w].at = "check"
          /\ UNCHANGED <<count, table, lock, opened, wasFull>>
          /\ UNCHANGED <<env, read>>
      BY <1>1, <1>0, <1>01 DEF Loading!Look, Loading!At
    <2>2. /\ \A u \in Loader : u # w => loader'[u] = loader[u]
          /\ loader'[w].at = "open" /\ loader'[w].name = loader[w].name
          /\ loader'[w].i = 0 /\ loader'[w].result = loader[w].result
      BY <1>1, <1>0, <1>01, <1>02, <2>1 DEF Loading!Look, Loading!Goes, Loading!Idle, Loading!LoaderState
    <2>3. loader' \in [Loader -> Loading!LoaderState]
      <3>1. loader' = [loader EXCEPT ![w].at = "open", ![w].i = 0]
        BY <1>1, <1>0, <1>01, <1>02, <2>1 DEF Loading!Look, Loading!Goes
      <3>2. [loader[w] EXCEPT !.at = "open", !.i = 0] \in Loading!LoaderState
        BY <1>0, <1>01, <1>02 DEF Loading!LoaderState, Loading!Within
      <3> QED BY <3>1, <3>2, <1>0
    <2>4. Loading!ModulesTypeOK'
      BY <1>1, <1>0, <1>00, <1>01, <1>02, <2>1, <2>2, <2>3 DEF Loading!ModulesInv, Loading!ModulesTypeOK, Loading!Searched, Loading!SearchedBy, Loading!LoaderState, Loading!Within, Loading!Searched
    <2>5. Loading!Locked'
      BY <1>1, <1>0, <1>00, <1>01, <1>02, <2>1, <2>2 DEF Loading!ModulesInv, Loading!ModulesTypeOK, Loading!Locked, Loading!SearchedBy, Loading!LoaderState, Loading!Within
    <2>6. Loading!Complete'
      BY <1>1, <1>0, <1>00, <1>01, <1>02, <2>1, <2>2 DEF Loading!ModulesInv, Loading!ModulesTypeOK, Loading!Complete, Loading!Searched, Loading!SearchedBy, Loading!LoaderState, Loading!Within
    <2>7. Loading!Searched'
      <3> SUFFICES ASSUME NEW u \in Loader PROVE Loading!SearchedBy(u)'
        BY DEF Loading!Searched
      <3>1. Loading!SearchedBy(u) /\ Loading!SearchedBy(w) /\ loader[u] \in Loading!LoaderState
        BY <1>0 DEF Loading!ModulesInv, Loading!Found, Loading!Searched
      <3>2. CASE u = w
        BY <1>1, <1>0, <1>00, <1>01, <1>02, <2>1, <2>2, <3>1, <3>2 DEF Loading!SearchedBy
      <3>3. CASE u # w
        <4>1. loader'[u] = loader[u] /\ loader[u].at \notin Loading!Within
          BY <2>1, <2>2, <3>3, <1>0 DEF Loading!ModulesInv, Loading!Locked, Loading!Within
        <4> QED BY <1>0, <1>01, <2>1, <4>1, <3>1 DEF Loading!SearchedBy, Loading!SearchedBy, Loading!Within
      <3> QED BY <3>2, <3>3
    <2>8. Loading!Found'
      <3> SUFFICES ASSUME NEW u \in Loader PROVE Loading!FoundBy(u)'
        BY DEF Loading!Found
      <3>1. Loading!FoundBy(u) /\ Loading!SearchedBy(w) /\ loader[u] \in Loading!LoaderState
        BY <1>0 DEF Loading!ModulesInv, Loading!Found, Loading!Searched
      <3>2. CASE u = w
        BY <1>1, <1>0, <1>00, <1>01, <1>02, <2>1, <2>2, <3>1, <3>2 DEF Loading!FoundBy, Loading!SearchedBy
      <3>3. CASE u # w
        <4>1. loader'[u] = loader[u] /\ loader[u].at \notin Loading!Within
          BY <2>1, <2>2, <3>3, <1>0 DEF Loading!ModulesInv, Loading!Locked, Loading!Within
        <4> QED BY <1>0, <1>01, <2>1, <4>1, <3>1 DEF Loading!FoundBy, Loading!SearchedBy, Loading!Within
      <3> QED BY <3>2, <3>3
    <2>9. Loading!OpenedOnce'
      <3>1. \A u \in Loader : loader[u].at \in {"symbols", "count"} => loader'[u].at = loader[u].at /\ loader'[u].name = loader[u].name
        BY <1>0, <2>1, <2>2
      <3> QED BY <3>1, <2>1 DEF Loading!ModulesInv, Loading!OpenedOnce
    <2>10. Loading!ReadStays'
      BY <2>1 DEF Loading!ModulesInv, Loading!ReadStays
    <2> QED BY <2>4, <2>5, <2>6, <2>7, <2>8, <2>9, <2>10 DEF Loading!ModulesInv
  <1>2. CASE loader[w].i < count /\ table[loader[w].i].name = loader[w].name
    <2>1. /\ loader[w].at = "check"
          /\ UNCHANGED <<count, table, lock, opened, wasFull>>
          /\ UNCHANGED <<env, read>>
      BY <1>2, <1>0, <1>01 DEF Loading!Look, Loading!At
    <2>2. /\ \A u \in Loader : u # w => loader'[u] = loader[u]
          /\ loader'[w].at = "unlock" /\ loader'[w].name = loader[w].name
          /\ loader'[w].i = loader[w].i /\ loader'[w].result = loader[w].i
      BY <1>2, <1>0, <1>01, <1>02, <2>1 DEF Loading!Look, Loading!Goes, Loading!Idle, Loading!LoaderState
    <2>3. loader' \in [Loader -> Loading!LoaderState]
      <3>1. loader' = [loader EXCEPT ![w].at = "unlock", ![w].result = loader[w].i]
        BY <1>2, <1>0, <1>01, <1>02, <2>1 DEF Loading!Look, Loading!Goes
      <3>2. [loader[w] EXCEPT !.at = "unlock", !.result = loader[w].i] \in Loading!LoaderState
        BY <1>0, <1>01, <1>02 DEF Loading!LoaderState, Loading!Within
      <3> QED BY <3>1, <3>2, <1>0
    <2>4. Loading!ModulesTypeOK'
      BY <1>2, <1>0, <1>00, <1>01, <1>02, <2>1, <2>2, <2>3 DEF Loading!ModulesInv, Loading!ModulesTypeOK, Loading!Searched, Loading!SearchedBy, Loading!LoaderState, Loading!Within, Loading!Searched
    <2>5. Loading!Locked'
      BY <1>2, <1>0, <1>00, <1>01, <1>02, <2>1, <2>2 DEF Loading!ModulesInv, Loading!ModulesTypeOK, Loading!Locked, Loading!SearchedBy, Loading!LoaderState, Loading!Within
    <2>6. Loading!Complete'
      BY <1>2, <1>0, <1>00, <1>01, <1>02, <2>1, <2>2 DEF Loading!ModulesInv, Loading!ModulesTypeOK, Loading!Complete, Loading!Searched, Loading!SearchedBy, Loading!LoaderState, Loading!Within
    <2>7. Loading!Searched'
      <3> SUFFICES ASSUME NEW u \in Loader PROVE Loading!SearchedBy(u)'
        BY DEF Loading!Searched
      <3>1. Loading!SearchedBy(u) /\ Loading!SearchedBy(w) /\ loader[u] \in Loading!LoaderState
        BY <1>0 DEF Loading!ModulesInv, Loading!Found, Loading!Searched
      <3>2. CASE u = w
        BY <1>2, <1>0, <1>00, <1>01, <1>02, <2>1, <2>2, <3>1, <3>2 DEF Loading!SearchedBy
      <3>3. CASE u # w
        <4>1. loader'[u] = loader[u] /\ loader[u].at \notin Loading!Within
          BY <2>1, <2>2, <3>3, <1>0 DEF Loading!ModulesInv, Loading!Locked, Loading!Within
        <4> QED BY <1>0, <1>01, <2>1, <4>1, <3>1 DEF Loading!SearchedBy, Loading!SearchedBy, Loading!Within
      <3> QED BY <3>2, <3>3
    <2>8. Loading!Found'
      <3> SUFFICES ASSUME NEW u \in Loader PROVE Loading!FoundBy(u)'
        BY DEF Loading!Found
      <3>1. Loading!FoundBy(u) /\ Loading!SearchedBy(w) /\ loader[u] \in Loading!LoaderState
        BY <1>0 DEF Loading!ModulesInv, Loading!Found, Loading!Searched
      <3>2. CASE u = w
        BY <1>2, <1>0, <1>00, <1>01, <1>02, <2>1, <2>2, <3>1, <3>2 DEF Loading!FoundBy, Loading!SearchedBy
      <3>3. CASE u # w
        <4>1. loader'[u] = loader[u] /\ loader[u].at \notin Loading!Within
          BY <2>1, <2>2, <3>3, <1>0 DEF Loading!ModulesInv, Loading!Locked, Loading!Within
        <4> QED BY <1>0, <1>01, <2>1, <4>1, <3>1 DEF Loading!FoundBy, Loading!SearchedBy, Loading!Within
      <3> QED BY <3>2, <3>3
    <2>9. Loading!OpenedOnce'
      <3>1. \A u \in Loader : loader[u].at \in {"symbols", "count"} => loader'[u].at = loader[u].at /\ loader'[u].name = loader[u].name
        BY <1>0, <2>1, <2>2
      <3> QED BY <3>1, <2>1 DEF Loading!ModulesInv, Loading!OpenedOnce
    <2>10. Loading!ReadStays'
      BY <2>1 DEF Loading!ModulesInv, Loading!ReadStays
    <2> QED BY <2>4, <2>5, <2>6, <2>7, <2>8, <2>9, <2>10 DEF Loading!ModulesInv
  <1>3. CASE loader[w].i < count /\ table[loader[w].i].name # loader[w].name
    <2>1. /\ loader[w].at = "check"
          /\ UNCHANGED <<count, table, lock, opened, wasFull>>
          /\ UNCHANGED <<env, read>>
      BY <1>3, <1>0, <1>01 DEF Loading!Look, Loading!At
    <2>2. /\ \A u \in Loader : u # w => loader'[u] = loader[u]
          /\ loader'[w].at = "check" /\ loader'[w].name = loader[w].name
          /\ loader'[w].i = loader[w].i + 1 /\ loader'[w].result = loader[w].result
      BY <1>3, <1>0, <1>01, <1>02, <2>1 DEF Loading!Look, Loading!Goes, Loading!Idle, Loading!LoaderState
    <2>3. loader' \in [Loader -> Loading!LoaderState]
      <3>1. loader' = [loader EXCEPT ![w].i = loader[w].i + 1]
        BY <1>3, <1>0, <1>01, <1>02, <2>1 DEF Loading!Look, Loading!Goes
      <3>2. [loader[w] EXCEPT !.i = loader[w].i + 1] \in Loading!LoaderState
        BY <1>0, <1>01, <1>02 DEF Loading!LoaderState, Loading!Within
      <3> QED BY <3>1, <3>2, <1>0
    <2>4. Loading!ModulesTypeOK'
      BY <1>3, <1>0, <1>00, <1>01, <1>02, <2>1, <2>2, <2>3 DEF Loading!ModulesInv, Loading!ModulesTypeOK, Loading!Searched, Loading!SearchedBy, Loading!LoaderState, Loading!Within, Loading!Searched
    <2>5. Loading!Locked'
      BY <1>3, <1>0, <1>00, <1>01, <1>02, <2>1, <2>2 DEF Loading!ModulesInv, Loading!ModulesTypeOK, Loading!Locked, Loading!SearchedBy, Loading!LoaderState, Loading!Within
    <2>6. Loading!Complete'
      BY <1>3, <1>0, <1>00, <1>01, <1>02, <2>1, <2>2 DEF Loading!ModulesInv, Loading!ModulesTypeOK, Loading!Complete, Loading!Searched, Loading!SearchedBy, Loading!LoaderState, Loading!Within
    <2>7. Loading!Searched'
      <3> SUFFICES ASSUME NEW u \in Loader PROVE Loading!SearchedBy(u)'
        BY DEF Loading!Searched
      <3>1. Loading!SearchedBy(u) /\ Loading!SearchedBy(w) /\ loader[u] \in Loading!LoaderState
        BY <1>0 DEF Loading!ModulesInv, Loading!Found, Loading!Searched
      <3>2. CASE u = w
        BY <1>3, <1>0, <1>00, <1>01, <1>02, <2>1, <2>2, <3>1, <3>2 DEF Loading!SearchedBy
      <3>3. CASE u # w
        <4>1. loader'[u] = loader[u] /\ loader[u].at \notin Loading!Within
          BY <2>1, <2>2, <3>3, <1>0 DEF Loading!ModulesInv, Loading!Locked, Loading!Within
        <4> QED BY <1>0, <1>01, <2>1, <4>1, <3>1 DEF Loading!SearchedBy, Loading!SearchedBy, Loading!Within
      <3> QED BY <3>2, <3>3
    <2>8. Loading!Found'
      <3> SUFFICES ASSUME NEW u \in Loader PROVE Loading!FoundBy(u)'
        BY DEF Loading!Found
      <3>1. Loading!FoundBy(u) /\ Loading!SearchedBy(w) /\ loader[u] \in Loading!LoaderState
        BY <1>0 DEF Loading!ModulesInv, Loading!Found, Loading!Searched
      <3>2. CASE u = w
        BY <1>3, <1>0, <1>00, <1>01, <1>02, <2>1, <2>2, <3>1, <3>2 DEF Loading!FoundBy, Loading!SearchedBy
      <3>3. CASE u # w
        <4>1. loader'[u] = loader[u] /\ loader[u].at \notin Loading!Within
          BY <2>1, <2>2, <3>3, <1>0 DEF Loading!ModulesInv, Loading!Locked, Loading!Within
        <4> QED BY <1>0, <1>01, <2>1, <4>1, <3>1 DEF Loading!FoundBy, Loading!SearchedBy, Loading!Within
      <3> QED BY <3>2, <3>3
    <2>9. Loading!OpenedOnce'
      <3>1. \A u \in Loader : loader[u].at \in {"symbols", "count"} => loader'[u].at = loader[u].at /\ loader'[u].name = loader[u].name
        BY <1>0, <2>1, <2>2
      <3> QED BY <3>1, <2>1 DEF Loading!ModulesInv, Loading!OpenedOnce
    <2>10. Loading!ReadStays'
      BY <2>1 DEF Loading!ModulesInv, Loading!ReadStays
    <2> QED BY <2>4, <2>5, <2>6, <2>7, <2>8, <2>9, <2>10 DEF Loading!ModulesInv
  <1> QED BY <1>0, <1>1, <1>2, <1>3 DEF Loading!ModulesInv, Loading!ModulesTypeOK, Loading!LoaderState

LEMMA TryOpenKeeps ==
    ASSUME NodeAssumption, Loading!ModulesInv, NEW w \in Loader, Loading!TryOpen(w)
    PROVE  Loading!ModulesInv'
  <1>0. /\ MaxModule \in Nat /\ Void \notin Loader /\ Void \notin Nat
        /\ loader \in [Loader -> Loading!LoaderState] /\ loader[w] \in Loading!LoaderState
    BY DEF NodeAssumption, Loading!ModulesAssumption, Loading!ModulesInv, Loading!ModulesTypeOK
  <1>00. loader[w].at # "idle" => loader[w].name \in ModuleName
    BY DEF Loading!ModulesInv, Loading!ModulesTypeOK
  <1>02. loader[w].i \in Nat /\ (loader[w].result \in Nat \/ loader[w].result = Void)
    BY <1>0 DEF Loading!LoaderState
  <1>01. /\ count \in Nat /\ count <= MaxModule
         /\ table \in [0..MaxModule - 1 -> [name : ModuleName \cup {Void}, symbols : BOOLEAN]]
    BY <1>0 DEF Loading!ModulesInv, Loading!ModulesTypeOK
  <1>1. CASE count < MaxModule /\ loader[w].name \notin NoFile
    <2>1. /\ loader[w].at = "open"
          /\ opened' = [opened EXCEPT ![loader[w].name] = @ + 1] /\ table' = [table EXCEPT ![count].name = loader[w].name] /\ wasFull' = wasFull /\ UNCHANGED <<count, lock>>
          /\ UNCHANGED <<env, read>>
      BY <1>1, <1>0, <1>01 DEF Loading!TryOpen, Loading!At
    <2>2. /\ \A u \in Loader : u # w => loader'[u] = loader[u]
          /\ loader'[w].at = "symbols" /\ loader'[w].name = loader[w].name
          /\ loader'[w].i = 0 /\ loader'[w].result = loader[w].result
      BY <1>1, <1>0, <1>01, <1>02, <2>1 DEF Loading!TryOpen, Loading!Goes, Loading!Idle, Loading!LoaderState
    <2>3. loader' \in [Loader -> Loading!LoaderState]
      <3>1. loader' = [loader EXCEPT ![w].at = "symbols", ![w].i = 0]
        BY <1>1, <1>0, <1>01, <1>02, <2>1 DEF Loading!TryOpen, Loading!Goes
      <3>2. [loader[w] EXCEPT !.at = "symbols", !.i = 0] \in Loading!LoaderState
        BY <1>0, <1>01, <1>02 DEF Loading!LoaderState, Loading!Within
      <3> QED BY <3>1, <3>2, <1>0
    <2>4. Loading!ModulesTypeOK'
      <3>1. table' \in [0..MaxModule - 1 -> [name : ModuleName \cup {Void}, symbols : BOOLEAN]]
        BY <1>1, <1>0, <1>00, <1>01, <1>02, <2>1 DEF Loading!ModulesInv, Loading!ModulesTypeOK, Loading!Searched
      <3>2. count' \in 0..MaxModule /\ opened' \in [ModuleName -> Nat]
        BY <1>1, <1>0, <1>00, <1>01, <1>02, <2>1 DEF Loading!ModulesInv, Loading!ModulesTypeOK, Loading!Searched
      <3> QED BY <1>1, <1>0, <1>00, <1>01, <1>02, <3>1, <3>2, <2>1, <2>2, <2>3 DEF Loading!ModulesInv, Loading!ModulesTypeOK
    <2>5. Loading!Locked'
      BY <1>1, <1>0, <1>00, <1>01, <1>02, <2>1, <2>2 DEF Loading!ModulesInv, Loading!ModulesTypeOK, Loading!Locked, Loading!SearchedBy, Loading!LoaderState, Loading!Within
    <2>6. Loading!Complete'
      BY <1>1, <1>0, <1>00, <1>01, <1>02, <2>1, <2>2 DEF Loading!ModulesInv, Loading!ModulesTypeOK, Loading!Complete, Loading!Searched, Loading!SearchedBy, Loading!LoaderState, Loading!Within
    <2>7. Loading!Searched'
      <3> SUFFICES ASSUME NEW u \in Loader PROVE Loading!SearchedBy(u)'
        BY DEF Loading!Searched
      <3>1. Loading!SearchedBy(u) /\ Loading!SearchedBy(w) /\ loader[u] \in Loading!LoaderState
        BY <1>0 DEF Loading!ModulesInv, Loading!Found, Loading!Searched
      <3>2. CASE u = w
        BY <1>1, <1>0, <1>00, <1>01, <1>02, <2>1, <2>2, <3>1, <3>2 DEF Loading!SearchedBy
      <3>3. CASE u # w
        <4>1. loader'[u] = loader[u] /\ loader[u].at \notin Loading!Within
          BY <2>1, <2>2, <3>3, <1>0 DEF Loading!ModulesInv, Loading!Locked, Loading!Within
        <4> QED BY <1>0, <1>01, <2>1, <4>1, <3>1 DEF Loading!SearchedBy, Loading!SearchedBy, Loading!Within
      <3> QED BY <3>2, <3>3
    <2>8. Loading!Found'
      <3> SUFFICES ASSUME NEW u \in Loader PROVE Loading!FoundBy(u)'
        BY DEF Loading!Found
      <3>1. Loading!FoundBy(u) /\ Loading!SearchedBy(w) /\ loader[u] \in Loading!LoaderState
        BY <1>0 DEF Loading!ModulesInv, Loading!Found, Loading!Searched
      <3>2. CASE u = w
        BY <1>1, <1>0, <1>00, <1>01, <1>02, <2>1, <2>2, <3>1, <3>2 DEF Loading!FoundBy, Loading!SearchedBy
      <3>3. CASE u # w
        <4>1. loader'[u] = loader[u] /\ loader[u].at \notin Loading!Within
          BY <2>1, <2>2, <3>3, <1>0 DEF Loading!ModulesInv, Loading!Locked, Loading!Within
        <4> QED BY <1>0, <1>01, <2>1, <4>1, <3>1 DEF Loading!FoundBy, Loading!SearchedBy, Loading!Within
      <3> QED BY <3>2, <3>3
    <2>9. Loading!OpenedOnce'
      <3> SUFFICES ASSUME NEW v \in ModuleName \ NoSymbols
                   PROVE  /\ opened'[v] <= 1
                          /\ opened'[v] = 1 =>
                               \/ \E k \in 0..count' - 1 : table'[k].name = v
                               \/ \E u \in Loader : loader'[u].at \in {"symbols", "count"} /\ loader'[u].name = v
        BY DEF Loading!OpenedOnce
      <3>1. \A u \in Loader : loader[u].at \notin {"symbols", "count"}
        BY <2>1 DEF Loading!ModulesInv, Loading!Locked, Loading!Within
      <3>2. \A k \in 0..count - 1 : table[k].name # loader[w].name /\ table'[k] = table[k]
        BY <1>1, <1>0, <1>01, <2>1 DEF Loading!ModulesInv, Loading!Searched, Loading!SearchedBy
      <3>3. CASE v = loader[w].name
        <4>1. opened[v] \in Nat /\ opened[v] # 1 /\ opened[v] <= 1
          BY <3>1, <3>2, <3>3 DEF Loading!ModulesInv, Loading!ModulesTypeOK, Loading!OpenedOnce
        <4>2. opened'[v] = 1
          BY <4>1, <3>3, <2>1 DEF Loading!ModulesInv, Loading!ModulesTypeOK
        <4> QED BY <4>2, <3>3, <2>2
      <3>4. CASE v # loader[w].name
        <4>1. opened'[v] = opened[v]
          BY <3>4, <2>1 DEF Loading!ModulesInv, Loading!ModulesTypeOK
        <4> QED BY <4>1, <3>1, <3>2, <2>1 DEF Loading!ModulesInv, Loading!OpenedOnce
      <3> QED BY <3>3, <3>4
    <2>10. Loading!ReadStays'
      BY <2>1 DEF Loading!ModulesInv, Loading!ReadStays
    <2> QED BY <2>4, <2>5, <2>6, <2>7, <2>8, <2>9, <2>10 DEF Loading!ModulesInv
  <1>2. CASE ~(count < MaxModule /\ loader[w].name \notin NoFile)
    <2>1. /\ loader[w].at = "open"
          /\ wasFull \subseteq wasFull' /\ loader[w].name \in NoFile \cup wasFull' /\ UNCHANGED <<count, table, lock, opened>>
          /\ UNCHANGED <<env, read>>
      BY <1>2, <1>0, <1>01 DEF Loading!TryOpen, Loading!At
    <2>2. /\ \A u \in Loader : u # w => loader'[u] = loader[u]
          /\ loader'[w].at = "unlock" /\ loader'[w].name = loader[w].name
          /\ loader'[w].i = 0 /\ loader'[w].result = loader[w].result
      BY <1>2, <1>0, <1>01, <1>02, <2>1 DEF Loading!TryOpen, Loading!Goes, Loading!Idle, Loading!LoaderState
    <2>3. loader' \in [Loader -> Loading!LoaderState]
      <3>1. loader' = [loader EXCEPT ![w].at = "unlock", ![w].i = 0]
        BY <1>2, <1>0, <1>01, <1>02, <2>1 DEF Loading!TryOpen, Loading!Goes
      <3>2. [loader[w] EXCEPT !.at = "unlock", !.i = 0] \in Loading!LoaderState
        BY <1>0, <1>01, <1>02 DEF Loading!LoaderState, Loading!Within
      <3> QED BY <3>1, <3>2, <1>0
    <2>4. Loading!ModulesTypeOK'
      BY <1>2, <1>0, <1>00, <1>01, <1>02, <2>1, <2>2, <2>3 DEF Loading!ModulesInv, Loading!ModulesTypeOK, Loading!Searched, Loading!SearchedBy, Loading!LoaderState, Loading!Within, Loading!Searched
    <2>5. Loading!Locked'
      BY <1>2, <1>0, <1>00, <1>01, <1>02, <2>1, <2>2 DEF Loading!ModulesInv, Loading!ModulesTypeOK, Loading!Locked, Loading!SearchedBy, Loading!LoaderState, Loading!Within
    <2>6. Loading!Complete'
      BY <1>2, <1>0, <1>00, <1>01, <1>02, <2>1, <2>2 DEF Loading!ModulesInv, Loading!ModulesTypeOK, Loading!Complete, Loading!Searched, Loading!SearchedBy, Loading!LoaderState, Loading!Within
    <2>7. Loading!Searched'
      <3> SUFFICES ASSUME NEW u \in Loader PROVE Loading!SearchedBy(u)'
        BY DEF Loading!Searched
      <3>1. Loading!SearchedBy(u) /\ Loading!SearchedBy(w) /\ loader[u] \in Loading!LoaderState
        BY <1>0 DEF Loading!ModulesInv, Loading!Found, Loading!Searched
      <3>2. CASE u = w
        BY <1>2, <1>0, <1>00, <1>01, <1>02, <2>1, <2>2, <3>1, <3>2 DEF Loading!SearchedBy
      <3>3. CASE u # w
        <4>1. loader'[u] = loader[u] /\ loader[u].at \notin Loading!Within
          BY <2>1, <2>2, <3>3, <1>0 DEF Loading!ModulesInv, Loading!Locked, Loading!Within
        <4> QED BY <1>0, <1>01, <2>1, <4>1, <3>1 DEF Loading!SearchedBy, Loading!SearchedBy, Loading!Within
      <3> QED BY <3>2, <3>3
    <2>8. Loading!Found'
      <3> SUFFICES ASSUME NEW u \in Loader PROVE Loading!FoundBy(u)'
        BY DEF Loading!Found
      <3>1. Loading!FoundBy(u) /\ Loading!SearchedBy(w) /\ loader[u] \in Loading!LoaderState
        BY <1>0 DEF Loading!ModulesInv, Loading!Found, Loading!Searched
      <3>2. CASE u = w
        BY <1>2, <1>0, <1>00, <1>01, <1>02, <2>1, <2>2, <3>1, <3>2 DEF Loading!FoundBy, Loading!SearchedBy
      <3>3. CASE u # w
        <4>1. loader'[u] = loader[u] /\ loader[u].at \notin Loading!Within
          BY <2>1, <2>2, <3>3, <1>0 DEF Loading!ModulesInv, Loading!Locked, Loading!Within
        <4> QED BY <1>0, <1>01, <2>1, <4>1, <3>1 DEF Loading!FoundBy, Loading!SearchedBy, Loading!Within
      <3> QED BY <3>2, <3>3
    <2>9. Loading!OpenedOnce'
      <3>1. \A u \in Loader : loader[u].at \in {"symbols", "count"} => loader'[u].at = loader[u].at /\ loader'[u].name = loader[u].name
        BY <1>0, <2>1, <2>2
      <3> QED BY <3>1, <2>1 DEF Loading!ModulesInv, Loading!OpenedOnce
    <2>10. Loading!ReadStays'
      BY <2>1 DEF Loading!ModulesInv, Loading!ReadStays
    <2> QED BY <2>4, <2>5, <2>6, <2>7, <2>8, <2>9, <2>10 DEF Loading!ModulesInv
  <1> QED BY <1>0, <1>1, <1>2 DEF Loading!ModulesInv, Loading!ModulesTypeOK, Loading!LoaderState

LEMMA OpenSymKeeps ==
    ASSUME NodeAssumption, Loading!ModulesInv, NEW w \in Loader, Loading!OpenSym(w)
    PROVE  Loading!ModulesInv'
  <1>0. /\ MaxModule \in Nat /\ Void \notin Loader /\ Void \notin Nat
        /\ loader \in [Loader -> Loading!LoaderState] /\ loader[w] \in Loading!LoaderState
    BY DEF NodeAssumption, Loading!ModulesAssumption, Loading!ModulesInv, Loading!ModulesTypeOK
  <1>00. loader[w].at # "idle" => loader[w].name \in ModuleName
    BY DEF Loading!ModulesInv, Loading!ModulesTypeOK
  <1>02. loader[w].i \in Nat /\ (loader[w].result \in Nat \/ loader[w].result = Void)
    BY <1>0 DEF Loading!LoaderState
  <1>01. /\ count \in Nat /\ count <= MaxModule
         /\ table \in [0..MaxModule - 1 -> [name : ModuleName \cup {Void}, symbols : BOOLEAN]]
    BY <1>0 DEF Loading!ModulesInv, Loading!ModulesTypeOK
  <1>1. CASE loader[w].name \in NoSymbols
    <2>1. /\ loader[w].at = "symbols"
          /\ table' = [table EXCEPT ![count].symbols = FALSE] /\ UNCHANGED <<count, lock, opened, wasFull>>
          /\ UNCHANGED <<env, read>>
      BY <1>1, <1>0, <1>01 DEF Loading!OpenSym, Loading!At
    <2>2. /\ \A u \in Loader : u # w => loader'[u] = loader[u]
          /\ loader'[w].at = "unlock" /\ loader'[w].name = loader[w].name
          /\ loader'[w].i = 0 /\ loader'[w].result = loader[w].result
      BY <1>1, <1>0, <1>01, <1>02, <2>1 DEF Loading!OpenSym, Loading!Goes, Loading!Idle, Loading!LoaderState
    <2>3. loader' \in [Loader -> Loading!LoaderState]
      BY <1>1, <1>0, <1>00, <1>01, <1>02, <2>1 DEF Loading!OpenSym, Loading!Goes, Loading!Idle, Loading!LoaderState, Loading!Within
    <2>4. Loading!ModulesTypeOK'
      <3>1. table' \in [0..MaxModule - 1 -> [name : ModuleName \cup {Void}, symbols : BOOLEAN]]
        BY <1>1, <1>0, <1>00, <1>01, <1>02, <2>1 DEF Loading!ModulesInv, Loading!ModulesTypeOK, Loading!Searched
      <3>2. count' \in 0..MaxModule /\ opened' \in [ModuleName -> Nat]
        BY <1>1, <1>0, <1>00, <1>01, <1>02, <2>1 DEF Loading!ModulesInv, Loading!ModulesTypeOK, Loading!Searched
      <3> QED BY <1>1, <1>0, <1>00, <1>01, <1>02, <3>1, <3>2, <2>1, <2>2, <2>3 DEF Loading!ModulesInv, Loading!ModulesTypeOK
    <2>5. Loading!Locked'
      BY <1>1, <1>0, <1>00, <1>01, <1>02, <2>1, <2>2 DEF Loading!ModulesInv, Loading!ModulesTypeOK, Loading!Locked, Loading!SearchedBy, Loading!LoaderState, Loading!Within
    <2>6. Loading!Complete'
      BY <1>1, <1>0, <1>00, <1>01, <1>02, <2>1, <2>2 DEF Loading!ModulesInv, Loading!ModulesTypeOK, Loading!Complete, Loading!Searched, Loading!SearchedBy, Loading!LoaderState, Loading!Within
    <2>7. Loading!Searched'
      <3> SUFFICES ASSUME NEW u \in Loader PROVE Loading!SearchedBy(u)'
        BY DEF Loading!Searched
      <3>1. Loading!SearchedBy(u) /\ Loading!SearchedBy(w) /\ loader[u] \in Loading!LoaderState
        BY <1>0 DEF Loading!ModulesInv, Loading!Found, Loading!Searched
      <3>2. CASE u = w
        BY <1>1, <1>0, <1>00, <1>01, <1>02, <2>1, <2>2, <3>1, <3>2 DEF Loading!SearchedBy
      <3>3. CASE u # w
        <4>1. loader'[u] = loader[u] /\ loader[u].at \notin Loading!Within
          BY <2>1, <2>2, <3>3, <1>0 DEF Loading!ModulesInv, Loading!Locked, Loading!Within
        <4> QED BY <1>0, <1>01, <2>1, <4>1, <3>1 DEF Loading!SearchedBy, Loading!SearchedBy, Loading!Within
      <3> QED BY <3>2, <3>3
    <2>8. Loading!Found'
      <3> SUFFICES ASSUME NEW u \in Loader PROVE Loading!FoundBy(u)'
        BY DEF Loading!Found
      <3>1. Loading!FoundBy(u) /\ Loading!SearchedBy(w) /\ loader[u] \in Loading!LoaderState
        BY <1>0 DEF Loading!ModulesInv, Loading!Found, Loading!Searched
      <3>2. CASE u = w
        BY <1>1, <1>0, <1>00, <1>01, <1>02, <2>1, <2>2, <3>1, <3>2 DEF Loading!FoundBy, Loading!SearchedBy
      <3>3. CASE u # w
        <4>1. loader'[u] = loader[u] /\ loader[u].at \notin Loading!Within
          BY <2>1, <2>2, <3>3, <1>0 DEF Loading!ModulesInv, Loading!Locked, Loading!Within
        <4> QED BY <1>0, <1>01, <2>1, <4>1, <3>1 DEF Loading!FoundBy, Loading!SearchedBy, Loading!Within
      <3> QED BY <3>2, <3>3
    <2>9. Loading!OpenedOnce'
      BY <1>1, <1>0, <1>00, <1>01, <1>02, <2>1, <2>2 DEF Loading!ModulesInv, Loading!ModulesTypeOK, Loading!OpenedOnce, Loading!Searched, Loading!Locked, Loading!SearchedBy, Loading!LoaderState, Loading!Within
    <2>10. Loading!ReadStays'
      BY <2>1 DEF Loading!ModulesInv, Loading!ReadStays
    <2> QED BY <2>4, <2>5, <2>6, <2>7, <2>8, <2>9, <2>10 DEF Loading!ModulesInv
  <1>2. CASE loader[w].name \notin NoSymbols
    <2>1. /\ loader[w].at = "symbols"
          /\ table' = [table EXCEPT ![count].symbols = TRUE] /\ UNCHANGED <<count, lock, opened, wasFull>>
          /\ UNCHANGED <<env, read>>
      BY <1>2, <1>0, <1>01 DEF Loading!OpenSym, Loading!At
    <2>2. /\ \A u \in Loader : u # w => loader'[u] = loader[u]
          /\ loader'[w].at = "count" /\ loader'[w].name = loader[w].name
          /\ loader'[w].i = 0 /\ loader'[w].result = loader[w].result
      BY <1>2, <1>0, <1>01, <1>02, <2>1 DEF Loading!OpenSym, Loading!Goes, Loading!Idle, Loading!LoaderState
    <2>3. loader' \in [Loader -> Loading!LoaderState]
      BY <1>2, <1>0, <1>00, <1>01, <1>02, <2>1 DEF Loading!OpenSym, Loading!Goes, Loading!Idle, Loading!LoaderState, Loading!Within
    <2>4. Loading!ModulesTypeOK'
      <3>1. table' \in [0..MaxModule - 1 -> [name : ModuleName \cup {Void}, symbols : BOOLEAN]]
        BY <1>2, <1>0, <1>00, <1>01, <1>02, <2>1 DEF Loading!ModulesInv, Loading!ModulesTypeOK, Loading!Searched
      <3>2. count' \in 0..MaxModule /\ opened' \in [ModuleName -> Nat]
        BY <1>2, <1>0, <1>00, <1>01, <1>02, <2>1 DEF Loading!ModulesInv, Loading!ModulesTypeOK, Loading!Searched
      <3> QED BY <1>2, <1>0, <1>00, <1>01, <1>02, <3>1, <3>2, <2>1, <2>2, <2>3 DEF Loading!ModulesInv, Loading!ModulesTypeOK
    <2>5. Loading!Locked'
      BY <1>2, <1>0, <1>00, <1>01, <1>02, <2>1, <2>2 DEF Loading!ModulesInv, Loading!ModulesTypeOK, Loading!Locked, Loading!SearchedBy, Loading!LoaderState, Loading!Within
    <2>6. Loading!Complete'
      BY <1>2, <1>0, <1>00, <1>01, <1>02, <2>1, <2>2 DEF Loading!ModulesInv, Loading!ModulesTypeOK, Loading!Complete, Loading!Searched, Loading!SearchedBy, Loading!LoaderState, Loading!Within
    <2>7. Loading!Searched'
      <3> SUFFICES ASSUME NEW u \in Loader PROVE Loading!SearchedBy(u)'
        BY DEF Loading!Searched
      <3>1. Loading!SearchedBy(u) /\ Loading!SearchedBy(w) /\ loader[u] \in Loading!LoaderState
        BY <1>0 DEF Loading!ModulesInv, Loading!Found, Loading!Searched
      <3>2. CASE u = w
        BY <1>2, <1>0, <1>00, <1>01, <1>02, <2>1, <2>2, <3>1, <3>2 DEF Loading!SearchedBy
      <3>3. CASE u # w
        <4>1. loader'[u] = loader[u] /\ loader[u].at \notin Loading!Within
          BY <2>1, <2>2, <3>3, <1>0 DEF Loading!ModulesInv, Loading!Locked, Loading!Within
        <4> QED BY <1>0, <1>01, <2>1, <4>1, <3>1 DEF Loading!SearchedBy, Loading!SearchedBy, Loading!Within
      <3> QED BY <3>2, <3>3
    <2>8. Loading!Found'
      <3> SUFFICES ASSUME NEW u \in Loader PROVE Loading!FoundBy(u)'
        BY DEF Loading!Found
      <3>1. Loading!FoundBy(u) /\ Loading!SearchedBy(w) /\ loader[u] \in Loading!LoaderState
        BY <1>0 DEF Loading!ModulesInv, Loading!Found, Loading!Searched
      <3>2. CASE u = w
        BY <1>2, <1>0, <1>00, <1>01, <1>02, <2>1, <2>2, <3>1, <3>2 DEF Loading!FoundBy, Loading!SearchedBy
      <3>3. CASE u # w
        <4>1. loader'[u] = loader[u] /\ loader[u].at \notin Loading!Within
          BY <2>1, <2>2, <3>3, <1>0 DEF Loading!ModulesInv, Loading!Locked, Loading!Within
        <4> QED BY <1>0, <1>01, <2>1, <4>1, <3>1 DEF Loading!FoundBy, Loading!SearchedBy, Loading!Within
      <3> QED BY <3>2, <3>3
    <2>9. Loading!OpenedOnce'
      BY <1>2, <1>0, <1>00, <1>01, <1>02, <2>1, <2>2 DEF Loading!ModulesInv, Loading!ModulesTypeOK, Loading!OpenedOnce, Loading!Searched, Loading!Locked, Loading!SearchedBy, Loading!LoaderState, Loading!Within
    <2>10. Loading!ReadStays'
      BY <2>1 DEF Loading!ModulesInv, Loading!ReadStays
    <2> QED BY <2>4, <2>5, <2>6, <2>7, <2>8, <2>9, <2>10 DEF Loading!ModulesInv
  <1> QED BY <1>0, <1>1, <1>2 DEF Loading!ModulesInv, Loading!ModulesTypeOK, Loading!LoaderState

LEMMA CountKeeps ==
    ASSUME NodeAssumption, Loading!ModulesInv, NEW w \in Loader, Loading!Count(w)
    PROVE  Loading!ModulesInv'
  <1>0. /\ MaxModule \in Nat /\ Void \notin Loader /\ Void \notin Nat
        /\ loader \in [Loader -> Loading!LoaderState] /\ loader[w] \in Loading!LoaderState
    BY DEF NodeAssumption, Loading!ModulesAssumption, Loading!ModulesInv, Loading!ModulesTypeOK
  <1>00. loader[w].at # "idle" => loader[w].name \in ModuleName
    BY DEF Loading!ModulesInv, Loading!ModulesTypeOK
  <1>02. loader[w].i \in Nat /\ (loader[w].result \in Nat \/ loader[w].result = Void)
    BY <1>0 DEF Loading!LoaderState
  <1>01. /\ count \in Nat /\ count <= MaxModule
         /\ table \in [0..MaxModule - 1 -> [name : ModuleName \cup {Void}, symbols : BOOLEAN]]
    BY <1>0 DEF Loading!ModulesInv, Loading!ModulesTypeOK
  <1>1. /\ loader[w].at = "count"
        /\ count' = count + 1 /\ UNCHANGED <<table, lock, opened, wasFull>>
        /\ UNCHANGED <<env, read>>
    BY <1>0, <1>01 DEF Loading!Count, Loading!At
  <1>2. /\ \A u \in Loader : u # w => loader'[u] = loader[u]
        /\ loader'[w].at = "unlock" /\ loader'[w].name = loader[w].name
        /\ loader'[w].i = loader[w].i /\ loader'[w].result = count
    BY <1>0, <1>01, <1>02, <1>1 DEF Loading!Count, Loading!Goes, Loading!Idle, Loading!LoaderState
  <1>3. loader' \in [Loader -> Loading!LoaderState]
    BY <1>0, <1>00, <1>01, <1>02, <1>1 DEF Loading!Count, Loading!Goes, Loading!Idle, Loading!LoaderState, Loading!Within
  <1>4. Loading!ModulesTypeOK'
    BY <1>0, <1>00, <1>01, <1>02, <1>1, <1>2, <1>3 DEF Loading!ModulesInv, Loading!ModulesTypeOK, Loading!Searched, Loading!SearchedBy, Loading!LoaderState, Loading!Within, Loading!Searched
  <1>5. Loading!Locked'
    BY <1>0, <1>00, <1>01, <1>02, <1>1, <1>2 DEF Loading!ModulesInv, Loading!ModulesTypeOK, Loading!Locked, Loading!SearchedBy, Loading!LoaderState, Loading!Within
  <1>6. Loading!Complete'
    <2>1. \A k \in 0..count' - 1 : k \in 0..count - 1 \/ k = count
      BY <1>01, <1>1
    <2>2. table[count].symbols /\ \A k \in 0..count - 1 : table[k].name # table[count].name
      BY <1>1 DEF Loading!ModulesInv, Loading!Searched, Loading!SearchedBy
    <2>3. Loading!Complete /\ table' = table
      BY <1>1 DEF Loading!ModulesInv
    <2> QED BY <2>1, <2>2, <2>3 DEF Loading!Complete
  <1>7. Loading!Searched'
    <2> SUFFICES ASSUME NEW u \in Loader PROVE Loading!SearchedBy(u)'
      BY DEF Loading!Searched
    <2>1. Loading!SearchedBy(u) /\ Loading!SearchedBy(w) /\ loader[u] \in Loading!LoaderState
      BY <1>0 DEF Loading!ModulesInv, Loading!Found, Loading!Searched
    <2>2. CASE u = w
      BY <1>0, <1>00, <1>01, <1>02, <1>1, <1>2, <2>1, <2>2 DEF Loading!SearchedBy
    <2>3. CASE u # w
      <3>1. loader'[u] = loader[u] /\ loader[u].at \notin Loading!Within
        BY <1>1, <1>2, <2>3, <1>0 DEF Loading!ModulesInv, Loading!Locked, Loading!Within
      <3> QED BY <1>0, <1>01, <1>1, <3>1, <2>1 DEF Loading!SearchedBy, Loading!SearchedBy, Loading!Within
    <2> QED BY <2>2, <2>3
  <1>8. Loading!Found'
    <2> SUFFICES ASSUME NEW u \in Loader PROVE Loading!FoundBy(u)'
      BY DEF Loading!Found
    <2>1. Loading!FoundBy(u) /\ Loading!SearchedBy(w) /\ loader[u] \in Loading!LoaderState
      BY <1>0 DEF Loading!ModulesInv, Loading!Found, Loading!Searched
    <2>2. CASE u = w
      BY <1>0, <1>00, <1>01, <1>02, <1>1, <1>2, <2>1, <2>2 DEF Loading!FoundBy, Loading!SearchedBy
    <2>3. CASE u # w
      <3>1. loader'[u] = loader[u] /\ loader[u].at \notin Loading!Within
        BY <1>1, <1>2, <2>3, <1>0 DEF Loading!ModulesInv, Loading!Locked, Loading!Within
      <3> QED BY <1>0, <1>01, <1>1, <3>1, <2>1 DEF Loading!FoundBy, Loading!SearchedBy, Loading!Within
    <2> QED BY <2>2, <2>3
  <1>9. Loading!OpenedOnce'
    BY <1>0, <1>00, <1>01, <1>02, <1>1, <1>2 DEF Loading!ModulesInv, Loading!ModulesTypeOK, Loading!OpenedOnce, Loading!Searched, Loading!Locked, Loading!SearchedBy, Loading!LoaderState, Loading!Within
  <1>10. Loading!ReadStays'
    BY <1>1 DEF Loading!ModulesInv, Loading!ReadStays
  <1> QED BY <1>4, <1>5, <1>6, <1>7, <1>8, <1>9, <1>10 DEF Loading!ModulesInv

LEMMA UnlockKeeps ==
    ASSUME NodeAssumption, Loading!ModulesInv, NEW w \in Loader, Loading!Unlock(w)
    PROVE  Loading!ModulesInv'
  <1>0. /\ MaxModule \in Nat /\ Void \notin Loader /\ Void \notin Nat
        /\ loader \in [Loader -> Loading!LoaderState] /\ loader[w] \in Loading!LoaderState
    BY DEF NodeAssumption, Loading!ModulesAssumption, Loading!ModulesInv, Loading!ModulesTypeOK
  <1>00. loader[w].at # "idle" => loader[w].name \in ModuleName
    BY DEF Loading!ModulesInv, Loading!ModulesTypeOK
  <1>02. loader[w].i \in Nat /\ (loader[w].result \in Nat \/ loader[w].result = Void)
    BY <1>0 DEF Loading!LoaderState
  <1>01. /\ count \in Nat /\ count <= MaxModule
         /\ table \in [0..MaxModule - 1 -> [name : ModuleName \cup {Void}, symbols : BOOLEAN]]
    BY <1>0 DEF Loading!ModulesInv, Loading!ModulesTypeOK
  <1>1. CASE loader[w].result = Void
    <2>1. /\ loader[w].at = "unlock"
          /\ lock' = Void /\ UNCHANGED <<count, table, opened, wasFull>>
          /\ UNCHANGED <<env, read>>
      BY <1>1, <1>0, <1>01 DEF Loading!Unlock, Loading!At
    <2>2. /\ \A u \in Loader : u # w => loader'[u] = loader[u]
          /\ loader'[w].at = "failed" /\ loader'[w].name = loader[w].name
          /\ loader'[w].i = 0 /\ loader'[w].result = loader[w].result
      BY <1>1, <1>0, <1>01, <1>02, <2>1 DEF Loading!Unlock, Loading!Goes, Loading!Idle, Loading!LoaderState
    <2>3. loader' \in [Loader -> Loading!LoaderState]
      BY <1>1, <1>0, <1>00, <1>01, <1>02, <2>1 DEF Loading!Unlock, Loading!Goes, Loading!Idle, Loading!LoaderState, Loading!Within
    <2>4. Loading!ModulesTypeOK'
      BY <1>1, <1>0, <1>00, <1>01, <1>02, <2>1, <2>2, <2>3 DEF Loading!ModulesInv, Loading!ModulesTypeOK, Loading!Searched, Loading!SearchedBy, Loading!LoaderState, Loading!Within, Loading!Searched
    <2>5. Loading!Locked'
      BY <1>1, <1>0, <1>00, <1>01, <1>02, <2>1, <2>2 DEF Loading!ModulesInv, Loading!ModulesTypeOK, Loading!Locked, Loading!SearchedBy, Loading!LoaderState, Loading!Within
    <2>6. Loading!Complete'
      BY <1>1, <1>0, <1>00, <1>01, <1>02, <2>1, <2>2 DEF Loading!ModulesInv, Loading!ModulesTypeOK, Loading!Complete, Loading!Searched, Loading!SearchedBy, Loading!LoaderState, Loading!Within
    <2>7. Loading!Searched'
      <3> SUFFICES ASSUME NEW u \in Loader PROVE Loading!SearchedBy(u)'
        BY DEF Loading!Searched
      <3>1. Loading!SearchedBy(u) /\ Loading!SearchedBy(w) /\ loader[u] \in Loading!LoaderState
        BY <1>0 DEF Loading!ModulesInv, Loading!Found, Loading!Searched
      <3>2. CASE u = w
        BY <1>1, <1>0, <1>00, <1>01, <1>02, <2>1, <2>2, <3>1, <3>2 DEF Loading!SearchedBy
      <3>3. CASE u # w
        <4>1. loader'[u] = loader[u] /\ loader[u].at \notin Loading!Within
          BY <2>1, <2>2, <3>3, <1>0 DEF Loading!ModulesInv, Loading!Locked, Loading!Within
        <4> QED BY <1>0, <1>01, <2>1, <4>1, <3>1 DEF Loading!SearchedBy, Loading!SearchedBy, Loading!Within
      <3> QED BY <3>2, <3>3
    <2>8. Loading!Found'
      <3> SUFFICES ASSUME NEW u \in Loader PROVE Loading!FoundBy(u)'
        BY DEF Loading!Found
      <3>1. Loading!FoundBy(u) /\ Loading!SearchedBy(w) /\ loader[u] \in Loading!LoaderState
        BY <1>0 DEF Loading!ModulesInv, Loading!Found, Loading!Searched
      <3>2. CASE u = w
        BY <1>1, <1>0, <1>00, <1>01, <1>02, <2>1, <2>2, <3>1, <3>2 DEF Loading!FoundBy, Loading!SearchedBy
      <3>3. CASE u # w
        <4>1. loader'[u] = loader[u] /\ loader[u].at \notin Loading!Within
          BY <2>1, <2>2, <3>3, <1>0 DEF Loading!ModulesInv, Loading!Locked, Loading!Within
        <4> QED BY <1>0, <1>01, <2>1, <4>1, <3>1 DEF Loading!FoundBy, Loading!SearchedBy, Loading!Within
      <3> QED BY <3>2, <3>3
    <2>9. Loading!OpenedOnce'
      <3>1. \A u \in Loader : loader[u].at \in {"symbols", "count"} => loader'[u].at = loader[u].at /\ loader'[u].name = loader[u].name
        BY <1>0, <2>1, <2>2
      <3> QED BY <3>1, <2>1 DEF Loading!ModulesInv, Loading!OpenedOnce
    <2>10. Loading!ReadStays'
      BY <2>1 DEF Loading!ModulesInv, Loading!ReadStays
    <2> QED BY <2>4, <2>5, <2>6, <2>7, <2>8, <2>9, <2>10 DEF Loading!ModulesInv
  <1>2. CASE loader[w].result # Void
    <2>1. /\ loader[w].at = "unlock"
          /\ lock' = Void /\ UNCHANGED <<count, table, opened, wasFull>>
          /\ UNCHANGED <<env, read>>
      BY <1>2, <1>0, <1>01 DEF Loading!Unlock, Loading!At
    <2>2. /\ \A u \in Loader : u # w => loader'[u] = loader[u]
          /\ loader'[w].at = "create" /\ loader'[w].name = loader[w].name
          /\ loader'[w].i = 0 /\ loader'[w].result = loader[w].result
      BY <1>2, <1>0, <1>01, <1>02, <2>1 DEF Loading!Unlock, Loading!Goes, Loading!Idle, Loading!LoaderState
    <2>3. loader' \in [Loader -> Loading!LoaderState]
      BY <1>2, <1>0, <1>00, <1>01, <1>02, <2>1 DEF Loading!Unlock, Loading!Goes, Loading!Idle, Loading!LoaderState, Loading!Within
    <2>4. Loading!ModulesTypeOK'
      BY <1>2, <1>0, <1>00, <1>01, <1>02, <2>1, <2>2, <2>3 DEF Loading!ModulesInv, Loading!ModulesTypeOK, Loading!Searched, Loading!SearchedBy, Loading!LoaderState, Loading!Within, Loading!Searched
    <2>5. Loading!Locked'
      BY <1>2, <1>0, <1>00, <1>01, <1>02, <2>1, <2>2 DEF Loading!ModulesInv, Loading!ModulesTypeOK, Loading!Locked, Loading!SearchedBy, Loading!LoaderState, Loading!Within
    <2>6. Loading!Complete'
      BY <1>2, <1>0, <1>00, <1>01, <1>02, <2>1, <2>2 DEF Loading!ModulesInv, Loading!ModulesTypeOK, Loading!Complete, Loading!Searched, Loading!SearchedBy, Loading!LoaderState, Loading!Within
    <2>7. Loading!Searched'
      <3> SUFFICES ASSUME NEW u \in Loader PROVE Loading!SearchedBy(u)'
        BY DEF Loading!Searched
      <3>1. Loading!SearchedBy(u) /\ Loading!SearchedBy(w) /\ loader[u] \in Loading!LoaderState
        BY <1>0 DEF Loading!ModulesInv, Loading!Found, Loading!Searched
      <3>2. CASE u = w
        BY <1>2, <1>0, <1>00, <1>01, <1>02, <2>1, <2>2, <3>1, <3>2 DEF Loading!SearchedBy
      <3>3. CASE u # w
        <4>1. loader'[u] = loader[u] /\ loader[u].at \notin Loading!Within
          BY <2>1, <2>2, <3>3, <1>0 DEF Loading!ModulesInv, Loading!Locked, Loading!Within
        <4> QED BY <1>0, <1>01, <2>1, <4>1, <3>1 DEF Loading!SearchedBy, Loading!SearchedBy, Loading!Within
      <3> QED BY <3>2, <3>3
    <2>8. Loading!Found'
      <3> SUFFICES ASSUME NEW u \in Loader PROVE Loading!FoundBy(u)'
        BY DEF Loading!Found
      <3>1. Loading!FoundBy(u) /\ Loading!SearchedBy(w) /\ loader[u] \in Loading!LoaderState
        BY <1>0 DEF Loading!ModulesInv, Loading!Found, Loading!Searched
      <3>2. CASE u = w
        BY <1>2, <1>0, <1>00, <1>01, <1>02, <2>1, <2>2, <3>1, <3>2 DEF Loading!FoundBy, Loading!SearchedBy
      <3>3. CASE u # w
        <4>1. loader'[u] = loader[u] /\ loader[u].at \notin Loading!Within
          BY <2>1, <2>2, <3>3, <1>0 DEF Loading!ModulesInv, Loading!Locked, Loading!Within
        <4> QED BY <1>0, <1>01, <2>1, <4>1, <3>1 DEF Loading!FoundBy, Loading!SearchedBy, Loading!Within
      <3> QED BY <3>2, <3>3
    <2>9. Loading!OpenedOnce'
      <3>1. \A u \in Loader : loader[u].at \in {"symbols", "count"} => loader'[u].at = loader[u].at /\ loader'[u].name = loader[u].name
        BY <1>0, <2>1, <2>2
      <3> QED BY <3>1, <2>1 DEF Loading!ModulesInv, Loading!OpenedOnce
    <2>10. Loading!ReadStays'
      BY <2>1 DEF Loading!ModulesInv, Loading!ReadStays
    <2> QED BY <2>4, <2>5, <2>6, <2>7, <2>8, <2>9, <2>10 DEF Loading!ModulesInv
  <1> QED BY <1>0, <1>1, <1>2 DEF Loading!ModulesInv, Loading!ModulesTypeOK, Loading!LoaderState

LEMMA CreateKeeps ==
    ASSUME NodeAssumption, Loading!ModulesInv, NEW w \in Loader, Loading!Create(w)
    PROVE  Loading!ModulesInv'
  <1>0. /\ MaxModule \in Nat /\ Void \notin Loader /\ Void \notin Nat
        /\ loader \in [Loader -> Loading!LoaderState] /\ loader[w] \in Loading!LoaderState
    BY DEF NodeAssumption, Loading!ModulesAssumption, Loading!ModulesInv, Loading!ModulesTypeOK
  <1>00. loader[w].at # "idle" => loader[w].name \in ModuleName
    BY DEF Loading!ModulesInv, Loading!ModulesTypeOK
  <1>02. loader[w].i \in Nat /\ (loader[w].result \in Nat \/ loader[w].result = Void)
    BY <1>0 DEF Loading!LoaderState
  <1>01. /\ count \in Nat /\ count <= MaxModule
         /\ table \in [0..MaxModule - 1 -> [name : ModuleName \cup {Void}, symbols : BOOLEAN]]
    BY <1>0 DEF Loading!ModulesInv, Loading!ModulesTypeOK
  <1>1. /\ loader[w].at \in {"create", "failed"}
        /\ UNCHANGED <<count, table, lock, opened, wasFull>>
        /\ UNCHANGED <<env, read>>
    BY <1>0, <1>01 DEF Loading!Create, Loading!At
  <1>2. /\ \A u \in Loader : u # w => loader'[u] = loader[u]
        /\ loader'[w].at = "idle" /\ loader'[w].name = Void
        /\ loader'[w].i = 0 /\ loader'[w].result = Void
    BY <1>0, <1>01, <1>02, <1>1 DEF Loading!Create, Loading!Goes, Loading!Idle, Loading!LoaderState
  <1>3. loader' \in [Loader -> Loading!LoaderState]
    BY <1>0, <1>00, <1>01, <1>02, <1>1 DEF Loading!Create, Loading!Goes, Loading!Idle, Loading!LoaderState, Loading!Within
  <1>4. Loading!ModulesTypeOK'
    BY <1>0, <1>00, <1>01, <1>02, <1>1, <1>2, <1>3 DEF Loading!ModulesInv, Loading!ModulesTypeOK, Loading!Searched, Loading!SearchedBy, Loading!LoaderState, Loading!Within, Loading!Searched
  <1>5. Loading!Locked'
    BY <1>0, <1>00, <1>01, <1>02, <1>1, <1>2 DEF Loading!ModulesInv, Loading!ModulesTypeOK, Loading!Locked, Loading!SearchedBy, Loading!LoaderState, Loading!Within
  <1>6. Loading!Complete'
    BY <1>0, <1>00, <1>01, <1>02, <1>1, <1>2 DEF Loading!ModulesInv, Loading!ModulesTypeOK, Loading!Complete, Loading!Searched, Loading!SearchedBy, Loading!LoaderState, Loading!Within
  <1>7. Loading!Searched'
    <2> SUFFICES ASSUME NEW u \in Loader PROVE Loading!SearchedBy(u)'
      BY DEF Loading!Searched
    <2>1. Loading!SearchedBy(u) /\ Loading!SearchedBy(w) /\ loader[u] \in Loading!LoaderState
      BY <1>0 DEF Loading!ModulesInv, Loading!Found, Loading!Searched
    <2>2. CASE u = w
      BY <1>0, <1>00, <1>01, <1>02, <1>1, <1>2, <2>1, <2>2 DEF Loading!SearchedBy
    <2>3. CASE u # w
      <3>1. loader'[u] = loader[u]
        BY <1>1, <1>2, <2>3, <1>0 DEF Loading!ModulesInv, Loading!Locked, Loading!Within
      <3> QED BY <1>0, <1>01, <1>1, <3>1, <2>1 DEF Loading!SearchedBy, Loading!SearchedBy, Loading!Within
    <2> QED BY <2>2, <2>3
  <1>8. Loading!Found'
    <2> SUFFICES ASSUME NEW u \in Loader PROVE Loading!FoundBy(u)'
      BY DEF Loading!Found
    <2>1. Loading!FoundBy(u) /\ Loading!SearchedBy(w) /\ loader[u] \in Loading!LoaderState
      BY <1>0 DEF Loading!ModulesInv, Loading!Found, Loading!Searched
    <2>2. CASE u = w
      BY <1>0, <1>00, <1>01, <1>02, <1>1, <1>2, <2>1, <2>2 DEF Loading!FoundBy, Loading!SearchedBy
    <2>3. CASE u # w
      <3>1. loader'[u] = loader[u]
        BY <1>1, <1>2, <2>3, <1>0 DEF Loading!ModulesInv, Loading!Locked, Loading!Within
      <3> QED BY <1>0, <1>01, <1>1, <3>1, <2>1 DEF Loading!FoundBy, Loading!SearchedBy, Loading!Within
    <2> QED BY <2>2, <2>3
  <1>9. Loading!OpenedOnce'
    <2>1. \A u \in Loader : loader[u].at \in {"symbols", "count"} => loader'[u].at = loader[u].at /\ loader'[u].name = loader[u].name
      BY <1>0, <1>1, <1>2
    <2> QED BY <2>1, <1>1 DEF Loading!ModulesInv, Loading!OpenedOnce
  <1>10. Loading!ReadStays'
    BY <1>1 DEF Loading!ModulesInv, Loading!ReadStays
  <1> QED BY <1>4, <1>5, <1>6, <1>7, <1>8, <1>9, <1>10 DEF Loading!ModulesInv

(* The environment: what was answered is not changed, because a variable   *)
(* that is set is not set again.                                           *)
LEMMA EnvironmentKeeps ==
    ASSUME Loading!ModulesInv, NEW k \in Key,
           Loading!Getenv(k) \/ \E v \in Setting : Loading!Setenv(k, v)
    PROVE  Loading!ModulesInv'
  <1>1. UNCHANGED <<count, table, lock, loader, opened, wasFull>>
    BY DEF Loading!Getenv, Loading!Setenv
  <1>2. Loading!ReadStays'
    <2>1. CASE Loading!Getenv(k)
      <3>1. env' = env /\ read' = IF k \in DOMAIN env THEN Loading!Put(read, k, env[k]) ELSE read
        BY <2>1 DEF Loading!Getenv
      <3> QED BY <3>1 DEF Loading!ModulesInv, Loading!ReadStays, Loading!Put
    <2>2. ASSUME NEW v \in Setting, Loading!Setenv(k, v)
          PROVE  Loading!ReadStays'
      <3>1. read' = read /\ (env' = env \/ (k \notin DOMAIN env /\ env' = Loading!Put(env, k, v)))
        BY <2>2 DEF Loading!Setenv
      <3> QED BY <3>1 DEF Loading!ModulesInv, Loading!ReadStays, Loading!Put
    <2> QED BY <2>1, <2>2
  <1> QED BY <1>1, <1>2 DEF Loading!ModulesInv, Loading!ModulesTypeOK, Loading!Locked,
             Loading!Complete, Loading!Searched, Loading!SearchedBy, Loading!Found,
             Loading!FoundBy, Loading!OpenedOnce

LEMMA ModulesStart == NodeAssumption /\ NodeInit => Loading!ModulesInv
  <1> SUFFICES ASSUME NodeAssumption, NodeInit PROVE Loading!ModulesInv
    OBVIOUS
  <1>1. MaxModule \in Nat /\ Void \notin Loader /\ Void \notin Nat
    BY DEF NodeAssumption, Loading!ModulesAssumption
  <1>2. /\ count = 0 /\ table = [i \in 0..MaxModule - 1 |-> [name |-> Void, symbols |-> FALSE]]
        /\ loader = [w \in Loader |-> Loading!Idle] /\ opened = [m \in ModuleName |-> 0]
        /\ env = <<>> /\ read = <<>>
    BY DEF NodeInit, Loading!ModulesInit
  <1>3. Loading!Idle \in Loading!LoaderState /\ Loading!Idle.at = "idle"
        /\ Loading!Idle.result = Void
    BY DEF Loading!Idle, Loading!LoaderState
  <1>4. \A w \in Loader : loader[w] = Loading!Idle
    BY <1>2
  <1>5. Loading!ModulesTypeOK
    BY <1>1, <1>2, <1>3, <1>4 DEF Loading!ModulesTypeOK
  <1>6. Loading!Locked /\ Loading!Complete
    BY <1>1, <1>2, <1>3, <1>4 DEF Loading!Locked, Loading!Within, Loading!Complete
  <1>7. Loading!Searched /\ Loading!Found
    BY <1>1, <1>2, <1>3, <1>4 DEF Loading!Searched, Loading!SearchedBy, Loading!Found, Loading!FoundBy
  <1>8. Loading!OpenedOnce
    BY <1>2 DEF Loading!OpenedOnce
  <1>9. Loading!ReadStays
    BY <1>2 DEF Loading!ReadStays
  <1> QED BY <1>5, <1>6, <1>7, <1>8, <1>9 DEF Loading!ModulesInv

LEMMA ModulesStep ==
    ASSUME NodeAssumption, Loading!ModulesInv, Loading!ModulesNext
    PROVE  Loading!ModulesInv'
  <1>1. ASSUME NEW w \in Loader, NEW m \in ModuleName, Loading!Launch(w, m)
        PROVE  Loading!ModulesInv'
    BY <1>1, LaunchKeeps
  <1>2. ASSUME NEW w \in Loader,
               \/ Loading!Look(w, "look", "create", "lock") \/ Loading!Lock(w)
               \/ Loading!Look(w, "check", "unlock", "open") \/ Loading!TryOpen(w)
               \/ Loading!OpenSym(w) \/ Loading!Count(w) \/ Loading!Unlock(w)
               \/ Loading!Create(w)
        PROVE  Loading!ModulesInv'
    BY <1>2, LookKeeps, LockKeeps, SearchKeeps, TryOpenKeeps, OpenSymKeeps, CountKeeps,
       UnlockKeeps, CreateKeeps
  <1>3. ASSUME NEW k \in Key, Loading!Getenv(k) \/ \E v \in Setting : Loading!Setenv(k, v)
        PROVE  Loading!ModulesInv'
    BY <1>3, EnvironmentKeeps
  <1> QED BY <1>1, <1>2, <1>3 DEF Loading!ModulesNext

(* The other parts leave the modules and the environment alone.            *)
LEMMA NodeModules ==
    NodeAssumption /\ Loading!ModulesInv /\ [NodeNext]_nodeVars => Loading!ModulesInv'
  <1> SUFFICES ASSUME NodeAssumption, Loading!ModulesInv, [NodeNext]_nodeVars
               PROVE  Loading!ModulesInv'
    OBVIOUS
  <1>1. CASE Loading!ModulesNext
    BY <1>1, ModulesStep
  <1>2. CASE UNCHANGED moduleVars
    BY <1>2 DEF moduleVars, Loading!ModulesInv, Loading!ModulesTypeOK, Loading!Locked,
       Loading!Complete, Loading!Searched, Loading!SearchedBy, Loading!Found,
       Loading!FoundBy, Loading!OpenedOnce, Loading!ReadStays
  <1> QED BY <1>1, <1>2 DEF NodeNext, QueueStep, StorageStep, TimerStep, nodeVars

LEMMA ModulesInvImplies == Loading!ModulesInv => ModulesRight
  <1> SUFFICES ASSUME Loading!ModulesInv
               PROVE  Loading!ModuleReady /\ Loading!LoadedOnce /\ Loading!ReadStays
    BY DEF ModulesRight
  <1>1. Loading!ModuleReady
    BY DEF Loading!ModulesInv, Loading!Found, Loading!FoundBy, Loading!Complete, Loading!ModuleReady
  <1>2. Loading!LoadedOnce
    BY DEF Loading!ModulesInv, Loading!Found, Loading!FoundBy, Loading!Complete,
       Loading!OpenedOnce, Loading!LoadedOnce
  <1> QED BY <1>1, <1>2 DEF Loading!ModulesInv

(* skynet_module_query hands out the module that was asked for, complete   *)
(* and opened once, although its first search is without the lock, for any *)
(* number of threads and modules and any size of the table; and what       *)
(* skynet_getenv has answered stays.                                       *)
THEOREM ServicesGetTheirModules == NodeSpec => []ModulesRight
  <1> QED BY NodeAssumption, ModulesStart, NodeModules, ModulesInvImplies, PTL DEF NodeSpec

-----------------------------------------------------------------------------
(* The memory of messages (Payload).  First what the operations on a queue *)
(* do to the places of a buffer.                                           *)
LEMMA SeqWidens ==
    ASSUME NEW S, NEW T, S \subseteq T, NEW q \in Seq(S)
    PROVE  q \in Seq(T)
  OBVIOUS

LEMMA Appended ==
    ASSUME NEW S, NEW q \in Seq(S), NEW c \in S
    PROVE  /\ Append(q, c) \in Seq(S) /\ Len(q) \in Nat /\ DOMAIN q = 1..Len(q)
           /\ DOMAIN Append(q, c) = 1..Len(q) + 1
           /\ \A i \in 1..Len(q) : Append(q, c)[i] = q[i]
           /\ Append(q, c)[Len(q) + 1] = c
  OBVIOUS

LEMMA Popped ==
    ASSUME NEW S, NEW q \in Seq(S), q # <<>>
    PROVE  /\ Tail(q) \in Seq(S) /\ Len(q) \in Nat \ {0} /\ DOMAIN q = 1..Len(q)
           /\ DOMAIN Tail(q) = 1..Len(q) - 1
           /\ \A i \in 1..Len(q) - 1 : Tail(q)[i] = q[i + 1]
           /\ Head(q) = q[1] /\ Head(q) \in S
  OBVIOUS

LEMMA PopPlaces ==
    ASSUME Memory!PayloadInv, NEW r \in Memory!Owners, inbox[r] # <<>>,
           inbox' = [inbox EXCEPT ![r] = Tail(@)]
    PROVE  /\ inbox' \in [Memory!Owners -> Seq(0..made)]
           /\ Head(inbox[r]) \in 0..made /\ 1 \in DOMAIN inbox[r]
           /\ Memory!InQueue(r, 1, Head(inbox[r]))
           /\ \A b, i : Memory!InQueue(r, i, b)' <=> i \in Nat \ {0} /\ Memory!InQueue(r, i + 1, b)
           /\ \A s \in Memory!Owners : s # r => inbox'[s] = inbox[s]
  <1>1. inbox \in [Memory!Owners -> Seq(0..made)] /\ inbox[r] \in Seq(0..made)
    BY DEF Memory!PayloadInv, Memory!PayloadTypeOK
  <1>2. inbox'[r] = Tail(inbox[r]) /\ \A s \in Memory!Owners : s # r => inbox'[s] = inbox[s]
    BY <1>1
  <1>3. /\ Tail(inbox[r]) \in Seq(0..made) /\ Len(inbox[r]) \in Nat \ {0}
        /\ DOMAIN inbox[r] = 1..Len(inbox[r]) /\ DOMAIN Tail(inbox[r]) = 1..Len(inbox[r]) - 1
        /\ \A i \in 1..Len(inbox[r]) - 1 : Tail(inbox[r])[i] = inbox[r][i + 1]
        /\ Head(inbox[r]) = inbox[r][1] /\ Head(inbox[r]) \in 0..made
    BY <1>1, Popped
  <1>4. inbox' \in [Memory!Owners -> Seq(0..made)]
    BY <1>1, <1>3
  <1>5. \A b, i : Memory!InQueue(r, i, b)' <=> i \in Nat \ {0} /\ Memory!InQueue(r, i + 1, b)
    <2> TAKE b, i
    <2>1. i \in 1..Len(inbox[r]) - 1 <=> i \in Nat \ {0} /\ i + 1 \in 1..Len(inbox[r])
      BY <1>3
    <2> QED BY <1>2, <1>3, <2>1 DEF Memory!InQueue
  <1> QED BY <1>2, <1>3, <1>4, <1>5 DEF Memory!InQueue

LEMMA AppendPlaces ==
    ASSUME Memory!PayloadInv, NEW r \in Memory!Owners, NEW n \in Nat, made <= n, NEW c \in 0..n,
           inbox' = [inbox EXCEPT ![r] = Append(@, c)]
    PROVE  /\ inbox' \in [Memory!Owners -> Seq(0..n)]
           /\ Len(inbox[r]) + 1 \in DOMAIN inbox'[r]
           /\ \A b, i : Memory!InQueue(r, i, b)' <=>
                \/ Memory!InQueue(r, i, b) /\ i # Len(inbox[r]) + 1
                \/ i = Len(inbox[r]) + 1 /\ b = c
           /\ \A s \in Memory!Owners : s # r => inbox'[s] = inbox[s]
  <1>1. inbox \in [Memory!Owners -> Seq(0..made)] /\ made \in Nat
    BY DEF Memory!PayloadInv, Memory!PayloadTypeOK
  <1>2. \A s \in Memory!Owners : inbox[s] \in Seq(0..n)
    <2>1. 0..made \subseteq 0..n
      BY <1>1
    <2> QED BY <1>1, <2>1, SeqWidens
  <1>3. inbox'[r] = Append(inbox[r], c) /\ \A s \in Memory!Owners : s # r => inbox'[s] = inbox[s]
    BY <1>1
  <1>4. /\ Append(inbox[r], c) \in Seq(0..n) /\ Len(inbox[r]) \in Nat
        /\ DOMAIN inbox[r] = 1..Len(inbox[r])
        /\ DOMAIN Append(inbox[r], c) = 1..Len(inbox[r]) + 1
        /\ \A i \in 1..Len(inbox[r]) : Append(inbox[r], c)[i] = inbox[r][i]
        /\ Append(inbox[r], c)[Len(inbox[r]) + 1] = c
    BY <1>2, Appended
  <1>5. inbox' \in [Memory!Owners -> Seq(0..n)]
    BY <1>1, <1>2, <1>4
  <1>6. \A b, i : Memory!InQueue(r, i, b)' <=>
           \/ Memory!InQueue(r, i, b) /\ i # Len(inbox[r]) + 1
           \/ i = Len(inbox[r]) + 1 /\ b = c
    BY <1>3, <1>4 DEF Memory!InQueue
  <1> QED BY <1>3, <1>4, <1>5, <1>6

(* A buffer stays where it is, as far as the invariant can tell.           *)
LEMMA SamePlaces ==
    ASSUME NEW b, Memory!Sole(b),
           \A s \in Memory!Owners : Memory!InHands(s, b)' => Memory!InHands(s, b),
           \A s \in Memory!Owners : \A i : Memory!InQueue(s, i, b)' => Memory!InQueue(s, i, b),
           b \in held' => b \in held
    PROVE  Memory!Sole(b)'
  <1>1. \A s, i : Memory!InQueue(s, i, b) => i \in DOMAIN inbox[s]
    BY DEF Memory!InQueue
  <1> QED BY <1>1 DEF Memory!Sole, Memory!InOneQueue, Memory!Handed, Memory!Queued

(* skynet_context_push, with which a send, a forward and the harbor end:   *)
(* the buffer, which is nowhere else any more, is queued, lost with an     *)
(* address of 0, or freed.                                                 *)
LEMMA Delivery ==
    ASSUME Memory!PayloadInv, NEW c \in Nat, NEW h, NEW a,
           a.t # "zero" => Memory!Receiver(a) \in Memory!Owners,
           made' \in {made, made + 1}, c \in 0..made', made' = made + 1 => c = made',
           h = heap \cup ({c} \ {0}), Memory!Delivered(h, a, c), UNCHANGED <<alive, held>>,
           handling' \in [Memory!Owners -> Memory!Handling \cup {Void}],
           \A s \in Memory!Owners : handling'[s] # Void => handling'[s].buf \in 0..made',
           \A s \in Memory!Owners : \A b \in Nat \ {0, c} :
               Memory!InHands(s, b)' <=> Memory!InHands(s, b),
           c # 0 => /\ \A s \in Memory!Owners : ~Memory!InHands(s, c)'
                    /\ c \notin held
                    /\ \A s \in Memory!Owners : \A i : ~Memory!InQueue(s, i, c)
    PROVE  Memory!PayloadInv'
  <1> DEFINE r == Memory!Receiver(a)
  <1>0. made \in Nat /\ made' \in Nat /\ made <= made' /\ heap \subseteq 1..made
        /\ held \subseteq 0..made /\ inbox \in [Memory!Owners -> Seq(0..made)]
        /\ alive \subseteq Memory!Owners /\ ~misused
    BY DEF Memory!PayloadInv, Memory!PayloadTypeOK
  <1>1. \/ /\ r \in Memory!Owners /\ heap' = h /\ ~misused' /\ orphan' = orphan
           /\ inbox' = [inbox EXCEPT ![r] = Append(@, c)]
        \/ heap' = h /\ ~misused' /\ orphan' = orphan \cup {c} /\ inbox' = inbox
        \/ heap' = h \ {c} /\ ~misused' /\ orphan' = orphan /\ inbox' = inbox
    <2>1. CASE a.t = "zero"
      BY <1>0, <2>1 DEF Memory!Delivered
    <2>2. CASE a.t # "zero" /\ r \in alive
      BY <1>0, <2>2 DEF Memory!Delivered
    <2>3. CASE a.t # "zero" /\ r \notin alive
      BY <1>0, <2>3 DEF Memory!Delivered, Memory!Dropped, Memory!Frees
    <2> QED BY <2>1, <2>2, <2>3
  <1>2. inbox' \in [Memory!Owners -> Seq(0..made')]
    <2>1. CASE inbox' = [inbox EXCEPT ![r] = Append(@, c)] /\ r \in Memory!Owners
      BY <1>0, <2>1, AppendPlaces
    <2>2. CASE inbox' = inbox
      <3>1. \A s \in Memory!Owners : inbox[s] \in Seq(0..made')
        <4>1. 0..made \subseteq 0..made'
          BY <1>0
        <4> QED BY <1>0, <4>1, SeqWidens
      <3> QED BY <1>0, <2>2, <3>1
    <2> QED BY <1>1, <2>1, <2>2
  <1>3. heap' \subseteq 1..made' /\ held' \subseteq 0..made'
    <2>1. 1..made \subseteq 1..made' /\ 0..made \subseteq 0..made' /\ {c} \ {0} \subseteq 1..made'
      BY <1>0
    <2>2. heap' \subseteq h
      BY <1>1
    <2> QED BY <1>0, <2>1, <2>2
  <1>4. Memory!PayloadTypeOK'
    BY <1>0, <1>2, <1>3 DEF Memory!PayloadTypeOK, Memory!Owners, Memory!Handling, Memory!Addresses, Memory!Harbors
  <1>5. ASSUME NEW b \in 1..made', b # c
        PROVE  Memory!BufferInv(b)'
    <2>1. b \in 1..made /\ Memory!BufferInv(b) /\ b \in Nat \ {0, c}
      BY <1>0, <1>5 DEF Memory!PayloadInv
    <2>2. \A s \in Memory!Owners : \A i : Memory!InQueue(s, i, b)' <=> Memory!InQueue(s, i, b)
      <3>1. CASE inbox' = [inbox EXCEPT ![r] = Append(@, c)] /\ r \in Memory!Owners
        <4>1. /\ \A i : Memory!InQueue(r, i, b)' <=> Memory!InQueue(r, i, b) /\ i # Len(inbox[r]) + 1
              /\ \A s \in Memory!Owners : s # r => inbox'[s] = inbox[s]
          <5>1. /\ \A d, i : Memory!InQueue(r, i, d)' <=>
                     \/ Memory!InQueue(r, i, d) /\ i # Len(inbox[r]) + 1
                     \/ i = Len(inbox[r]) + 1 /\ d = c
                /\ \A s \in Memory!Owners : s # r => inbox'[s] = inbox[s]
            BY <1>0, <3>1, AppendPlaces
          <5> QED BY <5>1, <1>5
        <4>2. \A i : Memory!InQueue(r, i, b) => i # Len(inbox[r]) + 1
          BY <1>0, <3>1 DEF Memory!InQueue
        <4> QED BY <4>1, <4>2 DEF Memory!InQueue
      <3>2. CASE inbox' = inbox
        BY <3>2 DEF Memory!InQueue
      <3> QED BY <1>1, <3>1, <3>2
    <2>3. b \in heap' <=> b \in heap
      BY <1>1, <1>5
    <2>4. b \in orphan => b \in orphan'
      BY <1>1
    <2>5. Memory!Sole(b)'
      BY <2>1, <2>2, SamePlaces DEF Memory!BufferInv
    <2>6. Memory!Somewhere(b)' <=> Memory!Somewhere(b)
      BY <2>1, <2>2 DEF Memory!Somewhere, Memory!Handed, Memory!Queued, Memory!InQueue
    <2> QED BY <2>1, <2>3, <2>4, <2>5, <2>6 DEF Memory!BufferInv
  <1>6. ASSUME c # 0
        PROVE  Memory!BufferInv(c)'
    <2>1. /\ \A s \in Memory!Owners : ~Memory!InHands(s, c)'
          /\ c \notin held' /\ \A s \in Memory!Owners : \A i : ~Memory!InQueue(s, i, c)
      BY <1>6
    <2>2. CASE /\ inbox' = [inbox EXCEPT ![r] = Append(@, c)] /\ r \in Memory!Owners
               /\ heap' = h
      <3>1. /\ \A i : Memory!InQueue(r, i, c)' <=> i = Len(inbox[r]) + 1
            /\ \A s \in Memory!Owners : s # r => inbox'[s] = inbox[s]
            /\ Len(inbox[r]) + 1 \in DOMAIN inbox'[r]
        <4>1. /\ \A i : Memory!InQueue(r, i, c)' <=>
                   \/ Memory!InQueue(r, i, c) /\ i # Len(inbox[r]) + 1
                   \/ i = Len(inbox[r]) + 1 /\ c = c
              /\ \A s \in Memory!Owners : s # r => inbox'[s] = inbox[s]
              /\ Len(inbox[r]) + 1 \in DOMAIN inbox'[r]
          BY <1>0, <2>2, AppendPlaces
        <4> QED BY <4>1, <2>1, <2>2
      <3>2. \A s \in Memory!Owners : \A i : Memory!InQueue(s, i, c)' => s = r /\ i = Len(inbox[r]) + 1
        BY <2>1, <3>1 DEF Memory!InQueue
      <3>3. Memory!Sole(c)'
        BY <2>1, <3>2 DEF Memory!Sole, Memory!InOneQueue, Memory!Handed, Memory!Queued
      <3>4. Memory!Somewhere(c)'
        BY <3>1, <2>2 DEF Memory!Somewhere, Memory!Handed, Memory!Queued
      <3>5. c \in heap'
        BY <1>6, <2>2
      <3> QED BY <3>3, <3>4, <3>5 DEF Memory!BufferInv
    <2>3. CASE inbox' = inbox /\ (heap' = h \ {c} \/ orphan' = orphan \cup {c})
      <3>1. \A s \in Memory!Owners : \A i : ~Memory!InQueue(s, i, c)'
        BY <2>1, <2>3 DEF Memory!InQueue
      <3>2. Memory!Sole(c)' /\ ~Memory!Somewhere(c)'
        BY <2>1, <3>1 DEF Memory!Sole, Memory!InOneQueue, Memory!Handed, Memory!Queued, Memory!Somewhere
      <3> QED BY <2>3, <3>2 DEF Memory!BufferInv
    <2> QED BY <1>1, <2>2, <2>3
  <1>7. ~misused'
    BY <1>1
  <1> QED BY <1>4, <1>5, <1>6, <1>7 DEF Memory!PayloadInv

(* The first message of a queue is popped: its buffer is then in no queue, *)
(* and nowhere else.                                                       *)
LEMMA PopBuffers ==
    ASSUME Memory!PayloadInv, NEW r \in Memory!Owners, inbox[r] # <<>>,
           inbox' = [inbox EXCEPT ![r] = Tail(@)], NEW b \in 1..made
    PROVE  /\ Memory!InOneQueue(b)'
           /\ b # Head(inbox[r]) => (Memory!Queued(b)' <=> Memory!Queued(b))
           /\ b = Head(inbox[r]) => ~Memory!Queued(b)' /\ ~Memory!Handed(b) /\ b \notin held /\ b \in heap
  <1>1. /\ 1 \in DOMAIN inbox[r] /\ Memory!InQueue(r, 1, Head(inbox[r]))
        /\ \A i : Memory!InQueue(r, i, b)' <=> i \in Nat \ {0} /\ Memory!InQueue(r, i + 1, b)
        /\ \A s \in Memory!Owners : s # r => inbox'[s] = inbox[s]
    BY PopPlaces
  <1>2. Memory!BufferInv(b) /\ Memory!Sole(b)
    BY DEF Memory!PayloadInv, Memory!BufferInv
  <1>3. \A s, i : Memory!InQueue(s, i, b) => i \in DOMAIN inbox[s]
    BY DEF Memory!InQueue
  <1>4. \A s, i : Memory!InQueue(s, i, b)' => i \in DOMAIN inbox'[s]
    BY DEF Memory!InQueue
  <1>5. \A s \in Memory!Owners : \A i : s # r => (Memory!InQueue(s, i, b)' <=> Memory!InQueue(s, i, b))
    BY <1>1 DEF Memory!InQueue
  <1>6. \A i, j : Memory!InQueue(r, i, b)' /\ Memory!InQueue(r, j, b)' => i = j
    <2> SUFFICES ASSUME NEW i, NEW j, Memory!InQueue(r, i, b)', Memory!InQueue(r, j, b)' PROVE i = j
      OBVIOUS
    <2>1. i \in Nat /\ j \in Nat /\ Memory!InQueue(r, i + 1, b) /\ Memory!InQueue(r, j + 1, b)
      BY <1>1
    <2>2. i + 1 = j + 1
      BY <2>1, <1>2, <1>3 DEF Memory!Sole, Memory!InOneQueue
    <2> QED BY <2>1, <2>2
  <1>7. Memory!InOneQueue(b)'
    <2> SUFFICES ASSUME NEW s \in Memory!Owners, NEW u \in Memory!Owners, NEW i, NEW j,
                        Memory!InQueue(s, i, b)', Memory!InQueue(u, j, b)'
                 PROVE  s = u /\ i = j
      BY DEF Memory!InOneQueue
    <2>1. \E k \in DOMAIN inbox[s] : Memory!InQueue(s, k, b) /\ (s # r => k = i)
      BY <1>1, <1>3, <1>5
    <2>2. \E k \in DOMAIN inbox[u] : Memory!InQueue(u, k, b) /\ (u # r => k = j)
      BY <1>1, <1>3, <1>5
    <2>3. s = u /\ (s # r => i = j)
      BY <2>1, <2>2, <1>2 DEF Memory!Sole, Memory!InOneQueue
    <2> QED BY <2>3, <1>6
  <1>8. ASSUME b # Head(inbox[r])
        PROVE  Memory!Queued(b)' <=> Memory!Queued(b)
    <2>1. ASSUME NEW s \in Memory!Owners, NEW i \in DOMAIN inbox[s], Memory!InQueue(s, i, b)
          PROVE  Memory!Queued(b)'
      <3>1. CASE s # r
        BY <2>1, <3>1, <1>4, <1>5 DEF Memory!Queued
      <3>2. CASE s = r
        <4>1. i # 1 /\ i \in Nat \ {0}
          BY <2>1, <3>2, <1>1, <1>8 DEF Memory!InQueue, Memory!PayloadInv, Memory!PayloadTypeOK
        <4>2. i - 1 \in Nat \ {0} /\ (i - 1) + 1 = i
          BY <4>1
        <4>3. Memory!InQueue(r, i - 1, b)'
          BY <4>2, <2>1, <3>2, <1>1
        <4> QED BY <4>3, <1>4 DEF Memory!Queued
      <3> QED BY <3>1, <3>2
    <2>2. ASSUME NEW s \in Memory!Owners, NEW i, Memory!InQueue(s, i, b)'
          PROVE  Memory!Queued(b)
      <3>1. \E k : Memory!InQueue(s, k, b)
        BY <2>2, <1>1, <1>5
      <3> QED BY <3>1, <1>3 DEF Memory!Queued
    <2> QED BY <2>1, <2>2 DEF Memory!Queued
  <1>9. ASSUME b = Head(inbox[r])
        PROVE  ~Memory!Queued(b)' /\ ~Memory!Handed(b) /\ b \notin held /\ b \in heap
    <2>1. Memory!Queued(b)
      BY <1>1, <1>9 DEF Memory!Queued
    <2>2. ASSUME NEW s \in Memory!Owners, NEW i, Memory!InQueue(s, i, b)'
          PROVE  FALSE
      <3>1. CASE s = r
        <4>1. i \in Nat \ {0} /\ Memory!InQueue(r, i + 1, b)
          BY <2>2, <3>1, <1>1
        <4>2. i + 1 = 1
          BY <4>1, <1>1, <1>2, <1>3, <1>9 DEF Memory!Sole, Memory!InOneQueue
        <4> QED BY <4>1, <4>2
      <3>2. CASE s # r
        BY <2>2, <3>2, <1>1, <1>2, <1>3, <1>5, <1>9 DEF Memory!Sole, Memory!InOneQueue
      <3> QED BY <3>1, <3>2
    <2> QED BY <2>1, <2>2, <1>2 DEF Memory!Sole, Memory!BufferInv, Memory!Somewhere, Memory!Queued
  <1> QED BY <1>7, <1>8, <1>9

(* skynet_free: what is freed is allocated, and has no place any more.     *)
LEMMA Release ==
    ASSUME Memory!PayloadInv, NEW B, Memory!Frees(heap, B), UNCHANGED <<made, orphan>>,
           B \subseteq heap \cup {0},
           held' \subseteq 0..made, alive' \subseteq Memory!Owners,
           inbox' \in [Memory!Owners -> Seq(0..made)],
           handling' \in [Memory!Owners -> Memory!Handling \cup {Void}],
           \A s \in Memory!Owners : handling'[s] # Void => handling'[s].buf \in 0..made,
           \A b \in 1..made :
               /\ b \in B => ~Memory!Somewhere(b)'
               /\ b \notin B => Memory!Sole(b)' /\ (Memory!Somewhere(b)' <=> Memory!Somewhere(b))
    PROVE  Memory!PayloadInv'
  <1>1. heap' = heap \ B /\ ~misused' /\ heap \subseteq 1..made /\ made \in Nat
    BY DEF Memory!Frees, Memory!PayloadInv, Memory!PayloadTypeOK
  <1>2. Memory!PayloadTypeOK'
    BY <1>1 DEF Memory!PayloadTypeOK, Memory!Owners, Memory!Handling, Memory!Addresses, Memory!Harbors
  <1>3. ASSUME NEW b \in 1..made
        PROVE  Memory!BufferInv(b)'
    <2>1. CASE b \in B
      <3>1. ~Memory!Somewhere(b)' /\ b \notin heap'
        BY <1>1, <2>1
      <3>2. Memory!Sole(b)'
        BY <3>1 DEF Memory!Somewhere, Memory!Sole, Memory!Handed, Memory!Queued, Memory!InOneQueue
      <3> QED BY <3>1, <3>2 DEF Memory!BufferInv
    <2>2. CASE b \notin B
      <3>1. Memory!BufferInv(b) /\ Memory!Sole(b)' /\ (Memory!Somewhere(b)' <=> Memory!Somewhere(b))
        BY <2>2 DEF Memory!PayloadInv
      <3> QED BY <1>1, <2>2, <3>1 DEF Memory!BufferInv
    <2> QED BY <2>1, <2>2
  <1> QED BY <1>1, <1>2, <1>3 DEF Memory!PayloadInv

(* A handler only notes something: its message stays where it is.          *)
LEMMA NoteHands ==
    ASSUME Memory!PayloadInv, NEW s \in Memory!Owners, handling[s] # Void,
           NEW f \in Memory!Addresses \cup {Void}, NEW o \in BOOLEAN,
           \/ handling' = [handling EXCEPT ![s].over = o]
           \/ handling' = [handling EXCEPT ![s].forward = f]
           \/ handling' = handling
    PROVE  /\ handling' \in [Memory!Owners -> Memory!Handling \cup {Void}]
           /\ \A u \in Memory!Owners : handling'[u] # Void => handling'[u].buf \in 0..made
           /\ \A u \in Memory!Owners : \A b : Memory!InHands(u, b)' <=> Memory!InHands(u, b)
  <1>0. Void \notin Memory!Handling
    BY NodeAssumption DEF NodeAssumption, Memory!PayloadAssumption
  <1>1. /\ handling \in [Memory!Owners -> Memory!Handling \cup {Void}]
        /\ \A u \in Memory!Owners : handling[u] # Void => handling[u].buf \in 0..made
    BY DEF Memory!PayloadInv, Memory!PayloadTypeOK
  <1>2. handling[s] \in Memory!Handling
    BY <1>1
  <1>3. /\ [handling[s] EXCEPT !.over = o] \in Memory!Handling
        /\ [handling[s] EXCEPT !.over = o].buf = handling[s].buf
        /\ [handling[s] EXCEPT !.forward = f] \in Memory!Handling
        /\ [handling[s] EXCEPT !.forward = f].buf = handling[s].buf
    BY <1>2 DEF Memory!Handling
  <1>4. CASE handling' = handling
    BY <1>1, <1>4 DEF Memory!InHands
  <1>5. ASSUME NEW x \in Memory!Handling, x.buf = handling[s].buf, handling' = [handling EXCEPT ![s] = x]
        PROVE  /\ handling' \in [Memory!Owners -> Memory!Handling \cup {Void}]
               /\ \A u \in Memory!Owners : handling'[u] # Void => handling'[u].buf \in 0..made
               /\ \A u \in Memory!Owners : \A b : Memory!InHands(u, b)' <=> Memory!InHands(u, b)
    BY <1>0, <1>1, <1>2, <1>5 DEF Memory!InHands
  <1>6. CASE handling' = [handling EXCEPT ![s].over = o]
    <2>1. handling' = [handling EXCEPT ![s] = [handling[s] EXCEPT !.over = o]]
      BY <1>1, <1>6
    <2> QED BY <2>1, <1>3, <1>5
  <1>7. CASE handling' = [handling EXCEPT ![s].forward = f]
    <2>1. handling' = [handling EXCEPT ![s] = [handling[s] EXCEPT !.forward = f]]
      BY <1>1, <1>7
    <2> QED BY <2>1, <1>3, <1>5
  <1> QED BY <1>4, <1>6, <1>7

(* A handler ends, or the harbor is done with a message.                   *)
LEMMA HandsEmptied ==
    ASSUME Memory!PayloadInv, NEW s \in Memory!Owners, handling[s] # Void,
           handling' = [handling EXCEPT ![s] = Void]
    PROVE  /\ handling' \in [Memory!Owners -> Memory!Handling \cup {Void}]
           /\ \A u \in Memory!Owners : handling'[u] # Void => handling'[u].buf \in 0..made
           /\ handling[s].buf \in 0..made /\ Memory!InHands(s, handling[s].buf)
           /\ \A u \in Memory!Owners : \A b : Memory!InHands(u, b)' <=> u # s /\ Memory!InHands(u, b)
           /\ \A b \in 1..made : b # handling[s].buf =>
                 \A u \in Memory!Owners : Memory!InHands(u, b)' <=> Memory!InHands(u, b)
           /\ \A b \in 1..made : b = handling[s].buf =>
                 /\ b \in heap /\ b \notin held /\ ~Memory!Queued(b)
                 /\ \A u \in Memory!Owners : ~Memory!InHands(u, b)'
  <1>1. /\ handling \in [Memory!Owners -> Memory!Handling \cup {Void}]
        /\ \A u \in Memory!Owners : handling[u] # Void => handling[u].buf \in 0..made
    BY DEF Memory!PayloadInv, Memory!PayloadTypeOK
  <1>2. \A u \in Memory!Owners : handling'[u] = IF u = s THEN Void ELSE handling[u]
    BY <1>1
  <1>3. \A u \in Memory!Owners : \A b : Memory!InHands(u, b)' <=> u # s /\ Memory!InHands(u, b)
    BY <1>2 DEF Memory!InHands
  <1>4. handling[s].buf \in 0..made /\ Memory!InHands(s, handling[s].buf)
    BY <1>1 DEF Memory!InHands
  <1>5. \A b \in 1..made : b # handling[s].buf =>
           \A u \in Memory!Owners : Memory!InHands(u, b)' <=> Memory!InHands(u, b)
    BY <1>3 DEF Memory!InHands
  <1>6. ASSUME NEW b \in 1..made, b = handling[s].buf
        PROVE  /\ b \in heap /\ b \notin held /\ ~Memory!Queued(b)
               /\ \A u \in Memory!Owners : ~Memory!InHands(u, b)'
    <2>1. Memory!BufferInv(b) /\ Memory!InHands(s, b)
      BY <1>4, <1>6 DEF Memory!PayloadInv
    <2> QED BY <2>1, <1>3 DEF Memory!BufferInv, Memory!Sole, Memory!Somewhere, Memory!Handed
  <1>7. handling' \in [Memory!Owners -> Memory!Handling \cup {Void}]
    BY <1>1
  <1> QED BY <1>1, <1>2, <1>3, <1>4, <1>5, <1>6, <1>7

LEMMA ReceiverOwns ==
    ASSUME NEW a \in Memory!Addresses
    PROVE  Memory!Receiver(a) \in Memory!Owners
  BY DEF Memory!Addresses, Memory!Receiver, Memory!Owners, Memory!Harbors

(* A buffer that has just been made has no place, nor has NULL.            *)
LEMMA FreshNowhere ==
    ASSUME Memory!PayloadInv, NEW b \in Nat, b > made
    PROVE  /\ b \notin held /\ \A s \in Memory!Owners : ~Memory!InHands(s, b)
           /\ \A s \in Memory!Owners : \A i : ~Memory!InQueue(s, i, b)
  <1>1. /\ made \in Nat /\ held \subseteq 0..made /\ inbox \in [Memory!Owners -> Seq(0..made)]
        /\ \A s \in Memory!Owners : handling[s] # Void => handling[s].buf \in 0..made
    BY DEF Memory!PayloadInv, Memory!PayloadTypeOK
  <1>2. \A s \in Memory!Owners : \A i \in DOMAIN inbox[s] : inbox[s][i] \in 0..made
    BY <1>1
  <1> QED BY <1>1, <1>2 DEF Memory!InHands, Memory!InQueue

(* Nothing moves, and memory that a refused send has packed is orphaned.   *)
LEMMA NothingMoves ==
    ASSUME Memory!PayloadInv, made' \in {made, made + 1},
           UNCHANGED <<inbox, held, misused>>, alive' \subseteq alive,
           handling' \in [Memory!Owners -> Memory!Handling \cup {Void}],
           \A s \in Memory!Owners : handling'[s] # Void => handling'[s].buf \in 0..made,
           \A s \in Memory!Owners : \A b : Memory!InHands(s, b)' <=> Memory!InHands(s, b),
           \/ made' = made /\ heap' = heap /\ orphan' = orphan
           \/ made' = made + 1 /\ heap' = heap \cup {made + 1} /\ orphan' = orphan \cup {made + 1}
    PROVE  Memory!PayloadInv'
  <1>1. made \in Nat /\ heap \subseteq 1..made /\ held \subseteq 0..made /\ alive \subseteq Memory!Owners
        /\ inbox \in [Memory!Owners -> Seq(0..made)] /\ ~misused
    BY DEF Memory!PayloadInv, Memory!PayloadTypeOK
  <1>2. 0..made \subseteq 0..made' /\ 1..made \subseteq 1..made' /\ made' \in Nat
    BY <1>1
  <1>3. \A s \in Memory!Owners : inbox[s] \in Seq(0..made')
    BY <1>1, <1>2, SeqWidens
  <1>4. heap' \subseteq 1..made'
    <2>1. CASE made' = made /\ heap' = heap
      BY <1>1, <2>1
    <2>2. CASE made' = made + 1 /\ heap' = heap \cup {made + 1}
      <3>1. made + 1 \in 1..made'
        BY <1>1, <2>2
      <3> QED BY <1>1, <1>2, <2>2, <3>1
    <2> QED BY <2>1, <2>2
  <1>5. Memory!PayloadTypeOK'
    BY <1>1, <1>2, <1>3, <1>4 DEF Memory!PayloadTypeOK, Memory!Owners, Memory!Handling, Memory!Addresses, Memory!Harbors
  <1>6. ASSUME NEW b \in 1..made'
        PROVE  Memory!BufferInv(b)'
    <2>1. \A s \in Memory!Owners : \A i : Memory!InQueue(s, i, b)' <=> Memory!InQueue(s, i, b)
      BY DEF Memory!InQueue
    <2>2. Memory!Handed(b)' <=> Memory!Handed(b)
      BY DEF Memory!Handed
    <2>3. Memory!Queued(b)' <=> Memory!Queued(b)
      BY <2>1 DEF Memory!Queued
    <2>4. CASE b \in 1..made
      <3>1. Memory!BufferInv(b) /\ (b \in heap' <=> b \in heap) /\ (b \in orphan => b \in orphan')
        BY <1>1, <2>4 DEF Memory!PayloadInv
      <3>2. Memory!Sole(b)'
        BY <3>1, <2>1, SamePlaces DEF Memory!BufferInv
      <3> QED BY <3>1, <3>2, <2>2, <2>3 DEF Memory!BufferInv, Memory!Somewhere
    <2>5. CASE b \notin 1..made
      <3>0. made' = made + 1 /\ heap' = heap \cup {made + 1} /\ orphan' = orphan \cup {made + 1}
        BY <1>6, <2>5
      <3>1. b = made + 1 /\ b > made /\ b \in Nat /\ b \in heap' /\ b \in orphan'
        <4>1. b = made + 1 /\ b > made /\ b \in Nat
          BY <1>1, <2>5, <3>0
        <4> QED BY <4>1, <3>0
      <3>2. ~Memory!Handed(b)' /\ ~Memory!Queued(b)' /\ b \notin held'
        BY <3>1, <2>2, <2>3, FreshNowhere DEF Memory!Handed, Memory!Queued
      <3> QED BY <3>1, <3>2 DEF Memory!BufferInv, Memory!Somewhere, Memory!Sole,
                 Memory!Handed, Memory!Queued, Memory!InOneQueue
    <2> QED BY <2>4, <2>5
  <1> QED BY <1>1, <1>5, <1>6 DEF Memory!PayloadInv

(* What a send makes is delivered.                                         *)
LEMMA SendDelivers ==
    ASSUME Memory!PayloadInv, NEW a \in Memory!Addresses,
           NEW data \in {"string", "empty", "packed"}, Memory!Makes(data),
           Memory!Delivered(Memory!HeapWith(data), a, Memory!Buffer(data)),
           UNCHANGED <<alive, held>>,
           handling' \in [Memory!Owners -> Memory!Handling \cup {Void}],
           \A s \in Memory!Owners : handling'[s] # Void => handling'[s].buf \in 0..made,
           \A s \in Memory!Owners : \A b : Memory!InHands(s, b)' <=> Memory!InHands(s, b)
    PROVE  Memory!PayloadInv'
  <1>0. made \in Nat
    BY DEF Memory!PayloadInv, Memory!PayloadTypeOK
  <1> PICK c, h : c = Memory!Buffer(data) /\ h = Memory!HeapWith(data)
    OBVIOUS
  <1>1. /\ c \in Nat /\ made' \in {made, made + 1} /\ c \in 0..made' /\ (made' = made + 1 => c = made')
        /\ h = heap \cup ({c} \ {0}) /\ (c # 0 => c > made)
    BY <1>0 DEF Memory!Buffer, Memory!Makes, Memory!HeapWith
  <1>2. c # 0 => /\ \A s \in Memory!Owners : ~Memory!InHands(s, c)'
                 /\ c \notin held
                 /\ \A s \in Memory!Owners : \A i : ~Memory!InQueue(s, i, c)
    BY <1>1, FreshNowhere
  <1>3. Memory!Delivered(h, a, c) /\ Memory!Receiver(a) \in Memory!Owners
    BY ReceiverOwns
  <1>4. \A s \in Memory!Owners : handling'[s] # Void => handling'[s].buf \in 0..made'
    BY <1>0, <1>1
  <1>5. \A s \in Memory!Owners : \A b \in Nat \ {0, c} :
           Memory!InHands(s, b)' <=> Memory!InHands(s, b)
    OBVIOUS
  <1> QED BY <1>1, <1>2, <1>3, <1>4, <1>5, Delivery

(* Sends, whatever their data and address.                                 *)
LEMMA SendKeeps ==
    ASSUME Memory!PayloadInv, NEW s \in Memory!Owners, NEW a \in Memory!Addresses,
           NEW data \in {"string", "empty", "packed"},
           Memory!Send(s, a, data) \/ Memory!SendName(s, a, data) \/ Memory!Redirect(s, a, data)
    PROVE  Memory!PayloadInv'
  <1>0. handling[s] # Void /\ UNCHANGED <<alive, held>> /\ Void \in Memory!Addresses \cup {Void}
        /\ made \in Nat /\ alive \subseteq alive
    BY DEF Memory!Send, Memory!SendName, Memory!Redirect, Memory!Working, Memory!PayloadInv,
       Memory!PayloadTypeOK
  <1>1. PICK o \in BOOLEAN : handling' = [handling EXCEPT ![s].over = o] \/ handling' = handling
    <2>1. Memory!Failed(a) \in BOOLEAN
      BY DEF Memory!Failed
    <2> QED BY <2>1 DEF Memory!Send, Memory!SendName, Memory!Redirect
  <1>2. /\ handling' \in [Memory!Owners -> Memory!Handling \cup {Void}]
        /\ \A u \in Memory!Owners : handling'[u] # Void => handling'[u].buf \in 0..made
        /\ \A u \in Memory!Owners : \A b : Memory!InHands(u, b)' <=> Memory!InHands(u, b)
    BY <1>0, <1>1, NoteHands
  <1>3. CASE /\ Memory!Makes(data)
             /\ Memory!Delivered(Memory!HeapWith(data), a, Memory!Buffer(data))
    BY <1>0, <1>2, <1>3, SendDelivers
  <1>4. CASE /\ data = "packed" /\ Memory!Makes(data) /\ heap' = Memory!HeapWith(data)
             /\ orphan' = orphan \cup {Memory!Buffer(data)} /\ UNCHANGED <<inbox, misused>>
    <2>1. made' = made + 1 /\ heap' = heap \cup {made + 1} /\ orphan' = orphan \cup {made + 1}
      BY <1>0, <1>4 DEF Memory!Makes, Memory!HeapWith, Memory!Buffer
    <2> QED BY <1>0, <1>2, <1>4, <2>1, NothingMoves
  <1>5. CASE UNCHANGED <<heap, made, orphan, inbox, misused>>
    BY <1>0, <1>2, <1>5, NothingMoves
  <1> QED BY <1>3, <1>4, <1>5 DEF Memory!Send, Memory!SendName, Memory!Redirect

LEMMA ForwardKeeps ==
    ASSUME Memory!PayloadInv, NEW s \in Memory!Owners, NEW a \in Memory!Addresses,
           Memory!Forward(s, a)
    PROVE  Memory!PayloadInv'
  <1>1. handling[s] # Void /\ handling' = [handling EXCEPT ![s].forward = a]
        /\ UNCHANGED <<heap, made, alive, inbox, held, orphan, misused>>
    BY DEF Memory!Forward, Memory!Working
  <1>2. /\ handling' \in [Memory!Owners -> Memory!Handling \cup {Void}]
        /\ \A u \in Memory!Owners : handling'[u] # Void => handling'[u].buf \in 0..made
        /\ \A u \in Memory!Owners : \A b : Memory!InHands(u, b)' <=> Memory!InHands(u, b)
    BY <1>1, TRUE \in BOOLEAN, NoteHands
  <1> QED BY <1>1, <1>2, NothingMoves

LEMMA RetireKeeps ==
    ASSUME Memory!PayloadInv, NEW s \in Memory!Owners, Memory!Retire(s)
    PROVE  Memory!PayloadInv'
  <1>1. alive' \subseteq alive /\ UNCHANGED <<heap, made, inbox, handling, held, orphan, misused>>
    BY DEF Memory!Retire
  <1>2. /\ handling' \in [Memory!Owners -> Memory!Handling \cup {Void}]
        /\ \A u \in Memory!Owners : handling'[u] # Void => handling'[u].buf \in 0..made
        /\ \A u \in Memory!Owners : \A b : Memory!InHands(u, b)' <=> Memory!InHands(u, b)
    BY <1>1 DEF Memory!PayloadInv, Memory!PayloadTypeOK, Memory!InHands
  <1> QED BY <1>1, <1>2, NothingMoves

(* The buffer of a handler, and the buffers of queues, are allocated.      *)
LEMMA PlacesAllocated ==
    ASSUME Memory!PayloadInv
    PROVE  /\ held \subseteq heap \cup {0}
           /\ \A s \in Memory!Owners : handling[s] # Void => handling[s].buf \in heap \cup {0}
           /\ \A s \in Memory!Owners : \A i \in DOMAIN inbox[s] : inbox[s][i] \in heap \cup {0}
  <1>1. /\ held \subseteq 0..made /\ inbox \in [Memory!Owners -> Seq(0..made)] /\ made \in Nat
        /\ \A s \in Memory!Owners : handling[s] # Void => handling[s].buf \in 0..made
    BY DEF Memory!PayloadInv, Memory!PayloadTypeOK
  <1>2. \A b \in 0..made : b = 0 \/ b \in 1..made
    BY <1>1
  <1>3. \A b \in 1..made : Memory!Somewhere(b) => b \in heap
    BY DEF Memory!PayloadInv, Memory!BufferInv
  <1>4. held \subseteq heap \cup {0}
    BY <1>1, <1>2, <1>3 DEF Memory!Somewhere
  <1>5. \A s \in Memory!Owners : handling[s] # Void => handling[s].buf \in heap \cup {0}
    BY <1>1, <1>2, <1>3 DEF Memory!Somewhere, Memory!Handed, Memory!InHands
  <1>6. ASSUME NEW s \in Memory!Owners, NEW i \in DOMAIN inbox[s]
        PROVE  inbox[s][i] \in heap \cup {0}
    <2>1. inbox[s][i] \in 0..made
      BY <1>1
    <2>2. inbox[s][i] # 0 => Memory!Queued(inbox[s][i])
      BY DEF Memory!Queued, Memory!InQueue
    <2> QED BY <2>1, <2>2, <1>2, <1>3 DEF Memory!Somewhere
  <1> QED BY <1>4, <1>5, <1>6

LEMMA DispatchMuteKeeps ==
    ASSUME Memory!PayloadInv, NEW s \in Memory!Owners, Memory!DispatchMute(s)
    PROVE  Memory!PayloadInv'
  <1>1. /\ inbox[s] # <<>> /\ inbox' = [inbox EXCEPT ![s] = Tail(@)]
        /\ Memory!Frees(heap, {Head(inbox[s])})
        /\ UNCHANGED <<made, alive, handling, held, orphan>>
    BY DEF Memory!DispatchMute
  <1>2. PICK B : B = {Head(inbox[s])}
    OBVIOUS
  <1>3. /\ held' \subseteq 0..made /\ alive' \subseteq Memory!Owners
        /\ handling' \in [Memory!Owners -> Memory!Handling \cup {Void}]
        /\ \A u \in Memory!Owners : handling'[u] # Void => handling'[u].buf \in 0..made
    BY <1>1 DEF Memory!PayloadInv, Memory!PayloadTypeOK
  <1>4. inbox' \in [Memory!Owners -> Seq(0..made)] /\ B \subseteq heap \cup {0}
    <2>1. Head(inbox[s]) = inbox[s][1] /\ 1 \in DOMAIN inbox[s]
      BY <1>1, PopPlaces DEF Memory!InQueue
    <2>2. Head(inbox[s]) \in heap \cup {0}
      BY <2>1, PlacesAllocated
    <2>3. inbox' \in [Memory!Owners -> Seq(0..made)]
      BY <1>1, PopPlaces
    <2> QED BY <1>2, <2>2, <2>3
  <1>5. ASSUME NEW b \in 1..made
        PROVE  /\ b \in B => ~Memory!Somewhere(b)'
               /\ b \notin B => Memory!Sole(b)' /\ (Memory!Somewhere(b)' <=> Memory!Somewhere(b))
    <2>1. /\ Memory!InOneQueue(b)'
          /\ b \notin B => (Memory!Queued(b)' <=> Memory!Queued(b))
          /\ b \in B => ~Memory!Queued(b)' /\ ~Memory!Handed(b) /\ b \notin held
      BY <1>1, <1>2, PopBuffers
    <2>2. \A u : Memory!InHands(u, b)' <=> Memory!InHands(u, b)
      BY <1>1 DEF Memory!InHands
    <2>3. Memory!Handed(b)' <=> Memory!Handed(b)
      BY <2>2 DEF Memory!Handed
    <2>4. Memory!Sole(b)
      BY DEF Memory!PayloadInv, Memory!BufferInv
    <2> QED BY <1>1, <2>1, <2>2, <2>3, <2>4 DEF Memory!Sole, Memory!Somewhere
  <1> QED BY <1>1, <1>2, <1>3, <1>4, <1>5, Release

LEMMA DispatchBeginKeeps ==
    ASSUME Memory!PayloadInv, NEW s \in Memory!Owners, Memory!DispatchBegin(s)
    PROVE  Memory!PayloadInv'
  <1>0. Void \notin Memory!Handling
    BY NodeAssumption DEF NodeAssumption, Memory!PayloadAssumption
  <1>1. /\ inbox[s] # <<>> /\ inbox' = [inbox EXCEPT ![s] = Tail(@)] /\ handling[s] = Void
        /\ handling' = [handling EXCEPT ![s] = [buf |-> Head(inbox[s]), forward |-> Void, over |-> FALSE]]
        /\ UNCHANGED <<heap, made, alive, held, orphan, misused>>
    BY DEF Memory!DispatchBegin
  <1>2. PICK c \in 0..made : c = Head(inbox[s])
    BY <1>1, PopPlaces
  <1>3. inbox' \in [Memory!Owners -> Seq(0..made)]
    BY <1>1, PopPlaces
  <1>4. /\ handling \in [Memory!Owners -> Memory!Handling \cup {Void}] /\ made \in Nat
        /\ \A u \in Memory!Owners : handling[u] # Void => handling[u].buf \in 0..made
    BY DEF Memory!PayloadInv, Memory!PayloadTypeOK
  <1>5. [buf |-> c, forward |-> Void, over |-> FALSE] \in Memory!Handling
    BY <1>2, <1>4 DEF Memory!Handling
  <1>6. /\ handling' \in [Memory!Owners -> Memory!Handling \cup {Void}]
        /\ handling'[s] # Void /\ handling'[s].buf = c
        /\ \A u \in Memory!Owners : u # s => handling'[u] = handling[u]
    BY <1>0, <1>1, <1>2, <1>4, <1>5
  <1>7. Memory!PayloadTypeOK'
    BY <1>1, <1>2, <1>3, <1>4, <1>6 DEF Memory!PayloadInv, Memory!PayloadTypeOK, Memory!Owners,
       Memory!Handling, Memory!Addresses, Memory!Harbors
  <1>8. ASSUME NEW b \in 1..made
        PROVE  Memory!BufferInv(b)'
    <2>1. /\ Memory!InOneQueue(b)'
          /\ b # c => (Memory!Queued(b)' <=> Memory!Queued(b))
          /\ b = c => ~Memory!Queued(b)' /\ ~Memory!Handed(b) /\ b \notin held /\ b \in heap
      BY <1>1, <1>2, PopBuffers
    <2>2. \A u \in Memory!Owners : Memory!InHands(u, b)' <=>
            (u = s /\ b = c) \/ Memory!InHands(u, b)
      BY <1>1, <1>6 DEF Memory!InHands
    <2>3. Memory!BufferInv(b)
      BY DEF Memory!PayloadInv
    <2>4. CASE b = c
      BY <1>1, <2>1, <2>2, <2>4 DEF Memory!BufferInv, Memory!Sole, Memory!Somewhere, Memory!Handed
    <2>5. CASE b # c
      <3>1. Memory!Handed(b)' <=> Memory!Handed(b)
        BY <2>2, <2>5 DEF Memory!Handed
      <3>2. Memory!Sole(b)'
        BY <1>1, <2>1, <2>2, <2>3, <2>5, <3>1 DEF Memory!BufferInv, Memory!Sole
      <3> QED BY <1>1, <2>1, <2>3, <2>5, <3>1, <3>2 DEF Memory!BufferInv, Memory!Somewhere
    <2> QED BY <2>4, <2>5
  <1> QED BY <1>1, <1>7, <1>8 DEF Memory!PayloadInv

(* A buffer leaves the hands of a service and is freed.                    *)
LEMMA FreedFromHands ==
    ASSUME Memory!PayloadInv, NEW s \in Memory!Owners, handling[s] # Void,
           handling' = [handling EXCEPT ![s] = Void], Memory!Frees(heap, {handling[s].buf}),
           UNCHANGED <<made, alive, inbox, held, orphan>>
    PROVE  Memory!PayloadInv'
  <1>1. PICK c, B : c = handling[s].buf /\ B = {c}
    OBVIOUS
  <1>2. Memory!Frees(heap, B) /\ B \subseteq heap \cup {0}
    BY <1>1, PlacesAllocated
  <1>3. /\ held' \subseteq 0..made /\ alive' \subseteq Memory!Owners
        /\ inbox' \in [Memory!Owners -> Seq(0..made)]
    BY DEF Memory!PayloadInv, Memory!PayloadTypeOK
  <1>4. /\ handling' \in [Memory!Owners -> Memory!Handling \cup {Void}]
        /\ \A u \in Memory!Owners : handling'[u] # Void => handling'[u].buf \in 0..made
    BY HandsEmptied
  <1>5. ASSUME NEW b \in 1..made
        PROVE  /\ b \in B => ~Memory!Somewhere(b)'
               /\ b \notin B => Memory!Sole(b)' /\ (Memory!Somewhere(b)' <=> Memory!Somewhere(b))
    <2>1. \A u, i : Memory!InQueue(u, i, b)' <=> Memory!InQueue(u, i, b)
      BY DEF Memory!InQueue
    <2>2. Memory!Queued(b)' <=> Memory!Queued(b)
      BY <2>1 DEF Memory!Queued
    <2>3. CASE b = c
      <3>1. b \notin held /\ ~Memory!Queued(b) /\ \A u \in Memory!Owners : ~Memory!InHands(u, b)'
        BY <1>1, <2>3, HandsEmptied
      <3> QED BY <1>1, <2>2, <2>3, <3>1 DEF Memory!Somewhere, Memory!Handed
    <2>4. CASE b # c
      <3>1. \A u \in Memory!Owners : Memory!InHands(u, b)' <=> Memory!InHands(u, b)
        BY <1>1, <2>4, HandsEmptied
      <3>2. Memory!Handed(b)' <=> Memory!Handed(b)
        BY <3>1 DEF Memory!Handed
      <3>3. Memory!Sole(b)
        BY DEF Memory!PayloadInv, Memory!BufferInv
      <3>4. Memory!Sole(b)'
        BY <2>1, <3>1, <3>3, SamePlaces
      <3> QED BY <1>1, <2>2, <2>4, <3>2, <3>4 DEF Memory!Somewhere
    <2> QED BY <2>3, <2>4
  <1> QED BY <1>2, <1>3, <1>4, <1>5, Release

(* A buffer leaves the hands of a service and is delivered.                *)
LEMMA DeliveredFromHands ==
    ASSUME Memory!PayloadInv, NEW s \in Memory!Owners, handling[s] # Void,
           handling' = [handling EXCEPT ![s] = Void],
           NEW a, Memory!Receiver(a) \in Memory!Owners,
           Memory!Delivered(heap, a, handling[s].buf), UNCHANGED <<made, alive, held>>
    PROVE  Memory!PayloadInv'
  <1>1. PICK c, h : c = handling[s].buf /\ h = heap
    OBVIOUS
  <1>2. made \in Nat /\ c \in Nat /\ c \in 0..made /\ c \in heap \cup {0}
    BY <1>1, HandsEmptied, PlacesAllocated DEF Memory!PayloadInv, Memory!PayloadTypeOK
  <1>3. made' \in {made, made + 1} /\ c \in 0..made' /\ (made' = made + 1 => c = made')
    BY <1>2
  <1>4. h = heap \cup ({c} \ {0}) /\ Memory!Delivered(h, a, c)
    BY <1>1, <1>2
  <1>5. /\ handling' \in [Memory!Owners -> Memory!Handling \cup {Void}]
        /\ \A u \in Memory!Owners : handling'[u] # Void => handling'[u].buf \in 0..made'
    BY HandsEmptied
  <1>6. ASSUME NEW u \in Memory!Owners, NEW b \in Nat \ {0, c}
        PROVE  Memory!InHands(u, b)' <=> Memory!InHands(u, b)
    <2>1. Memory!InHands(u, b)' <=> u # s /\ Memory!InHands(u, b)
      BY HandsEmptied
    <2>2. Memory!InHands(s, b) => b = c
      BY <1>1 DEF Memory!InHands
    <2> QED BY <1>6, <2>1, <2>2
  <1>7. c # 0 => /\ \A u \in Memory!Owners : ~Memory!InHands(u, c)'
                 /\ c \notin held
                 /\ \A u \in Memory!Owners : \A i : ~Memory!InQueue(u, i, c)
    <2> SUFFICES ASSUME c # 0
                 PROVE  /\ \A u \in Memory!Owners : ~Memory!InHands(u, c)'
                        /\ c \notin held
                        /\ \A u \in Memory!Owners : \A i : ~Memory!InQueue(u, i, c)
      OBVIOUS
    <2>1. c \in 1..made
      BY <1>2
    <2>2. c \notin held /\ ~Memory!Queued(c) /\ \A u \in Memory!Owners : ~Memory!InHands(u, c)'
      BY <1>1, <2>1, HandsEmptied
    <2> QED BY <2>2 DEF Memory!Queued, Memory!InQueue
  <1> QED BY <1>2, <1>3, <1>4, <1>5, <1>6, <1>7, Delivery

LEMMA DispatchEndKeeps ==
    ASSUME Memory!PayloadInv, NEW s \in Memory!Owners, Memory!DispatchEnd(s)
    PROVE  Memory!PayloadInv'
  <1>1. handling[s] # Void /\ handling' = [handling EXCEPT ![s] = Void]
        /\ UNCHANGED <<made, alive, held>>
    BY DEF Memory!DispatchEnd
  <1>2. CASE handling[s].forward # Void
    <2>1. PICK a : a = handling[s].forward
      OBVIOUS
    <2>2. Memory!Delivered(heap, a, handling[s].buf)
      BY <1>2, <2>1 DEF Memory!DispatchEnd, Memory!Forwarded
    <2>3. handling[s] \in Memory!Handling
      BY <1>1 DEF Memory!PayloadInv, Memory!PayloadTypeOK
    <2>4. a \in Memory!Addresses
      BY <1>2, <2>1, <2>3 DEF Memory!Handling
    <2>5. Memory!Receiver(a) \in Memory!Owners
      BY <2>4, ReceiverOwns
    <2> QED BY <1>1, <2>2, <2>5, DeliveredFromHands
  <1>3. CASE handling[s].forward = Void
    <2>1. Memory!Frees(heap, {handling[s].buf}) /\ UNCHANGED <<inbox, orphan>>
      BY <1>3 DEF Memory!DispatchEnd
    <2> QED BY <1>1, <2>1, FreedFromHands
  <1> QED BY <1>2, <1>3

LEMMA HarborOutKeeps ==
    ASSUME Memory!PayloadInv, Memory!HarborOut
    PROVE  Memory!PayloadInv'
  <1>0. Memory!Harbors \in Memory!Owners /\ Actor \subseteq Memory!Owners
    BY DEF Memory!Owners
  <1>1. PICK s \in Memory!Owners : s = Memory!Harbors
    BY <1>0
  <1>2. /\ handling[s] # Void /\ handling' = [handling EXCEPT ![s] = Void]
        /\ UNCHANGED <<made, alive>>
    BY <1>1 DEF Memory!HarborOut
  <1>3. CASE Memory!Frees(heap, {handling[s].buf}) /\ UNCHANGED <<inbox, held, orphan>>
    BY <1>2, <1>3, FreedFromHands
  <1>4. ASSUME NEW d \in Actor,
               Memory!Delivered(heap, [t |-> "number", to |-> d], handling[s].buf), UNCHANGED held
        PROVE  Memory!PayloadInv'
    <2>1. PICK a : a = [t |-> "number", to |-> d]
      OBVIOUS
    <2>2. Memory!Receiver(a) \in Memory!Owners /\ Memory!Delivered(heap, a, handling[s].buf)
      BY <1>0, <1>4, <2>1 DEF Memory!Receiver
    <2> QED BY <1>2, <1>4, <2>2, DeliveredFromHands
  <1>5. CASE held' = held \cup {handling[s].buf} /\ UNCHANGED <<heap, inbox, orphan, misused>>
    <2>1. PICK c : c = handling[s].buf
      OBVIOUS
    <2>2. /\ handling' \in [Memory!Owners -> Memory!Handling \cup {Void}]
          /\ \A u \in Memory!Owners : handling'[u] # Void => handling'[u].buf \in 0..made
          /\ c \in 0..made
      BY <1>2, <2>1, HandsEmptied
    <2>3. Memory!PayloadTypeOK'
      BY <1>2, <1>5, <2>1, <2>2 DEF Memory!PayloadInv, Memory!PayloadTypeOK, Memory!Owners,
         Memory!Handling, Memory!Addresses, Memory!Harbors
    <2>4. ASSUME NEW b \in 1..made
          PROVE  Memory!BufferInv(b)'
      <3>1. \A u, i : Memory!InQueue(u, i, b)' <=> Memory!InQueue(u, i, b)
        BY <1>5 DEF Memory!InQueue
      <3>2. Memory!Queued(b)' <=> Memory!Queued(b)
        BY <1>5, <3>1 DEF Memory!Queued
      <3>3. Memory!InOneQueue(b)' <=> Memory!InOneQueue(b)
        BY <1>5, <3>1 DEF Memory!InOneQueue
      <3>4. Memory!BufferInv(b)
        BY DEF Memory!PayloadInv
      <3>5. CASE b = c
        <4>1. /\ b \in heap /\ b \notin held /\ ~Memory!Queued(b)
              /\ \A u \in Memory!Owners : ~Memory!InHands(u, b)'
          BY <1>2, <2>1, <3>5, HandsEmptied
        <4> QED BY <1>5, <2>1, <3>2, <3>3, <3>4, <3>5, <4>1
                DEF Memory!BufferInv, Memory!Sole, Memory!Somewhere, Memory!Handed
      <3>6. CASE b # c
        <4>1. \A u \in Memory!Owners : Memory!InHands(u, b)' <=> Memory!InHands(u, b)
          BY <1>2, <2>1, <3>6, HandsEmptied
        <4>2. Memory!Handed(b)' <=> Memory!Handed(b)
          BY <4>1 DEF Memory!Handed
        <4>3. Memory!Sole(b)'
          BY <1>5, <2>1, <3>2, <3>3, <3>4, <3>6, <4>1, <4>2 DEF Memory!BufferInv, Memory!Sole
        <4> QED BY <1>5, <2>1, <3>2, <3>4, <3>6, <4>2, <4>3 DEF Memory!BufferInv, Memory!Somewhere
      <3> QED BY <3>5, <3>6
    <2> QED BY <1>2, <1>5, <2>3, <2>4 DEF Memory!PayloadInv
  <1> QED BY <1>1, <1>3, <1>4, <1>5 DEF Memory!HarborOut

LEMMA NameKnownKeeps ==
    ASSUME Memory!PayloadInv, Memory!NameKnown
    PROVE  Memory!PayloadInv'
  <1>1. held' = {} /\ Memory!Frees(heap, held) /\ UNCHANGED <<made, alive, inbox, handling, orphan>>
    BY DEF Memory!NameKnown
  <1>2. PICK B : B = held
    OBVIOUS
  <1>3. /\ held' \subseteq 0..made /\ alive' \subseteq Memory!Owners
        /\ inbox' \in [Memory!Owners -> Seq(0..made)]
        /\ handling' \in [Memory!Owners -> Memory!Handling \cup {Void}]
        /\ \A u \in Memory!Owners : handling'[u] # Void => handling'[u].buf \in 0..made
    BY <1>1 DEF Memory!PayloadInv, Memory!PayloadTypeOK
  <1>4. ASSUME NEW b \in 1..made
        PROVE  /\ b \in B => ~Memory!Somewhere(b)'
               /\ b \notin B => Memory!Sole(b)' /\ (Memory!Somewhere(b)' <=> Memory!Somewhere(b))
    <2>1. \A u, i : Memory!InQueue(u, i, b)' <=> Memory!InQueue(u, i, b)
      BY <1>1 DEF Memory!InQueue
    <2>2. \A u : Memory!InHands(u, b)' <=> Memory!InHands(u, b)
      BY <1>1 DEF Memory!InHands
    <2>3. (Memory!Queued(b)' <=> Memory!Queued(b)) /\ (Memory!Handed(b)' <=> Memory!Handed(b))
      BY <1>1, <2>1, <2>2 DEF Memory!Queued, Memory!Handed
    <2>4. Memory!Sole(b) /\ b \notin held'
      BY <1>1 DEF Memory!PayloadInv, Memory!BufferInv
    <2>5. Memory!Sole(b)'
      BY <2>1, <2>2, <2>4, SamePlaces
    <2> QED BY <1>2, <2>3, <2>4, <2>5 DEF Memory!Sole, Memory!Somewhere
  <1>5. Memory!Frees(heap, B) /\ B \subseteq heap \cup {0}
    BY <1>1, <1>2, PlacesAllocated
  <1> QED BY <1>1, <1>3, <1>4, <1>5, Release

LEMMA HarborInKeeps ==
    ASSUME Memory!PayloadInv, NEW d \in Actor, Memory!HarborIn(d)
    PROVE  Memory!PayloadInv'
  <1>1. made \in Nat /\ Actor \subseteq Memory!Owners
    BY DEF Memory!PayloadInv, Memory!PayloadTypeOK, Memory!Owners
  <1>2. PICK a, c, h : a = [t |-> "number", to |-> d] /\ c = made + 1 /\ h = heap \cup {made + 1}
    OBVIOUS
  <1>3. /\ made' = made + 1 /\ Memory!Delivered(h, a, c) /\ UNCHANGED <<alive, held, handling>>
    BY <1>2 DEF Memory!HarborIn
  <1>4. /\ c \in Nat /\ c > made /\ c # 0 /\ made' \in {made, made + 1} /\ c \in 0..made' /\ c = made'
        /\ h = heap \cup ({c} \ {0}) /\ Memory!Receiver(a) \in Memory!Owners
    BY <1>1, <1>2, <1>3 DEF Memory!Receiver
  <1>5. /\ handling' \in [Memory!Owners -> Memory!Handling \cup {Void}]
        /\ \A u \in Memory!Owners : handling'[u] # Void => handling'[u].buf \in 0..made'
        /\ \A u, b : Memory!InHands(u, b)' <=> Memory!InHands(u, b)
    BY <1>1, <1>3 DEF Memory!PayloadInv, Memory!PayloadTypeOK, Memory!InHands
  <1>6. /\ \A u \in Memory!Owners : ~Memory!InHands(u, c)'
        /\ c \notin held
        /\ \A u \in Memory!Owners : \A i : ~Memory!InQueue(u, i, c)
    BY <1>4, <1>5, FreshNowhere
  <1> QED BY <1>3, <1>4, <1>5, <1>6, Delivery

LEMMA DropQueueKeeps ==
    ASSUME Memory!PayloadInv, NEW s \in Memory!Owners, Memory!DropQueue(s)
    PROVE  Memory!PayloadInv'
  <1>1. /\ inbox' = [inbox EXCEPT ![s] = <<>>]
        /\ Memory!Frees(heap, {inbox[s][i] : i \in DOMAIN inbox[s]})
        /\ UNCHANGED <<made, alive, handling, held, orphan>>
    BY DEF Memory!DropQueue
  <1>2. PICK B : B = {inbox[s][i] : i \in DOMAIN inbox[s]}
    OBVIOUS
  <1>3. inbox \in [Memory!Owners -> Seq(0..made)] /\ <<>> \in Seq(0..made)
    BY DEF Memory!PayloadInv, Memory!PayloadTypeOK
  <1>4. /\ held' \subseteq 0..made /\ alive' \subseteq Memory!Owners
        /\ inbox' \in [Memory!Owners -> Seq(0..made)]
        /\ handling' \in [Memory!Owners -> Memory!Handling \cup {Void}]
        /\ \A u \in Memory!Owners : handling'[u] # Void => handling'[u].buf \in 0..made
    BY <1>1, <1>3 DEF Memory!PayloadInv, Memory!PayloadTypeOK
  <1>5. Memory!Frees(heap, B) /\ B \subseteq heap \cup {0}
    BY <1>1, <1>2, PlacesAllocated
  <1>6. inbox'[s] = <<>> /\ \A u \in Memory!Owners : u # s => inbox'[u] = inbox[u]
    BY <1>1, <1>3
  <1>7. ASSUME NEW b \in 1..made
        PROVE  /\ b \in B => ~Memory!Somewhere(b)'
               /\ b \notin B => Memory!Sole(b)' /\ (Memory!Somewhere(b)' <=> Memory!Somewhere(b))
    <2>1. \A u \in Memory!Owners : \A i : Memory!InQueue(u, i, b)' <=> u # s /\ Memory!InQueue(u, i, b)
      BY <1>6 DEF Memory!InQueue
    <2>2. \A u : Memory!InHands(u, b)' <=> Memory!InHands(u, b)
      BY <1>1 DEF Memory!InHands
    <2>3. Memory!Handed(b)' <=> Memory!Handed(b)
      BY <2>2 DEF Memory!Handed
    <2>4. Memory!Sole(b)
      BY DEF Memory!PayloadInv, Memory!BufferInv
    <2>5. Memory!Sole(b)'
      BY <1>1, <2>1, <2>2, <2>4, SamePlaces
    <2>6. \A u, i : Memory!InQueue(u, i, b) => i \in DOMAIN inbox[u]
      BY DEF Memory!InQueue
    <2>7. CASE b \in B
      <3>1. PICK i : i \in DOMAIN inbox[s] /\ Memory!InQueue(s, i, b)
        BY <1>2, <2>7 DEF Memory!InQueue
      <3>2. \A u \in Memory!Owners : \A j : Memory!InQueue(u, j, b) => u = s
        BY <2>4, <2>6, <3>1 DEF Memory!Sole, Memory!InOneQueue
      <3>3. ~Memory!Queued(b)'
        BY <2>1, <3>2 DEF Memory!Queued
      <3>4. Memory!Queued(b)
        BY <3>1 DEF Memory!Queued
      <3> QED BY <1>1, <2>3, <2>4, <2>7, <3>3, <3>4 DEF Memory!Sole, Memory!Somewhere
    <2>8. CASE b \notin B
      <3>1. \A i : ~Memory!InQueue(s, i, b)
        BY <1>2, <2>8 DEF Memory!InQueue
      <3>2. \A u \in Memory!Owners : \A i : Memory!InQueue(u, i, b)' <=> Memory!InQueue(u, i, b)
        BY <2>1, <3>1
      <3>3. Memory!Queued(b)' <=> Memory!Queued(b)
        BY <3>2 DEF Memory!Queued, Memory!InQueue
      <3> QED BY <1>1, <2>3, <2>5, <2>8, <3>3 DEF Memory!Somewhere
    <2> QED BY <2>7, <2>8
  <1> QED BY <1>1, <1>4, <1>5, <1>7, Release

LEMMA PayloadStart == NodeInit => Memory!PayloadInv
  <1> SUFFICES ASSUME NodeInit PROVE Memory!PayloadInv
    OBVIOUS
  <1>1. /\ heap = {} /\ made = 0 /\ alive = Memory!Owners /\ held = {} /\ misused = FALSE
        /\ inbox = [s \in Memory!Owners |-> <<>>] /\ handling = [s \in Memory!Owners |-> Void]
    BY DEF NodeInit, Memory!PayloadInit
  <1>2. Memory!PayloadTypeOK
    BY <1>1 DEF Memory!PayloadTypeOK
  <1> QED BY <1>1, <1>2 DEF Memory!PayloadInv

LEMMA NodePayload == Memory!PayloadInv /\ [NodeNext]_nodeVars => Memory!PayloadInv'
  <1> SUFFICES ASSUME Memory!PayloadInv, [NodeNext]_nodeVars
               PROVE  Memory!PayloadInv'
    OBVIOUS
  <1>1. CASE Memory!PayloadNext
    <2>1. ASSUME NEW s \in Memory!Owners, NEW a \in Memory!Addresses,
                 \/ \E data \in {"string", "empty", "packed"} :
                       \/ Memory!Send(s, a, data) \/ Memory!SendName(s, a, data)
                       \/ Memory!Redirect(s, a, data)
                 \/ Memory!Forward(s, a)
          PROVE  Memory!PayloadInv'
      BY <2>1, SendKeeps, ForwardKeeps
    <2>2. ASSUME NEW s \in Memory!Owners,
                 \/ Memory!Retire(s) \/ Memory!DispatchMute(s) \/ Memory!DispatchBegin(s)
                 \/ Memory!DispatchEnd(s) \/ Memory!DropQueue(s)
          PROVE  Memory!PayloadInv'
      BY <2>2, RetireKeeps, DispatchMuteKeeps, DispatchBeginKeeps, DispatchEndKeeps, DropQueueKeeps
    <2>3. CASE Memory!HarborOut \/ Memory!NameKnown \/ \E d \in Actor : Memory!HarborIn(d)
      BY <2>3, HarborOutKeeps, NameKnownKeeps, HarborInKeeps
    <2> QED BY <1>1, <2>1, <2>2, <2>3 DEF Memory!PayloadNext
  <1>2. CASE UNCHANGED payloadVars
    BY <1>2 DEF payloadVars, Memory!PayloadInv, Memory!PayloadTypeOK, Memory!Owners, Memory!Handling,
       Memory!Addresses, Memory!Harbors, Memory!BufferInv, Memory!Sole, Memory!Somewhere,
       Memory!Handed, Memory!Queued, Memory!InOneQueue, Memory!InHands, Memory!InQueue
  <1> QED BY <1>1, <1>2 DEF NodeNext, QueueStep, StorageStep, TimerStep, nodeVars

(* The places of a buffer, counted as one.                                 *)
LEMMA PayloadInvImplies == Memory!PayloadInv => PayloadRight
  <1> SUFFICES ASSUME Memory!PayloadInv
               PROVE  Memory!OneOwner /\ Memory!NothingLost
    BY DEF PayloadRight
  <1>1. heap \subseteq 1..made /\ inbox \in [Memory!Owners -> Seq(0..made)] /\ ~misused
    BY DEF Memory!PayloadInv, Memory!PayloadTypeOK
  <1>2. ASSUME NEW b, NEW p
        PROVE  p \in Memory!Places(b) <=>
                 \/ \E s \in Memory!Owners : p = <<s, 0>> /\ Memory!InHands(s, b)
                 \/ \E s \in Memory!Owners : \E i \in DOMAIN inbox[s] :
                       p = <<s, i>> /\ Memory!InQueue(s, i, b)
                 \/ p = <<Memory!Harbors, -1>> /\ b \in held
    <2>1. p \in Memory!InHandsOf(b) <=> \E s \in Memory!Owners : p = <<s, 0>> /\ Memory!InHands(s, b)
      BY DEF Memory!InHandsOf
    <2>2. p \in Memory!WithHarbor(b) <=> p = <<Memory!Harbors, -1>> /\ b \in held
      BY DEF Memory!WithHarbor
    <2>3. \A s : p \in Memory!InQueueOf(s, b) <=>
            \E i \in DOMAIN inbox[s] : p = <<s, i>> /\ Memory!InQueue(s, i, b)
      BY DEF Memory!InQueueOf
    <2>4. p \in UNION {Memory!InQueueOf(s, b) : s \in Memory!Owners} <=>
            \E s \in Memory!Owners : p \in Memory!InQueueOf(s, b)
      OBVIOUS
    <2>5. p \in Memory!Places(b) <=>
            \/ p \in Memory!InHandsOf(b) \/ \E s \in Memory!Owners : p \in Memory!InQueueOf(s, b)
            \/ p \in Memory!WithHarbor(b)
      BY <2>4 DEF Memory!Places
    <2> QED BY <2>1, <2>2, <2>3, <2>5
  <1>3. \A b : Memory!Places(b) = {} <=> ~Memory!Somewhere(b)
    BY <1>2 DEF Memory!Somewhere, Memory!Handed, Memory!Queued
  <1>4. ASSUME NEW b \in 1..made, NEW p \in Memory!Places(b), NEW q \in Memory!Places(b)
        PROVE  p = q
    <2>1. Memory!Sole(b)
      BY DEF Memory!PayloadInv, Memory!BufferInv
    <2> QED BY <1>2, <1>4, <2>1 DEF Memory!Sole, Memory!InOneQueue, Memory!Handed, Memory!Queued
  <1> QED BY <1>1, <1>3, <1>4 DEF Memory!PayloadInv, Memory!BufferInv, Memory!OneOwner, Memory!NothingLost

(* Every buffer has one owner at a time, who frees it once, and is lost    *)
(* only where a send fails before the message went anywhere: skynet_send,  *)
(* skynet_forward, _dispatch_message and the harbor agree on who frees,    *)
(* for any number of services and buffers.                                 *)
THEOREM MemoryHasOneOwner == NodeSpec => []PayloadRight
  <1> QED BY PayloadStart, NodePayload, PayloadInvImplies, PTL DEF NodeSpec

-----------------------------------------------------------------------------
(* Handles and names (HandleStorage).  First the lists of names: the       *)
(* binary search answers what it should on a sorted list, and the list     *)
(* stays sorted.                                                           *)

Entries == Seq([name : Name, handle : Nat])
SortedNames(s) == \A i, j \in 1 .. Len(s) : i < j => s[i].name < s[j].name

(* What the search answers for b .. e.                                     *)
Answer(s, nm, b, e, v) ==
    \/ b > e /\ v = -b
    \/ b <= e /\ v \in b .. e /\ s[v].name = nm
    \/ /\ b <= e /\ -v \in b .. e + 1
       /\ \A i \in b .. e : IF i < -v THEN s[i].name < nm ELSE nm < s[i].name

LEMMA OneAnswer ==
    ASSUME NEW s \in Entries, Name \subseteq Nat, NEW nm \in Name, SortedNames(s),
           NEW b \in 1 .. Len(s) + 1, NEW e \in 0 .. Len(s),
           NEW v \in Int, NEW w \in Int,
           Answer(s, nm, b, e, v), Answer(s, nm, b, e, w)
    PROVE  v = w
  <1>1. \A i \in 1 .. Len(s) : s[i].name \in Nat
    <2>1. TAKE i \in 1 .. Len(s)
    <2>2. s[i] \in [name : Name, handle : Nat]
      BY ElementOfSeq DEF Entries
    <2>3. s[i].name \in Name
      BY <2>2
    <2> QED BY <2>3
  <1>2. CASE b > e
    BY <1>2 DEF Answer
  <1>3. CASE b <= e
    <2>1. \A i \in b .. e : i \in 1 .. Len(s)
      OBVIOUS
    <2>2. nm \in Nat
      OBVIOUS
    <2>3. CASE v \in b .. e /\ w \in b .. e
      BY <1>1, <1>3, <2>1, <2>2, <2>3 DEF Answer, SortedNames
    <2>4. CASE v \in b .. e /\ w \notin b .. e
      BY <1>1, <1>3, <2>1, <2>2, <2>4 DEF Answer
    <2>5. CASE v \notin b .. e /\ w \in b .. e
      BY <1>1, <1>3, <2>1, <2>2, <2>5 DEF Answer
    <2>6. CASE v \notin b .. e /\ w \notin b .. e
      <3>1. PICK x \in Int : x = -v
        OBVIOUS
      <3>2. PICK y \in Int : y = -w
        OBVIOUS
      <3>3. x \in b .. e + 1 /\ \A i \in b .. e : IF i < x THEN s[i].name < nm ELSE nm < s[i].name
        BY <1>3, <2>6, <3>1 DEF Answer
      <3>4. y \in b .. e + 1 /\ \A i \in b .. e : IF i < y THEN s[i].name < nm ELSE nm < s[i].name
        BY <1>3, <2>6, <3>2 DEF Answer
      <3>5. ~(x < y)
        <4>1. SUFFICES ASSUME x < y PROVE FALSE
          OBVIOUS
        <4>2. x \in b .. e
          BY <3>3, <3>4, <4>1
        <4>3. s[x].name < nm
          BY <3>4, <3>3, <4>1, <4>2
        <4>4. nm < s[x].name
          BY <3>3, <3>4, <4>2
        <4>5. s[x].name \in Nat
          BY <1>1, <2>1, <4>2
        <4> QED BY <2>2, <4>3, <4>4, <4>5
      <3>6. ~(y < x)
        <4>1. SUFFICES ASSUME y < x PROVE FALSE
          OBVIOUS
        <4>2. y \in b .. e
          BY <3>3, <3>4, <4>1
        <4>3. s[y].name < nm
          BY <3>4, <3>3, <4>1, <4>2
        <4>4. nm < s[y].name
          BY <3>3, <3>4, <4>2
        <4>5. s[y].name \in Nat
          BY <1>1, <2>1, <4>2
        <4> QED BY <2>2, <4>3, <4>4, <4>5
      <3> QED BY <3>1, <3>2, <3>5, <3>6
    <2> QED BY <2>3, <2>4, <2>5, <2>6
  <1> QED BY <1>2, <1>3
LEMMA NarrowAbove ==
    ASSUME NEW s \in Entries, Name \subseteq Nat, NEW nm \in Name, SortedNames(s),
           NEW b \in 1 .. Len(s) + 1, NEW e \in 0 .. Len(s), NEW mid \in b .. e,
           s[mid].name < nm, NEW v \in Int, Answer(s, nm, mid + 1, e, v)
    PROVE  Answer(s, nm, b, e, v)
  <1>1. \A i \in 1 .. Len(s) : s[i].name \in Nat
    <2>1. TAKE i \in 1 .. Len(s)
    <2>2. s[i] \in [name : Name, handle : Nat]
      BY ElementOfSeq DEF Entries
    <2>3. s[i].name \in Name
      BY <2>2
    <2> QED BY <2>3
  <1>2. nm \in Nat
    OBVIOUS
  <1>3. \A i \in b .. mid : s[i].name < nm
    <2>1. TAKE i \in b .. mid
    <2>2. i \in 1 .. Len(s) /\ mid \in 1 .. Len(s)
      OBVIOUS
    <2>3. i < mid => s[i].name < s[mid].name
      BY <2>2 DEF SortedNames
    <2> QED BY <1>1, <1>2, <2>2, <2>3
  <1>4. CASE v \in mid + 1 .. e /\ s[v].name = nm
    BY <1>4 DEF Answer
  <1>5. CASE ~(v \in mid + 1 .. e /\ s[v].name = nm)
    <2>1. PICK x \in Int : x = -v
      OBVIOUS
    <2>2. /\ x \in mid + 1 .. e + 1
          /\ \A i \in mid + 1 .. e : IF i < x THEN s[i].name < nm ELSE nm < s[i].name
      BY <1>5, <2>1 DEF Answer
    <2>3. \A i \in b .. e : IF i < x THEN s[i].name < nm ELSE nm < s[i].name
      BY <1>3, <2>2
    <2> QED BY <2>1, <2>2, <2>3 DEF Answer
  <1> QED BY <1>4, <1>5

LEMMA NarrowBelow ==
    ASSUME NEW s \in Entries, Name \subseteq Nat, NEW nm \in Name, SortedNames(s),
           NEW b \in 1 .. Len(s) + 1, NEW e \in 0 .. Len(s), NEW mid \in b .. e,
           nm < s[mid].name, NEW v \in Int, Answer(s, nm, b, mid - 1, v)
    PROVE  Answer(s, nm, b, e, v)
  <1>1. \A i \in 1 .. Len(s) : s[i].name \in Nat
    <2>1. TAKE i \in 1 .. Len(s)
    <2>2. s[i] \in [name : Name, handle : Nat]
      BY ElementOfSeq DEF Entries
    <2>3. s[i].name \in Name
      BY <2>2
    <2> QED BY <2>3
  <1>2. nm \in Nat
    OBVIOUS
  <1>3. \A i \in mid .. e : nm < s[i].name
    <2>1. TAKE i \in mid .. e
    <2>2. i \in 1 .. Len(s) /\ mid \in 1 .. Len(s)
      OBVIOUS
    <2>3. mid < i => s[mid].name < s[i].name
      BY <2>2 DEF SortedNames
    <2> QED BY <1>1, <1>2, <2>2, <2>3
  <1>4. CASE v \in b .. mid - 1 /\ s[v].name = nm
    BY <1>4 DEF Answer
  <1>5. CASE ~(v \in b .. mid - 1 /\ s[v].name = nm)
    <2>1. PICK x \in Int : x = -v
      OBVIOUS
    <2>2. /\ x \in b .. mid
          /\ \A i \in b .. mid - 1 : IF i < x THEN s[i].name < nm ELSE nm < s[i].name
      BY <1>5, <2>1 DEF Answer
    <2>3. \A i \in b .. e : IF i < x THEN s[i].name < nm ELSE nm < s[i].name
      BY <1>3, <2>2
    <2> QED BY <2>1, <2>2, <2>3 DEF Answer
  <1> QED BY <1>4, <1>5

(* The binary search ends with the answer.                                 *)
LEMMA SearchAnswers ==
    ASSUME NEW s \in Entries, Name \subseteq Nat, NEW nm \in Name, SortedNames(s)
    PROVE  Storage!Search(s, nm) \in Int /\ Answer(s, nm, 1, Len(s), Storage!Search(s, nm))
  <1> DEFINE B == 1 .. Len(s) + 1
             E == 0 .. Len(s)
             Look(f, r) ==
                 LET mid == (r[1] + r[2]) \div 2 IN
                 IF r[1] > r[2] THEN -r[1]
                 ELSE IF s[mid].name = nm THEN mid
                 ELSE IF s[mid].name < nm THEN f[<<mid + 1, r[2]>>]
                 ELSE f[<<r[1], mid - 1>>]
  <1>1. Len(s) \in Nat /\ nm \in Nat
    BY LenProperties DEF Entries
  <1>2. \A i \in 1 .. Len(s) : s[i].name \in Nat
    <2>1. TAKE i \in 1 .. Len(s)
    <2>2. s[i] \in [name : Name, handle : Nat]
      BY ElementOfSeq DEF Entries
    <2>3. s[i].name \in Name
      BY <2>2
    <2> QED BY <2>3
  <1>3. ASSUME NEW b \in B, NEW e \in E, NEW f,
               b <= e => \A c \in B, d \in E : d - c < e - b =>
                   f[<<c, d>>] \in Int /\ Answer(s, nm, c, d, f[<<c, d>>])
        PROVE  Look(f, <<b, e>>) \in Int /\ Answer(s, nm, b, e, Look(f, <<b, e>>))
    <2>1. CASE b > e
      BY <1>1, <2>1 DEF Answer
    <2>2. CASE b <= e
      <3>1. PICK mid \in Int : mid = (b + e) \div 2
        BY <1>1
      <3>2. mid \in b .. e
        BY <1>1, <2>2, <3>1
      <3>3. mid \in 1 .. Len(s)
        BY <1>1, <3>2
      <3>4. CASE s[mid].name = nm
        BY <1>1, <2>2, <3>1, <3>2, <3>4 DEF Answer
      <3>5. CASE s[mid].name # nm /\ s[mid].name < nm
        <4>1. mid + 1 \in B /\ e - (mid + 1) < e - b
          BY <1>1, <3>2, <3>3
        <4>2. f[<<mid + 1, e>>] \in Int /\ Answer(s, nm, mid + 1, e, f[<<mid + 1, e>>])
          BY <1>3, <2>2, <4>1
        <4>3. Answer(s, nm, b, e, f[<<mid + 1, e>>])
          BY <3>2, <3>5, <4>2, NarrowAbove
        <4>4. Look(f, <<b, e>>) = f[<<mid + 1, e>>]
          BY <1>1, <2>2, <3>1, <3>5
        <4> QED BY <4>2, <4>3, <4>4
      <3>6. CASE s[mid].name # nm /\ ~(s[mid].name < nm)
        <4>1. mid - 1 \in E /\ (mid - 1) - b < e - b
          BY <1>1, <3>2, <3>3
        <4>2. f[<<b, mid - 1>>] \in Int /\ Answer(s, nm, b, mid - 1, f[<<b, mid - 1>>])
          BY <1>3, <2>2, <4>1
        <4>3. nm < s[mid].name
          BY <1>1, <1>2, <3>3, <3>6
        <4>4. Answer(s, nm, b, e, f[<<b, mid - 1>>])
          BY <3>2, <4>2, <4>3, NarrowBelow
        <4>5. Look(f, <<b, e>>) = f[<<b, mid - 1>>]
          BY <1>1, <2>2, <3>1, <3>6
        <4> QED BY <4>2, <4>4, <4>5
      <3> QED BY <3>4, <3>5, <3>6
    <2> QED BY <1>1, <2>1, <2>2
  <1> HIDE DEF Look
  <1>4. \A b \in B, e \in E : \E v \in Int : Answer(s, nm, b, e, v)
    <2> DEFINE S == {n \in Nat : \A b \in B, e \in E : e - b < n =>
                        \E v \in Int : Answer(s, nm, b, e, v)}
               Some == [r \in B \X E |-> CHOOSE v \in Int : Answer(s, nm, r[1], r[2], v)]
    <2>1. \A b \in B, e \in E : (\E v \in Int : Answer(s, nm, b, e, v))
              => Some[<<b, e>>] \in Int /\ Answer(s, nm, b, e, Some[<<b, e>>])
      OBVIOUS
    <2> HIDE DEF Some
    <2>2. 0 \in S
      <3>1. ASSUME NEW b \in B, NEW e \in E, e - b < 0
            PROVE  \E v \in Int : Answer(s, nm, b, e, v)
        <4>1. b > e /\ -b \in Int
          BY <1>1, <3>1
        <4> QED BY <4>1 DEF Answer
      <3> QED BY <3>1
    <2>3. ASSUME NEW n \in S PROVE n + 1 \in S
      <3>1. ASSUME NEW b \in B, NEW e \in E, e - b < n + 1
            PROVE  \E v \in Int : Answer(s, nm, b, e, v)
        <4>1. ASSUME NEW c \in B, NEW d \in E, d - c < e - b
              PROVE  Some[<<c, d>>] \in Int /\ Answer(s, nm, c, d, Some[<<c, d>>])
          <5>1. d - c < n
            BY <1>1, <3>1, <4>1
          <5> QED BY <2>1, <5>1
        <4>2. Look(Some, <<b, e>>) \in Int /\ Answer(s, nm, b, e, Look(Some, <<b, e>>))
          BY <1>3, <4>1
        <4> QED BY <4>2
      <3> QED BY <3>1
    <2>4. S = Nat
      <3> HIDE DEF S
      <3>1. S \in SUBSET Nat
        BY DEF S
      <3> QED BY <2>2, <2>3, <3>1, EveryNumber
    <2>5. TAKE b \in B, e \in E
    <2>6. Len(s) + 1 \in S /\ e - b < Len(s) + 1
      BY <1>1, <2>4
    <2> QED BY <2>6
  <1>5. \E f : f = [r \in B \X E |-> Look(f, r)]
    <2> DEFINE Some == [r \in B \X E |-> CHOOSE v \in Int : Answer(s, nm, r[1], r[2], v)]
    <2>1. \A b \in B, e \in E : Some[<<b, e>>] \in Int /\ Answer(s, nm, b, e, Some[<<b, e>>])
      BY <1>4
    <2>2. ASSUME NEW b \in B, NEW e \in E
          PROVE  Some[<<b, e>>] = Look(Some, <<b, e>>)
      <3> HIDE DEF Some
      <3>1. Look(Some, <<b, e>>) \in Int /\ Answer(s, nm, b, e, Look(Some, <<b, e>>))
        BY <1>3, <2>1
      <3> QED BY <2>1, <3>1, OneAnswer
    <2> DEFINE Image == [r \in B \X E |-> Look(Some, r)]
    <2>3. ASSUME NEW r \in B \X E
          PROVE  Some[r] = Look(Some, r)
      <3>1. r = <<r[1], r[2]>> /\ r[1] \in B /\ r[2] \in E
        OBVIOUS
      <3> HIDE DEF Some
      <3> QED BY <2>2, <3>1
    <2>4. Some = Image
      BY <2>3
    <2> QED BY <2>4
  <1>6. PICK f : /\ f = [r \in B \X E |-> Look(f, r)]
                 /\ Storage!Search(s, nm) = f[<<1, Len(s)>>]
    <2> DEFINE F == CHOOSE f : f = [r \in B \X E |-> Look(f, r)]
    <2>1. F = [r \in B \X E |-> Look(F, r)]
      BY <1>5
    <2>2. Storage!Search(s, nm) = F[1, Len(s)]
      BY DEF Storage!Search, Look
    <2> HIDE DEF F
    <2> QED BY <2>1, <2>2
  <1>7. \A b \in B, e \in E : f[<<b, e>>] \in Int /\ Answer(s, nm, b, e, f[<<b, e>>])
    <2> DEFINE S == {n \in Nat : \A b \in B, e \in E : e - b < n =>
                        f[<<b, e>>] \in Int /\ Answer(s, nm, b, e, f[<<b, e>>])}
    <2>1. \A b \in B, e \in E : f[<<b, e>>] = Look(f, <<b, e>>)
      BY <1>6
    <2>2. 0 \in S
      <3>1. ASSUME NEW b \in B, NEW e \in E, e - b < 0
            PROVE  f[<<b, e>>] \in Int /\ Answer(s, nm, b, e, f[<<b, e>>])
        <4>1. ~(b <= e)
          BY <1>1, <3>1
        <4> QED BY <1>3, <2>1, <4>1
      <3> QED BY <3>1
    <2>3. ASSUME NEW n \in S PROVE n + 1 \in S
      <3>1. ASSUME NEW b \in B, NEW e \in E, e - b < n + 1
            PROVE  f[<<b, e>>] \in Int /\ Answer(s, nm, b, e, f[<<b, e>>])
        <4>1. ASSUME NEW c \in B, NEW d \in E, d - c < e - b
              PROVE  f[<<c, d>>] \in Int /\ Answer(s, nm, c, d, f[<<c, d>>])
          <5>1. d - c < n
            BY <1>1, <3>1, <4>1
          <5> QED BY <5>1
        <4> QED BY <1>3, <2>1, <4>1
      <3> QED BY <3>1
    <2>4. S = Nat
      <3> HIDE DEF S
      <3>1. S \in SUBSET Nat
        BY DEF S
      <3> QED BY <2>2, <2>3, <3>1, EveryNumber
    <2>5. TAKE b \in B, e \in E
    <2>6. Len(s) + 1 \in S /\ e - b < Len(s) + 1
      BY <1>1, <2>4
    <2> QED BY <2>6
  <1>8. 1 \in B /\ Len(s) \in E
    BY <1>1
  <1> QED BY <1>6, <1>7, <1>8
(* What a retired handle leaves of the list: the other entries, in order.  *)
LEMMA OthersKept ==
    ASSUME names \in Entries, SortedNames(names), NEW h
    PROVE  /\ Storage!NamesWithout(h) \in Entries
           /\ Name \subseteq Nat => SortedNames(Storage!NamesWithout(h))
           /\ \A i \in 1 .. Len(Storage!NamesWithout(h)) : \E j \in 1 .. Len(names) :
                  Storage!NamesWithout(h)[i] = names[j] /\ names[j].handle # h
           /\ \A j \in 1 .. Len(names) : names[j].handle # h =>
                  \E i \in 1 .. Len(Storage!NamesWithout(h)) : Storage!NamesWithout(h)[i] = names[j]
  <1> DEFINE N == Len(names)
             step == [i \in 1 .. N |-> [s \in Entries |->
                        IF names[i].handle = h THEN s ELSE Append(s, names[i])]]
  <1>1. N \in Nat /\ \A i \in 1 .. N : names[i] \in [name : Name, handle : Nat]
    BY LenProperties, ElementOfSeq DEF Entries
  <1>2. step \in [1 .. N -> [Entries -> Entries]]
    <2>1. \A s \in Entries, i \in 1 .. N : Append(s, names[i]) \in Entries
      BY <1>1, AppendProperties DEF Entries
    <2> QED BY <2>1
  <1>3. <<>> \in Entries
    BY DEF Entries
  <1> HIDE DEF step
  <1>4. PICK f \in [0 .. N -> Entries] :
          f[0] = <<>> /\ \A i \in 1 .. N : f[i] = step[i][f[i - 1]]
    <2> HIDE DEF N
    <2>1. N \in Nat
      BY <1>1
    <2>2. PICK f \in Recursion(N, Entries, <<>>, step) : TRUE
      BY <1>2, <1>3, <2>1, RecursionTo
    <2> QED BY <2>2 DEF Recursion
  <1>5. \A k : k \in [0 .. N -> Entries] =>
          \A i \in 1 .. N : step[i][k[i - 1]] =
              IF names[i].handle = h THEN k[i - 1] ELSE Append(k[i - 1], names[i])
    <2>1. TAKE k
    <2>2. HAVE k \in [0 .. N -> Entries]
    <2>3. TAKE i \in 1 .. N
    <2>4. i - 1 \in 0 .. N
      BY <1>1
    <2>5. k[i - 1] \in Entries
      BY <2>2, <2>4
    <2> QED BY <2>5 DEF step
  <1> DEFINE Kept(k) == [i \in 0 .. N |-> IF i = 0 THEN <<>>
                                          ELSE IF names[i].handle = h THEN k[i - 1]
                                          ELSE Append(k[i - 1], names[i])]
  <1>6. f = Kept(f)
    <2>1. ASSUME NEW i \in 0 .. N
          PROVE  f[i] = Kept(f)[i]
      <3>2. CASE i = 0
        BY <1>4, <3>2
      <3>3. CASE i # 0
        <4>1. i \in 1 .. N
          BY <1>1, <3>3
        <4> QED BY <1>4, <1>5, <3>3, <4>1
      <3> QED BY <3>2, <3>3
    <2> QED BY <1>4, <2>1
  <1>7. \E k : k = Kept(k)
    <2> HIDE DEF Kept
    <2> QED BY <1>6
  <1>8. PICK k : k = Kept(k) /\ Storage!NamesWithout(h) = k[N]
    <2> DEFINE K == CHOOSE k : k = Kept(k)
    <2>1. K = Kept(K)
      <3> HIDE DEF Kept
      <3> QED BY <1>7
    <2>2. Storage!NamesWithout(h) = K[N]
      BY DEF Storage!NamesWithout
    <2> HIDE DEF K
    <2> QED BY <2>1, <2>2
  <1>9. /\ k[0] = <<>>
        /\ \A i \in 1 .. N : k[i] = IF names[i].handle = h THEN k[i - 1] ELSE Append(k[i - 1], names[i])
    <2>1. 0 \in 0 .. N /\ \A i \in 1 .. N : i \in 0 .. N /\ i # 0
      BY <1>1
    <2>2. \A i \in 0 .. N : k[i] = IF i = 0 THEN <<>>
                                   ELSE IF names[i].handle = h THEN k[i - 1]
                                   ELSE Append(k[i - 1], names[i])
      BY <1>8
    <2> HIDE DEF Kept
    <2> QED BY <2>1, <2>2
  <1> HIDE DEF Kept
  <1> DEFINE Upto(n, s) ==
          /\ s \in Entries
          /\ \A i \in 1 .. Len(s) : \E j \in 1 .. n : s[i] = names[j] /\ names[j].handle # h
          /\ \A j \in 1 .. n : names[j].handle # h => \E i \in 1 .. Len(s) : s[i] = names[j]
          /\ Name \subseteq Nat => SortedNames(s)
             S == {n \in Nat : n <= N => Upto(n, k[n])}
  <1>10. 0 \in S
    <2>1. Upto(0, <<>>)
      BY <1>3 DEF SortedNames
    <2> QED BY <1>9, <2>1
  <1>11. ASSUME NEW n \in S PROVE n + 1 \in S
    <2>1. SUFFICES ASSUME n + 1 <= N PROVE Upto(n + 1, k[n + 1])
      OBVIOUS
    <2>2. n + 1 \in 1 .. N /\ n \in Nat /\ (n + 1) - 1 = n
      BY <1>1, <2>1
    <2>3. PICK s : s = k[n] /\ Upto(n, s)
      <3>1. n <= N
        BY <1>1, <2>1
      <3> HIDE DEF Upto
      <3> QED BY <3>1
    <2>4. k[n + 1] = IF names[n + 1].handle = h THEN s ELSE Append(s, names[n + 1])
      BY <1>9, <2>2, <2>3
    <2>5. PICK e \in [name : Name, handle : Nat] : e = names[n + 1]
      BY <1>1, <2>2
    <2>6. CASE e.handle = h
      <3>1. k[n + 1] = s
        BY <2>4, <2>5, <2>6
      <3>2. \A j \in 1 .. n + 1 : names[j].handle # h => j \in 1 .. n
        BY <2>2, <2>5, <2>6
      <3>3. 1 .. n \subseteq 1 .. n + 1
        BY <2>2
      <3> QED BY <2>3, <3>1, <3>2, <3>3
    <2>7. CASE e.handle # h
      <3>1. PICK u : u = Append(s, e)
        OBVIOUS
      <3>2. k[n + 1] = u
        BY <2>4, <2>5, <2>7, <3>1
      <3>3. /\ s \in Seq([name : Name, handle : Nat]) /\ u \in Seq([name : Name, handle : Nat])
            /\ Len(s) \in Nat /\ Len(u) = Len(s) + 1 /\ u[Len(u)] = e
            /\ \A i \in 1 .. Len(s) : u[i] = s[i]
        BY <2>3, <3>1, AppendProperties, LenProperties DEF Entries
      <3>4. u \in Entries
        BY <3>3 DEF Entries
      <3>5. ASSUME NEW i \in 1 .. Len(u)
            PROVE  \E j \in 1 .. n + 1 : u[i] = names[j] /\ names[j].handle # h
        <4>1. CASE i = Len(u)
          <5>1. n + 1 \in 1 .. n + 1 /\ u[i] = names[n + 1] /\ names[n + 1].handle # h
            BY <2>2, <2>5, <2>7, <3>3, <4>1
          <5> QED BY <5>1
        <4>2. CASE i # Len(u)
          <5>1. i \in 1 .. Len(s) /\ u[i] = s[i]
            BY <3>3, <4>2
          <5>2. PICK j \in 1 .. n : s[i] = names[j] /\ names[j].handle # h
            BY <2>3, <5>1
          <5>3. j \in 1 .. n + 1
            BY <2>2
          <5> QED BY <5>1, <5>2, <5>3
        <4> QED BY <4>1, <4>2
      <3>6. ASSUME NEW j \in 1 .. n + 1, names[j].handle # h
            PROVE  \E i \in 1 .. Len(u) : u[i] = names[j]
        <4>1. CASE j = n + 1
          <5>1. Len(u) \in 1 .. Len(u) /\ u[Len(u)] = names[j]
            BY <2>5, <3>3, <4>1
          <5> QED BY <5>1
        <4>2. CASE j # n + 1
          <5>1. j \in 1 .. n
            BY <2>2, <4>2
          <5>2. PICK i \in 1 .. Len(s) : s[i] = names[j]
            BY <2>3, <3>6, <5>1
          <5>3. i \in 1 .. Len(u) /\ u[i] = s[i]
            BY <3>3
          <5> QED BY <5>2, <5>3
        <4> QED BY <4>1, <4>2
      <3>7. ASSUME Name \subseteq Nat
            PROVE  SortedNames(u)
        <4>1. SUFFICES ASSUME NEW i \in 1 .. Len(u), NEW j \in 1 .. Len(u), i < j
                       PROVE  u[i].name < u[j].name
          BY DEF SortedNames
        <4>2. i \in 1 .. Len(s) /\ u[i] = s[i]
          BY <3>3, <4>1
        <4>3. CASE j = Len(u)
          <5>1. PICK l \in 1 .. n : s[i] = names[l]
            BY <2>3, <4>2
          <5>2. l \in 1 .. N /\ l < n + 1
            BY <1>1, <2>2
          <5>3. names[l].name < names[n + 1].name
            BY <2>2, <5>2 DEF SortedNames
          <5> QED BY <2>5, <3>3, <4>2, <4>3, <5>1, <5>3
        <4>4. CASE j # Len(u)
          <5>1. j \in 1 .. Len(s) /\ u[j] = s[j]
            BY <3>3, <4>4
          <5> QED BY <2>3, <3>7, <4>1, <4>2, <5>1 DEF SortedNames
        <4> QED BY <4>3, <4>4
      <3>8. Upto(n + 1, u)
        BY <3>4, <3>5, <3>6, <3>7
      <3> QED BY <3>2, <3>8
    <2> QED BY <2>6, <2>7
  <1>12. S = Nat
    <2>1. S \in SUBSET Nat
      OBVIOUS
    <2> HIDE DEF S
    <2> QED BY <1>10, <1>11, <2>1, EveryNumber
  <1>13. Upto(N, k[N])
    BY <1>1, <1>12
  <1> QED BY <1>8, <1>13

(* What the search finds in a sorted list.                                 *)
LookedUp(s, nm) == LET at == Storage!Search(s, nm) IN IF at > 0 THEN s[at].handle ELSE 0

LEMMA EntryTypes ==
    ASSUME NEW s \in Entries
    PROVE  /\ Len(s) \in Nat
           /\ \A i \in 1 .. Len(s) : s[i] \in [name : Name, handle : Nat]
                                     /\ s[i].name \in Name /\ s[i].handle \in Nat
  <1>1. Len(s) \in Nat /\ \A i \in 1 .. Len(s) : s[i] \in [name : Name, handle : Nat]
    BY LenProperties, ElementOfSeq DEF Entries
  <1>2. \A r \in [name : Name, handle : Nat] : r.name \in Name /\ r.handle \in Nat
    OBVIOUS
  <1> QED BY <1>1, <1>2

LEMMA LookupFinds ==
    ASSUME NEW s \in Entries, Name \subseteq Nat, NEW nm \in Name, SortedNames(s)
    PROVE  /\ LookedUp(s, nm) \in Nat
           /\ \A i \in 1 .. Len(s) : s[i].name = nm => LookedUp(s, nm) = s[i].handle
           /\ (\A i \in 1 .. Len(s) : s[i].name # nm) => LookedUp(s, nm) = 0
  <1>1. PICK at \in Int : at = Storage!Search(s, nm) /\ Answer(s, nm, 1, Len(s), at)
    BY SearchAnswers
  <1>2. /\ Len(s) \in Nat
        /\ \A i \in 1 .. Len(s) : s[i].name \in Nat /\ s[i].handle \in Nat
    BY EntryTypes
  <1>3. LookedUp(s, nm) = IF at > 0 THEN s[at].handle ELSE 0
    BY <1>1 DEF LookedUp
  <1>4. nm \in Nat
    OBVIOUS
  <1>5. CASE at > 0
    <2>1. at \in 1 .. Len(s) /\ s[at].name = nm
      BY <1>1, <1>2, <1>5 DEF Answer
    <2>2. ASSUME NEW i \in 1 .. Len(s), s[i].name = nm
          PROVE  i = at
      <3>1. ~(i < at) /\ ~(at < i)
        BY <1>2, <2>1, <2>2 DEF SortedNames
      <3> QED BY <2>1, <3>1
    <2> QED BY <1>2, <1>3, <1>5, <2>1, <2>2
  <1>6. CASE ~(at > 0)
    <2>1. \A i \in 1 .. Len(s) : s[i].name # nm
      <3>1. CASE 1 > Len(s)
        BY <1>2, <3>1
      <3>2. CASE 1 <= Len(s)
        <4>1. \A i \in 1 .. Len(s) : IF i < -at THEN s[i].name < nm ELSE nm < s[i].name
          BY <1>1, <1>6, <3>2 DEF Answer
        <4> QED BY <1>2, <1>4, <4>1
      <3> QED BY <1>2, <3>1, <3>2
    <2> QED BY <1>3, <1>6, <2>1
  <1> QED BY <1>1, <1>5, <1>6

(* A name that is new goes to its place, and the others stay.              *)
LEMMA InsertedSorted ==
    ASSUME names \in Entries, Name \subseteq Nat, SortedNames(names), NEW nm \in Name, NEW h \in Nat
    PROVE  /\ Storage!Inserted(nm, h) \in Entries /\ SortedNames(Storage!Inserted(nm, h))
           /\ \A i \in 1 .. Len(names) : \E j \in 1 .. Len(Storage!Inserted(nm, h)) :
                  Storage!Inserted(nm, h)[j] = names[i]
           /\ \A j \in 1 .. Len(Storage!Inserted(nm, h)) :
                  Storage!Inserted(nm, h)[j].name = nm
                  \/ \E i \in 1 .. Len(names) : Storage!Inserted(nm, h)[j] = names[i]
  <1>1. PICK at \in Int : at = Storage!Search(names, nm) /\ Answer(names, nm, 1, Len(names), at)
    BY SearchAnswers
  <1>2. PICK n \in Nat : n = Len(names)
    BY EntryTypes
  <1>3. \A i \in 1 .. n : names[i] \in [name : Name, handle : Nat] /\ names[i].name \in Nat
    BY <1>2, EntryTypes
  <1>4. nm \in Nat
    OBVIOUS
  <1>5. CASE at > 0
    <2>1. Storage!Inserted(nm, h) = names
      BY <1>1, <1>5 DEF Storage!Inserted
    <2> QED BY <2>1
  <1>6. CASE ~(at > 0)
    <2>1. PICK p \in 1 .. n + 1 : p = -at
      <3>1. CASE 1 > n
        BY <1>1, <1>2, <3>1 DEF Answer
      <3>2. CASE 1 <= n
        BY <1>1, <1>2, <1>6, <3>2 DEF Answer
      <3> QED BY <1>2, <3>1, <3>2
    <2>2. \A i \in 1 .. n : IF i < p THEN names[i].name < nm ELSE nm < names[i].name
      <3>1. CASE 1 > n
        BY <1>2, <3>1
      <3>2. CASE 1 <= n
        BY <1>1, <1>2, <1>6, <2>1, <3>2 DEF Answer
      <3> QED BY <1>2, <3>1, <3>2
    <2> DEFINE Entry1 == [name : Name, handle : Nat]
               new == [name |-> nm, handle |-> h]
               low == SubSeq(names, 1, p - 1)
               high == SubSeq(names, p, Len(names))
    <2>3. new \in Entry1 /\ new.name = nm
      OBVIOUS
    <2>4. low \in Seq(Entry1) /\ Len(low) = p - 1 /\ \A i \in 1 .. p - 1 : low[i] = names[i]
      <3>1. names \in Seq(Entry1) /\ 1 \in 1 .. Len(names) + 1 /\ p - 1 \in 0 .. Len(names)
        BY <1>2 DEF Entries
      <3> HIDE DEF Entry1
      <3>2. low \in Seq(Entry1) /\ Len(low) = (IF 1 <= p - 1 THEN p - 1 - 1 + 1 ELSE 0)
            /\ \A i \in 1 .. p - 1 - 1 + 1 : low[i] = names[1 + i - 1]
        BY <3>1, SubSeqProperties
      <3>3. p - 1 - 1 + 1 = p - 1 /\ (IF 1 <= p - 1 THEN p - 1 - 1 + 1 ELSE 0) = p - 1
        OBVIOUS
      <3>4. \A i \in 1 .. p - 1 : 1 + i - 1 = i
        OBVIOUS
      <3> HIDE DEF low
      <3> QED BY <3>2, <3>3, <3>4
    <2>5. /\ high \in Seq(Entry1) /\ Len(high) = n - p + 1
          /\ \A i \in 1 .. n - p + 1 : high[i] = names[p + i - 1]
      <3>1. names \in Seq(Entry1) /\ p \in 1 .. Len(names) + 1 /\ Len(names) \in 0 .. Len(names)
        BY <1>2 DEF Entries
      <3> HIDE DEF Entry1
      <3>2. high \in Seq(Entry1) /\ Len(high) = (IF p <= Len(names) THEN Len(names) - p + 1 ELSE 0)
            /\ \A i \in 1 .. Len(names) - p + 1 : high[i] = names[p + i - 1]
        BY <3>1, SubSeqProperties
      <3>3. (IF p <= Len(names) THEN Len(names) - p + 1 ELSE 0) = n - p + 1
        BY <1>2
      <3> HIDE DEF high
      <3> QED BY <1>2, <3>2, <3>3
    <2>6. Storage!Inserted(nm, h) = low \o <<new>> \o high
      <3>1. -at - 1 = p - 1 /\ -at = p
        BY <2>1
      <3> QED BY <1>1, <1>6, <3>1 DEF Storage!Inserted
    <2> HIDE DEF new, low, high, Entry1
    <2>7. PICK u : u = low \o <<new>>
      OBVIOUS
    <2>8. /\ u \in Seq(Entry1) /\ Len(u) = p
          /\ \A i \in 1 .. p : u[i] = IF i < p THEN low[i] ELSE new
      <3>1. <<new>> \in Seq(Entry1) /\ Len(<<new>>) = 1 /\ <<new>>[1] = new
        BY <2>3
      <3>2. u \in Seq(Entry1) /\ Len(u) = Len(low) + 1
        BY <2>4, <2>7, <3>1, ConcatProperties
      <3>3. \A i \in 1 .. Len(low) + 1 : u[i] = IF i <= Len(low) THEN low[i] ELSE <<new>>[i - Len(low)]
        BY <2>4, <2>7, <3>1, ConcatProperties
      <3>4. p - 1 + 1 = p /\ \A i \in 1 .. p : (i <= p - 1 <=> i < p) /\ (~(i < p) => i - (p - 1) = 1)
        OBVIOUS
      <3>5. Len(u) = p
        BY <2>4, <3>2, <3>4
      <3>6. ASSUME NEW i \in 1 .. p PROVE u[i] = IF i < p THEN low[i] ELSE new
        <4>1. u[i] = IF i <= p - 1 THEN low[i] ELSE <<new>>[i - (p - 1)]
          BY <2>4, <3>3, <3>4
        <4> QED BY <3>1, <3>4, <4>1
      <3> QED BY <3>2, <3>5, <3>6
    <2>9. PICK w : w = Storage!Inserted(nm, h)
      OBVIOUS
    <2>10. w = u \o high
      BY <2>6, <2>7, <2>9
    <2>11. w \in Seq(Entry1) /\ Len(w) = n + 1
      <3>1. w \in Seq(Entry1) /\ Len(w) = Len(u) + Len(high)
        BY <2>5, <2>8, <2>10, ConcatProperties
      <3>2. p + (n - p + 1) = n + 1
        OBVIOUS
      <3> QED BY <2>5, <2>8, <3>1, <3>2
    <2>12. \A i \in 1 .. n + 1 : w[i] = IF i < p THEN names[i] ELSE IF i = p THEN new ELSE names[i - 1]
      <3>1. TAKE i \in 1 .. n + 1
      <3>2. w[i] = IF i <= Len(u) THEN u[i] ELSE high[i - Len(u)]
        <4>1. i \in 1 .. Len(u) + Len(high)
          BY <2>5, <2>8
        <4> QED BY <2>5, <2>8, <2>10, <4>1, ConcatProperties
      <3>3. CASE i < p
        BY <2>4, <2>8, <3>2, <3>3
      <3>4. CASE i = p
        BY <2>8, <3>2, <3>4
      <3>5. CASE i > p
        <4>1. i - p \in 1 .. n - p + 1 /\ p + (i - p) - 1 = i - 1
          BY <3>5
        <4>2. w[i] = high[i - p]
          BY <2>8, <3>2, <3>5
        <4>3. high[i - p] = names[p + (i - p) - 1]
          BY <2>5, <4>1
        <4> QED BY <3>5, <4>1, <4>2, <4>3
      <3> QED BY <3>3, <3>4, <3>5
    <2>13. ASSUME NEW i \in 1 .. n + 1, NEW j \in 1 .. n + 1, i < j
           PROVE  w[i].name < w[j].name
      <3>1. CASE j < p
        BY <1>2, <2>12, <2>13, <3>1 DEF SortedNames
      <3>2. CASE j = p
        <4>1. i \in 1 .. n /\ i < p /\ w[i] = names[i] /\ w[j] = new
          BY <2>12, <2>13, <3>2
        <4> QED BY <2>2, <2>3, <4>1
      <3>3. CASE j > p /\ i < p
        <4>1. w[i] = names[i] /\ w[j] = names[j - 1] /\ i \in 1 .. n /\ j - 1 \in 1 .. n /\ i < j - 1
          BY <2>12, <3>3
        <4> QED BY <1>2, <4>1 DEF SortedNames
      <3>4. CASE j > p /\ i = p
        <4>1. w[i] = new /\ w[j] = names[j - 1] /\ j - 1 \in 1 .. n /\ ~(j - 1 < p)
          BY <2>12, <3>4
        <4> QED BY <2>2, <2>3, <4>1
      <3>5. CASE j > p /\ i > p
        <4>1. w[i] = names[i - 1] /\ w[j] = names[j - 1] /\ i - 1 \in 1 .. n /\ j - 1 \in 1 .. n
              /\ i - 1 < j - 1
          BY <2>12, <2>13, <3>5
        <4> QED BY <1>2, <4>1 DEF SortedNames
      <3> QED BY <3>1, <3>2, <3>3, <3>4, <3>5
    <2>14. ASSUME NEW i \in 1 .. n
           PROVE  \E j \in 1 .. n + 1 : w[j] = names[i]
      <3>1. CASE i < p
        <4>1. i \in 1 .. n + 1 /\ w[i] = names[i]
          BY <2>12, <3>1
        <4> QED BY <4>1
      <3>2. CASE ~(i < p)
        <4>1. i + 1 \in 1 .. n + 1 /\ ~(i + 1 < p) /\ i + 1 # p /\ (i + 1) - 1 = i
          BY <3>2
        <4>2. w[i + 1] = names[i]
          BY <2>12, <4>1
        <4> QED BY <4>1, <4>2
      <3> QED BY <3>1, <3>2
    <2>15. ASSUME NEW j \in 1 .. n + 1
           PROVE  w[j].name = nm \/ \E i \in 1 .. n : w[j] = names[i]
      <3>1. CASE j < p
        <4>1. j \in 1 .. n /\ w[j] = names[j]
          BY <2>12, <3>1
        <4> QED BY <4>1
      <3>2. CASE j = p
        BY <2>3, <2>12, <3>2
      <3>3. CASE j > p
        <4>1. j - 1 \in 1 .. n /\ w[j] = names[j - 1]
          BY <2>12, <3>3
        <4> QED BY <4>1
      <3> QED BY <3>1, <3>2, <3>3
    <2>16. w \in Entries
      BY <2>11 DEF Entries, Entry1
    <2>17. SortedNames(w)
      BY <2>11, <2>13 DEF SortedNames
    <2> QED BY <1>2, <2>9, <2>11, <2>14, <2>15, <2>16, <2>17
  <1> QED BY <1>5, <1>6

LEMMA UnstoredIs ==
    \A c : c \in Storage!Unstored <=> \E th \in Thread : threadPc[th] = "init" /\ arg[th].ctx = c
  BY DEF Storage!Unstored

LEMMA SameUnstored ==
    ASSUME \A u \in Thread : /\ threadPc'[u] = "init" <=> threadPc[u] = "init"
                             /\ threadPc[u] = "init" => arg'[u] = arg[u]
    PROVE  Storage!Unstored' = Storage!Unstored
  <1>1. Storage!Unstored' = {arg'[u].ctx : u \in {u \in Thread : threadPc'[u] = "init"}}
    BY DEF Storage!Unstored
  <1>2. {u \in Thread : threadPc'[u] = "init"} = {u \in Thread : threadPc[u] = "init"}
    OBVIOUS
  <1> QED BY <1>1, <1>2 DEF Storage!Unstored

LEMMA TableType ==
    ASSUME Storage!HandlesTypeOK
    PROVE  /\ slotSize \in Nat \ {0} /\ DOMAIN slot = 0 .. slotSize - 1
           /\ \A i \in 0 .. slotSize - 1 : slot[i] \in Context \cup {NULL}
           /\ \A c : c \in Storage!Registered <=> c # NULL /\ \E i \in 0 .. slotSize - 1 : slot[i] = c
  BY DEF Storage!HandlesTypeOK, Storage!Registered

(* The slot that a registration takes: that of handle h.                   *)
TakesSlot(th, c, sl, size, h) ==
    /\ h % size \in 0 .. size - 1 /\ sl[h % size] = NULL
    /\ slotSize' = size /\ slot' = [sl EXCEPT ![h % size] = c]
    /\ handleIndex' = h + 1 /\ given' = [given EXCEPT ![c] = h]
    /\ threadPc' = [threadPc EXCEPT ![th] = "init"]
    /\ arg' = [arg EXCEPT ![th] = [Storage!NoArg EXCEPT !.ctx = c, !.handle = h]]

LEMMA TakenPlace ==
    ASSUME Storage!StorageAssumption, Storage!HandlesTypeOK, NEW th \in Thread, NEW c \in Context,
           NEW size \in Nat \ {0}, NEW sl, Storage!Taken(th, c, sl, size)
    PROVE  \E h \in Nat : TakesSlot(th, c, sl, size, h)
  <1>1. PICK h \in Storage!Chosen(sl, size) :
        /\ slotSize' = size /\ slot' = [sl EXCEPT ![Storage!Hash(h, size)] = c]
        /\ handleIndex' = h + 1 /\ given' = [given EXCEPT ![c] = h]
        /\ threadPc' = [threadPc EXCEPT ![th] = "init"]
        /\ arg' = [arg EXCEPT ![th] = [Storage!NoArg EXCEPT !.ctx = c, !.handle = h]]
    BY DEF Storage!Taken
  <1>2. PICK i \in 0 .. size - 1 : h = (i + handleIndex) % (HANDLE_MASK + 1) /\ sl[Storage!Hash(h, size)] = NULL
    BY DEF Storage!Chosen
  <1>3. h \in Nat
    BY <1>2 DEF Storage!HandlesTypeOK, Storage!StorageAssumption
  <1>4. h % size \in 0 .. size - 1
    BY <1>3
  <1>5. TakesSlot(th, c, sl, size, h)
    BY <1>1, <1>2, <1>4 DEF Storage!Hash, TakesSlot
  <1> QED BY <1>3, <1>5

(* The table after a registration, when the contexts of M are those that   *)
(* were moved.                                                             *)
LEMMA TakenKeeps ==
    ASSUME Storage!StorageAssumption, Storage!HandlesInv,
           NEW th \in Thread, threadPc[th] = "run", NEW c \in Context, Storage!Freed(c),
           NEW size \in Nat \ {0}, NEW sl \in [0 .. size - 1 -> Context \cup {NULL}],
           NEW M \in SUBSET Context, moved \subseteq M,
           \A i \in 0 .. size - 1 : sl[i] # NULL =>
               sl[i] \in Storage!Registered /\ (sl[i] \notin M => given[sl[i]] % size = i),
           \A u \in Thread : threadPc[u] = "scan" /\ arg[u].n = 0 =>
               \A j \in 0 .. size - 1 : j < arg[u].i /\ sl[j] \in old[u] => sl[j] \in M,
           Storage!Taken(th, c, sl, size), early' = early \ {c}, moved' = M \ {c},
           old' = [u \in Thread |-> old[u] \ {c}], UNCHANGED <<names, handleOf, grabbed>>
    PROVE  Storage!HandlesInv'
  <1>0. Storage!HandlesTypeOK
    BY DEF Storage!HandlesInv
  <1>1. PICK h \in Nat : TakesSlot(th, c, sl, size, h)
    BY <1>0, TakenPlace
  <1> USE DEF TakesSlot
  <1> USE DEF Storage!HandlesInv
  <1>2. c # NULL /\ c \notin Storage!Registered /\ \A u \in Thread : grabbed[u].ctx # c
    BY DEF Storage!Freed, Storage!StorageAssumption
  <1>3. \A i \in 0 .. size - 1 : slot'[i] = IF i = h % size THEN c ELSE sl[i]
    BY <1>1
  <1>4. arg'[th] = [ctx |-> c, handle |-> h, i |-> 0, n |-> 0] /\ threadPc'[th] = "init"
        /\ \A u \in Thread : u # th => arg'[u] = arg[u] /\ threadPc'[u] = threadPc[u]
    BY <1>1 DEF Storage!HandlesTypeOK, Storage!NoArg
  <1>5. given'[c] = h /\ \A d \in Context : d # c => given'[d] = given[d]
    BY <1>1 DEF Storage!HandlesTypeOK
  <1>6. Storage!HandlesTypeOK'
    <2>1. slot' \in [0 .. size - 1 -> Context \cup {NULL}]
      BY <1>1
    <2>2. handleIndex' \in Nat /\ given' \in [Context -> Nat \cup {-1}]
      BY <1>1 DEF Storage!HandlesTypeOK
    <2>3. threadPc' \in [Thread -> {"run", "init", "scan", "deref", "retire", "aborted"}]
      BY <1>1 DEF Storage!HandlesTypeOK
    <2>4. arg' \in [Thread -> [ctx : Context \cup {NULL}, handle : Nat, i : Nat, n : Nat]]
      <3>1. [Storage!NoArg EXCEPT !.ctx = c, !.handle = h]
            \in [ctx : Context \cup {NULL}, handle : Nat, i : Nat, n : Nat]
        BY DEF Storage!NoArg
      <3> QED BY <1>1, <3>1 DEF Storage!HandlesTypeOK
    <2>5. old' \in [Thread -> SUBSET Context] /\ early' \subseteq Context /\ moved' \subseteq Context
      BY DEF Storage!HandlesTypeOK
    <2> QED BY <1>1, <2>1, <2>2, <2>3, <2>4, <2>5 DEF Storage!HandlesTypeOK
  <1>7. Storage!Placed'
    <2>1. SUFFICES ASSUME NEW i \in 0 .. size - 1, slot'[i] # NULL
                   PROVE  /\ given'[slot'[i]] \in Nat
                          /\ slot'[i] \notin M \ {c} => given'[slot'[i]] % size = i
                          /\ slot'[i] \notin Storage!Unstored' => handleOf[slot'[i]] = given'[slot'[i]]
      BY <1>1 DEF Storage!Placed, Storage!Hash
    <2>2. CASE i = h % size
      <3>1. slot'[i] = c
        BY <1>3, <2>2
      <3>2. c \in Storage!Unstored'
        BY <1>4 DEF Storage!Unstored
      <3> QED BY <1>5, <2>2, <3>1, <3>2
    <2>3. CASE i # h % size
      <3>1. slot'[i] = sl[i] /\ sl[i] \in Storage!Registered /\ sl[i] # c /\ sl[i] \in Context
        BY <1>2, <1>3, <2>1, <2>3
      <3>2. PICK k \in 0 .. slotSize - 1 : slot[k] = sl[i] /\ sl[i] # NULL
        BY <3>1, TableType
      <3>3. given[sl[i]] \in Nat /\ (sl[i] \notin Storage!Unstored => handleOf[sl[i]] = given[sl[i]])
        BY <3>2 DEF Storage!Placed
      <3>4. sl[i] \in Storage!Unstored => sl[i] \in Storage!Unstored'
        <4>1. SUFFICES ASSUME sl[i] \in Storage!Unstored PROVE sl[i] \in Storage!Unstored'
          OBVIOUS
        <4>2. PICK u \in Thread : threadPc[u] = "init" /\ arg[u].ctx = sl[i]
          BY <4>1, UnstoredIs
        <4>3. threadPc'[u] = "init" /\ arg'[u].ctx = sl[i]
          BY <1>4, <4>2
        <4> QED BY <4>3 DEF Storage!Unstored
      <3>5. sl[i] \notin M => given[sl[i]] % size = i
        BY <3>2
      <3> QED BY <1>5, <3>1, <3>3, <3>4, <3>5
    <2> QED BY <2>2, <2>3
  <1>8. Storage!Storing'
    <2>1. SUFFICES ASSUME NEW u \in Thread, threadPc'[u] = "init"
                   PROVE  arg'[u].ctx \in Context /\ arg'[u].handle = given'[arg'[u].ctx]
      BY DEF Storage!Storing
    <2>2. CASE u = th
      BY <1>4, <1>5, <2>2
    <2>3. CASE u # th
      <3>1. arg'[u] = arg[u] /\ threadPc[u] = "init"
        BY <1>4, <2>1, <2>3
      <3>2. arg[u].ctx # c
        BY <3>1 DEF Storage!Freed
      <3> QED BY <1>5, <3>1, <3>2 DEF Storage!Storing
    <2> QED BY <2>2, <2>3
  <1>9. Storage!GrabFindsOwner'
    <2>1. SUFFICES ASSUME NEW u \in Thread, grabbed[u].ctx \notin (early \ {c}) \cup {NULL}
                   PROVE  given'[grabbed[u].ctx] = grabbed[u].handle
      BY DEF Storage!GrabFindsOwner
    <2>2. grabbed[u].ctx \in Context /\ grabbed[u].ctx # c
      BY <1>2, <2>1 DEF Storage!HandlesTypeOK
    <2> QED BY <1>5, <2>1, <2>2 DEF Storage!GrabFindsOwner
  <1>10. Storage!NamesSorted'
    BY DEF Storage!NamesSorted
  <1>11. Storage!PassBehind'
    <2>1. SUFFICES ASSUME NEW u \in Thread
                   PROVE  /\ threadPc'[u] \in {"deref", "retire"} => arg'[u].n = 1
                          /\ threadPc'[u] = "deref" => arg'[u].ctx # NULL
                          /\ threadPc'[u] = "scan" /\ arg'[u].n = 0 =>
                               \A j \in 0 .. size - 1 :
                                   j < arg'[u].i /\ slot'[j] \in old'[u] => slot'[j] \in moved'
      BY <1>1 DEF Storage!PassBehind
    <2>2. CASE u = th
      BY <1>4, <2>2
    <2>3. CASE u # th
      <3>1. arg'[u] = arg[u] /\ threadPc'[u] = threadPc[u] /\ old'[u] = old[u] \ {c}
        BY <1>4, <2>3
      <3>2. ASSUME threadPc[u] = "scan", arg[u].n = 0, NEW j \in 0 .. size - 1, j < arg[u].i,
                   slot'[j] \in old[u] \ {c}
            PROVE  slot'[j] \in M \ {c}
        BY <1>3, <3>2
      <3> QED BY <3>1, <3>2 DEF Storage!PassBehind
    <2> QED BY <2>2, <2>3
  <1>12. Storage!AbortEmpties'
    <2>1. SUFFICES ASSUME NEW u \in Thread, threadPc'[u] = "aborted", NEW d \in Storage!Registered', d \in old'[u]
                   PROVE  d \in M \ {c}
      BY DEF Storage!AbortEmpties
    <2>2. threadPc[u] = "aborted" /\ d \in old[u] /\ d # c
      BY <1>4, <2>1
    <2>3. PICK i \in 0 .. size - 1 : slot'[i] = d /\ d # NULL
      BY <1>1, <2>1 DEF Storage!Registered
    <2>4. sl[i] = d
      BY <1>3, <2>2, <2>3
    <2>5. d \in Storage!Registered
      BY <2>3, <2>4
    <2>6. d \in moved
      BY <2>2, <2>5 DEF Storage!AbortEmpties
    <2> QED BY <2>2, <2>6
  <1> QED BY <1>6, <1>7, <1>8, <1>9, <1>10, <1>11, <1>12

(* The table of twice the size has the contexts where their handles lead,  *)
(* and none of them further to the front, if it was stored.                *)
LEMMA RehashKeeps ==
    ASSUME Storage!HandlesInv, NULL \notin {slot[i] : i \in DOMAIN slot}
    PROVE  /\ 2 * slotSize \in Nat \ {0}
           /\ Storage!Rehash(slotSize) \in [0 .. 2 * slotSize - 1 -> Context \cup {NULL}]
           /\ \A i \in 0 .. 2 * slotSize - 1 : Storage!Rehash(slotSize)[i] # NULL =>
                 \E j \in 0 .. slotSize - 1 :
                    /\ Storage!Rehash(slotSize)[i] = slot[j] /\ slot[j] \in Context
                    /\ slot[j] # NULL
                    /\ slot[j] \notin moved \cup Storage!Unstored =>
                          j <= i /\ given[slot[j]] % (2 * slotSize) = i
  <1> DEFINE sl == Storage!Rehash(slotSize)
             here(i) == {j \in 0 .. slotSize - 1 : Storage!Hash(handleOf[slot[j]], 2 * slotSize) = i}
  <1>1. slotSize \in Nat \ {0} /\ DOMAIN slot = 0 .. slotSize - 1 /\ 2 * slotSize \in Nat \ {0}
        /\ \A i \in 0 .. slotSize - 1 : slot[i] \in Context /\ slot[i] # NULL
    <2>1. slotSize \in Nat \ {0} /\ DOMAIN slot = 0 .. slotSize - 1
          /\ \A i \in 0 .. slotSize - 1 : slot[i] \in Context \cup {NULL}
      BY TableType DEF Storage!HandlesInv
    <2> QED BY <2>1
  <1>2. \A j \in 0 .. slotSize - 1 : slot[j] \notin moved \cup Storage!Unstored =>
           given[slot[j]] \in Nat /\ given[slot[j]] % slotSize = j
           /\ handleOf[slot[j]] = given[slot[j]]
    BY <1>1 DEF Storage!HandlesInv, Storage!Placed, Storage!Hash
  <1>3. \A i \in 0 .. 2 * slotSize - 1 : sl[i] = IF here(i) = {} THEN NULL
           ELSE slot[CHOOSE j \in here(i) : \A k \in here(i) : k <= j]
    BY DEF Storage!Rehash
  <1>4. \A i \in 0 .. 2 * slotSize - 1 : here(i) # {} =>
           \E j \in here(i) : sl[i] = slot[j]
    <2>1. TAKE i \in 0 .. 2 * slotSize - 1
    <2>2. HAVE here(i) # {}
    <2>3. here(i) \in SUBSET Nat /\ \A j \in here(i) : j < slotSize
      BY <1>1
    <2> DEFINE above == {n \in Nat : \A j \in here(i) : j <= n}
               top == CHOOSE j \in here(i) : \A k \in here(i) : k <= j
    <2> HIDE DEF here
    <2>4. above # {}
      <3>1. slotSize \in above
        BY <1>1, <2>3
      <3> QED BY <3>1
    <2>5. PICK n \in above : \A k \in above : n <= k
      BY <2>4, LeastNumber
    <2>6. n \in here(i)
      <3>1. SUFFICES ASSUME n \notin here(i) PROVE FALSE
        OBVIOUS
      <3>2. PICK j \in here(i) : j <= n
        BY <2>2
      <3>3. n # 0 /\ n - 1 \in Nat
        BY <2>3, <3>1, <3>2
      <3>4. \A k \in here(i) : k <= n - 1
        BY <2>3, <3>1
      <3>5. n - 1 \in above
        BY <3>3, <3>4
      <3> QED BY <2>5, <3>3, <3>5
    <2>7. top \in here(i)
      BY <2>5, <2>6
    <2>8. sl[i] = slot[top]
      <3> HIDE DEF sl
      <3> QED BY <1>3, <2>2
    <2> HIDE DEF top, sl
    <2> QED BY <2>7, <2>8
  <1>5. ASSUME NEW i \in 0 .. 2 * slotSize - 1, sl[i] # NULL
        PROVE  \E j \in 0 .. slotSize - 1 :
                  /\ sl[i] = slot[j] /\ slot[j] \in Context /\ slot[j] # NULL
                  /\ slot[j] \notin moved \cup Storage!Unstored =>
                        j <= i /\ given[slot[j]] % (2 * slotSize) = i
    <2>1. PICK j \in here(i) : sl[i] = slot[j]
      <3> HIDE DEF here, sl
      <3> QED BY <1>3, <1>4, <1>5
    <2>2. j \in 0 .. slotSize - 1 /\ handleOf[slot[j]] % (2 * slotSize) = i
      BY DEF Storage!Hash
    <2>3. ASSUME slot[j] \notin moved \cup Storage!Unstored
          PROVE  j <= i /\ given[slot[j]] % (2 * slotSize) = i
      <3>1. PICK x \in Nat : x = given[slot[j]]
        BY <1>2, <2>2, <2>3
      <3>2. x % (2 * slotSize) = i /\ x % slotSize = j
        BY <1>2, <2>2, <2>3, <3>1
      <3>3. j <= i
        BY <1>1, <3>2, DoubledHash
      <3> QED BY <3>1, <3>2, <3>3
    <2> HIDE DEF sl
    <2> QED BY <1>1, <2>1, <2>2, <2>3
  <1>6. \A i \in 0 .. 2 * slotSize - 1 : sl[i] \in Context \cup {NULL}
    <2> HIDE DEF sl
    <2> QED BY <1>5
  <1>7. sl \in [0 .. 2 * slotSize - 1 -> Context \cup {NULL}]
    <2>1. sl = [i \in 0 .. 2 * slotSize - 1 |-> sl[i]]
      BY DEF Storage!Rehash
    <2> HIDE DEF sl
    <2> QED BY <1>6, <2>1
  <1> QED BY <1>1, <1>5, <1>7

(* Contexts that stay where they are, or leave.                            *)
LEMMA FewerPlaced ==
    ASSUME Storage!StorageAssumption, Storage!HandlesInv,
           UNCHANGED <<slotSize, given, handleOf, moved>>, Storage!Unstored' = Storage!Unstored,
           slot' \in [0 .. slotSize - 1 -> Context \cup {NULL}],
           \A i \in 0 .. slotSize - 1 : slot'[i] \in {slot[i], NULL}
    PROVE  Storage!Placed' /\ Storage!Registered' \subseteq Storage!Registered
  <1>1. slotSize \in Nat \ {0} /\ DOMAIN slot = 0 .. slotSize - 1 /\ DOMAIN slot' = 0 .. slotSize - 1
    BY TableType DEF Storage!HandlesInv
  <1>2. Storage!Registered' \subseteq Storage!Registered
    <2>1. SUFFICES ASSUME NEW c \in Storage!Registered' PROVE c \in Storage!Registered
      OBVIOUS
    <2>2. PICK i \in 0 .. slotSize - 1 : slot'[i] = c /\ c # NULL
      BY <1>1, <2>1 DEF Storage!Registered
    <2>3. slot[i] = c
      BY <2>2
    <2> QED BY <1>1, <2>2, <2>3 DEF Storage!Registered
  <1>3. Storage!Placed'
    <2>1. SUFFICES ASSUME NEW i \in 0 .. slotSize - 1, slot'[i] # NULL
                   PROVE  /\ given[slot'[i]] \in Nat
                          /\ slot'[i] \notin moved => Storage!Hash(given[slot'[i]], slotSize) = i
                          /\ slot'[i] \notin Storage!Unstored => handleOf[slot'[i]] = given[slot'[i]]
      BY DEF Storage!Placed, Storage!Hash
    <2>2. slot'[i] = slot[i]
      BY <2>1
    <2> QED BY <2>1, <2>2 DEF Storage!HandlesInv, Storage!Placed
  <1> QED BY <1>2, <1>3

LEMMA RetiredLeaves ==
    ASSUME Storage!StorageAssumption, Storage!HandlesInv, NEW h \in Nat, Storage!Retired(h)
    PROVE  /\ slot' \in [0 .. slotSize - 1 -> Context \cup {NULL}]
           /\ \A i \in 0 .. slotSize - 1 : slot'[i] \in {slot[i], NULL}
           /\ names' \in Entries /\ SortedNames(names')
           /\ Storage!Found(h) = NULL => UNCHANGED <<slot, names>>
           /\ Storage!Found(h) # NULL => slot'[Storage!Hash(h, slotSize)] = NULL /\ names' = Storage!NamesWithout(h)
  <1>1. slot \in [0 .. slotSize - 1 -> Context \cup {NULL}] /\ slotSize \in Nat \ {0}
    BY DEF Storage!HandlesInv, Storage!HandlesTypeOK
  <1>2. names \in Entries /\ SortedNames(names) /\ Name \subseteq Nat
    BY DEF Storage!HandlesInv, Storage!HandlesTypeOK, Storage!NamesSorted, Entries, SortedNames, Storage!StorageAssumption
  <1>3. CASE Storage!Found(h) = NULL
    BY <1>1, <1>2, <1>3 DEF Storage!Retired
  <1>4. CASE Storage!Found(h) # NULL
    <2>1. slot' = [slot EXCEPT ![Storage!Hash(h, slotSize)] = NULL] /\ names' = Storage!NamesWithout(h)
      BY <1>4 DEF Storage!Retired
    <2>2. Storage!Hash(h, slotSize) \in 0 .. slotSize - 1
      BY <1>1 DEF Storage!Hash
    <2>3. names' \in Entries /\ SortedNames(names')
      BY <1>2, <2>1, OthersKept
    <2> QED BY <1>1, <1>4, <2>1, <2>2, <2>3
  <1> QED BY <1>3, <1>4

LEMMA RegisterKeeps ==
    ASSUME Storage!StorageAssumption, Storage!HandlesInv, NEW th \in Thread, Storage!Register(th)
    PROVE  Storage!HandlesInv'
  <1>1. PICK c \in Context :
          /\ threadPc[th] = "run" /\ Storage!Freed(c)
          /\ IF NULL \in {slot[i] : i \in DOMAIN slot}
             THEN Storage!Taken(th, c, slot, slotSize) /\ moved' = moved \ {c}
             ELSE IF Storage!Collision(slotSize)
                  THEN UNCHANGED <<Storage!table, given, threadPc, arg, moved>>
                  ELSE /\ Storage!Taken(th, c, Storage!Rehash(slotSize), 2 * slotSize)
                       /\ moved' = (moved \cup Storage!Unstored) \ {c}
          /\ early' = early \ {c}
          /\ old' = [u \in Thread |-> old[u] \ {c}]
          /\ UNCHANGED <<names, handleOf, grabbed>>
    BY DEF Storage!Register
  <1>2. slotSize \in Nat \ {0} /\ slot \in [0 .. slotSize - 1 -> Context \cup {NULL}]
        /\ DOMAIN slot = 0 .. slotSize - 1 /\ moved \in SUBSET Context /\ early \in SUBSET Context
    BY DEF Storage!HandlesInv, Storage!HandlesTypeOK
  <1>3. CASE NULL \in {slot[i] : i \in DOMAIN slot}
    <2>1. ASSUME NEW i \in 0 .. slotSize - 1, slot[i] # NULL
          PROVE  slot[i] \in Storage!Registered /\ (slot[i] \notin moved => given[slot[i]] % slotSize = i)
      BY <1>2, <2>1 DEF Storage!HandlesInv, Storage!Placed, Storage!Hash, Storage!Registered
    <2>2. ASSUME NEW u \in Thread, threadPc[u] = "scan", arg[u].n = 0, NEW j \in 0 .. slotSize - 1,
                 j < arg[u].i, slot[j] \in old[u]
          PROVE  slot[j] \in moved
      BY <2>2 DEF Storage!HandlesInv, Storage!PassBehind
    <2>3. Storage!Taken(th, c, slot, slotSize) /\ moved' = moved \ {c}
      BY <1>1, <1>3
    <2> QED BY <1>1, <1>2, <2>1, <2>2, <2>3, TakenKeeps
  <1>4. CASE NULL \notin {slot[i] : i \in DOMAIN slot} /\ Storage!Collision(slotSize)
    <2>1. UNCHANGED <<slotSize, slot, handleIndex, given, threadPc, arg, names, handleOf, grabbed, moved>>
      BY <1>1, <1>4 DEF Storage!table
    <2>2. Storage!HandlesTypeOK'
      <3>1. old' \in [Thread -> SUBSET Context] /\ early' \subseteq Context
        BY <1>1, <1>2 DEF Storage!HandlesInv, Storage!HandlesTypeOK
      <3> QED BY <2>1, <3>1 DEF Storage!HandlesInv, Storage!HandlesTypeOK
    <2>3. Storage!Placed' /\ Storage!Storing' /\ Storage!GrabFindsOwner' /\ Storage!NamesSorted'
      <3>1. Storage!Placed'
        <4>1. Storage!Unstored' = Storage!Unstored
          BY <2>1, SameUnstored
        <4> QED BY <2>1, <4>1 DEF Storage!HandlesInv, Storage!Placed, Storage!Hash
      <3>2. Storage!Storing' /\ Storage!NamesSorted'
        BY <2>1 DEF Storage!HandlesInv, Storage!Storing, Storage!NamesSorted
      <3>3. Storage!GrabFindsOwner'
        <4>1. SUFFICES ASSUME NEW u \in Thread, grabbed[u].ctx \notin (early \ {c}) \cup {NULL}
                       PROVE  given[grabbed[u].ctx] = grabbed[u].handle
          BY <1>1, <2>1 DEF Storage!GrabFindsOwner
        <4>2. grabbed[u].ctx # c
          BY <1>1 DEF Storage!Freed
        <4> QED BY <4>1, <4>2 DEF Storage!HandlesInv, Storage!GrabFindsOwner
      <3> QED BY <3>1, <3>2, <3>3
    <2>4. \A u \in Thread : old'[u] \subseteq old[u]
      BY <1>1
    <2>5. Storage!PassBehind'
      BY <2>1, <2>4 DEF Storage!HandlesInv, Storage!PassBehind
    <2>6. Storage!AbortEmpties'
      <3>1. Storage!Registered' = Storage!Registered
        BY <2>1 DEF Storage!Registered
      <3> QED BY <2>1, <2>4, <3>1 DEF Storage!HandlesInv, Storage!AbortEmpties
    <2> QED BY <2>2, <2>3, <2>5, <2>6 DEF Storage!HandlesInv
  <1>5. CASE NULL \notin {slot[i] : i \in DOMAIN slot} /\ ~Storage!Collision(slotSize)
    <2> DEFINE sl == Storage!Rehash(slotSize)
               M == moved \cup Storage!Unstored
    <2>1. Storage!Taken(th, c, sl, 2 * slotSize) /\ moved' = M \ {c}
      BY <1>1, <1>5
    <2>2. /\ 2 * slotSize \in Nat \ {0}
          /\ sl \in [0 .. 2 * slotSize - 1 -> Context \cup {NULL}]
          /\ \A i \in 0 .. 2 * slotSize - 1 : sl[i] # NULL =>
               \E j \in 0 .. slotSize - 1 :
                  /\ sl[i] = slot[j] /\ slot[j] \in Context /\ slot[j] # NULL
                  /\ slot[j] \notin M => j <= i /\ given[slot[j]] % (2 * slotSize) = i
      BY <1>5, RehashKeeps
    <2>3. M \in SUBSET Context /\ moved \subseteq M
      <3>1. Storage!Unstored \subseteq Context
        BY DEF Storage!Unstored, Storage!HandlesInv, Storage!Storing
      <3> QED BY <1>2, <3>1
    <2> HIDE DEF sl, M
    <2>4. ASSUME NEW i \in 0 .. 2 * slotSize - 1, sl[i] # NULL
          PROVE  sl[i] \in Storage!Registered /\ (sl[i] \notin M => given[sl[i]] % (2 * slotSize) = i)
      <3>1. PICK j \in 0 .. slotSize - 1 :
                  /\ sl[i] = slot[j] /\ slot[j] # NULL
                  /\ slot[j] \notin M => given[slot[j]] % (2 * slotSize) = i
        BY <2>2, <2>4
      <3>2. slot[j] \in Storage!Registered
        BY <1>2, <3>1 DEF Storage!Registered
      <3> QED BY <3>1, <3>2
    <2>5. ASSUME NEW u \in Thread, threadPc[u] = "scan", arg[u].n = 0, NEW i \in 0 .. 2 * slotSize - 1,
                 i < arg[u].i, sl[i] \in old[u]
          PROVE  sl[i] \in M
      <3>1. sl[i] # NULL
        BY <2>5 DEF Storage!HandlesInv, Storage!HandlesTypeOK, Storage!StorageAssumption
      <3>2. PICK j \in 0 .. slotSize - 1 : sl[i] = slot[j] /\ (slot[j] \notin M => j <= i)
        BY <2>2, <3>1
      <3>3. arg[u].i \in Nat
        BY DEF Storage!HandlesInv, Storage!HandlesTypeOK
      <3>4. SUFFICES ASSUME slot[j] \notin M PROVE FALSE
        BY <3>2
      <3>5. j < arg[u].i
        BY <1>2, <2>5, <3>2, <3>3, <3>4
      <3>6. slot[j] \in moved
        BY <2>5, <3>2, <3>5 DEF Storage!HandlesInv, Storage!PassBehind
      <3> QED BY <2>3, <3>4, <3>6
    <2> QED BY <1>1, <2>1, <2>2, <2>3, <2>4, <2>5, TakenKeeps
  <1> QED BY <1>3, <1>4, <1>5

LEMMA InitHandleKeeps ==
    ASSUME Storage!StorageAssumption, Storage!HandlesInv, NEW th \in Thread, Storage!InitHandle(th)
    PROVE  Storage!HandlesInv'
  <1> USE DEF Storage!HandlesInv
  <1>1. /\ threadPc[th] = "init" /\ handleOf' = [handleOf EXCEPT ![arg[th].ctx] = arg[th].handle]
        /\ threadPc' = [threadPc EXCEPT ![th] = "run"] /\ arg' = [arg EXCEPT ![th] = Storage!NoArg]
        /\ UNCHANGED <<slotSize, slot, handleIndex, names, given, grabbed, old, early, moved>>
    BY DEF Storage!InitHandle, Storage!table, Storage!past
  <1>2. PICK c \in Context : c = arg[th].ctx /\ arg[th].handle = given[c] /\ arg[th].handle \in Nat
    BY <1>1 DEF Storage!Storing, Storage!HandlesTypeOK
  <1>3. /\ threadPc'[th] = "run" /\ arg'[th] = Storage!NoArg
        /\ \A u \in Thread : u # th => threadPc'[u] = threadPc[u] /\ arg'[u] = arg[u]
    BY <1>1 DEF Storage!HandlesTypeOK
  <1>4. handleOf'[c] = given[c] /\ \A d \in Context : d # c => handleOf'[d] = handleOf[d]
    BY <1>1, <1>2 DEF Storage!HandlesTypeOK
  <1>5. Storage!HandlesTypeOK'
    <2>1. Storage!NoArg \in [ctx : Context \cup {NULL}, handle : Nat, i : Nat, n : Nat]
      BY DEF Storage!NoArg
    <2> QED BY <1>1, <1>2, <2>1 DEF Storage!HandlesTypeOK
  <1>6. Storage!Placed'
    <2>1. SUFFICES ASSUME NEW i \in 0 .. slotSize - 1, slot[i] # NULL
                   PROVE  /\ given[slot[i]] \in Nat
                          /\ slot[i] \notin moved => Storage!Hash(given[slot[i]], slotSize) = i
                          /\ slot[i] \notin Storage!Unstored' => handleOf'[slot[i]] = given[slot[i]]
      BY <1>1 DEF Storage!Placed, Storage!Hash
    <2>2. slot[i] \in Context
      BY <2>1 DEF Storage!HandlesTypeOK
    <2>3. /\ given[slot[i]] \in Nat
          /\ slot[i] \notin moved => Storage!Hash(given[slot[i]], slotSize) = i
          /\ slot[i] \notin Storage!Unstored => handleOf[slot[i]] = given[slot[i]]
      BY <2>1 DEF Storage!Placed
    <2>4. slot[i] \in Storage!Unstored => slot[i] = c \/ slot[i] \in Storage!Unstored'
      <3>1. SUFFICES ASSUME slot[i] \in Storage!Unstored, slot[i] # c PROVE slot[i] \in Storage!Unstored'
        OBVIOUS
      <3>2. PICK u \in Thread : threadPc[u] = "init" /\ arg[u].ctx = slot[i]
        BY <3>1, UnstoredIs
      <3>3. threadPc'[u] = "init" /\ arg'[u].ctx = slot[i]
        BY <1>2, <1>3, <3>1, <3>2
      <3> QED BY <3>3 DEF Storage!Unstored
    <2> QED BY <1>2, <1>4, <2>2, <2>3, <2>4
  <1>7. Storage!Storing'
    BY <1>1, <1>3 DEF Storage!Storing
  <1>8. Storage!GrabFindsOwner' /\ Storage!NamesSorted'
    BY <1>1 DEF Storage!GrabFindsOwner, Storage!NamesSorted
  <1>9. Storage!PassBehind'
    <2>1. SUFFICES ASSUME NEW u \in Thread
                   PROVE  /\ threadPc'[u] \in {"deref", "retire"} => arg'[u].n = 1
                          /\ threadPc'[u] = "deref" => arg'[u].ctx # NULL
                          /\ threadPc'[u] = "scan" /\ arg'[u].n = 0 =>
                               \A j \in 0 .. slotSize - 1 :
                                   j < arg'[u].i /\ slot[j] \in old[u] => slot[j] \in moved
      BY <1>1 DEF Storage!PassBehind
    <2>2. CASE u = th
      BY <1>3, <2>2
    <2>3. CASE u # th
      BY <1>3, <2>3 DEF Storage!PassBehind
    <2> QED BY <2>2, <2>3
  <1>10. Storage!AbortEmpties'
    <2>1. Storage!Registered' = Storage!Registered
      BY <1>1 DEF Storage!Registered
    <2> QED BY <1>1, <1>3, <2>1 DEF Storage!AbortEmpties
  <1> QED BY <1>5, <1>6, <1>7, <1>8, <1>9, <1>10

LEMMA GrabKeeps ==
    ASSUME Storage!StorageAssumption, Storage!HandlesInv, NEW th \in Thread, Storage!Grab(th) \/ Storage!Release(th)
    PROVE  Storage!HandlesInv'
  <1> USE DEF Storage!HandlesInv
  <1>1. /\ UNCHANGED <<slotSize, slot, handleIndex, names, handleOf, given, threadPc, arg, old, moved>>
        /\ \E g \in [ctx : Context \cup {NULL}, handle : Nat] :
              grabbed' = [grabbed EXCEPT ![th] = g]
              /\ (g.ctx \notin early' \cup {NULL} => given[g.ctx] = g.handle)
        /\ early \subseteq early' /\ early' \subseteq Context
    <2>1. Storage!NoGrab \in [ctx : Context \cup {NULL}, handle : Nat] /\ Storage!NoGrab.ctx = NULL
          /\ early \subseteq Context
      BY DEF Storage!NoGrab, Storage!HandlesTypeOK
    <2>2. CASE Storage!Release(th)
      BY <2>1, <2>2 DEF Storage!Release, Storage!table, Storage!past
    <2>3. CASE Storage!Grab(th)
      <3>1. PICK h \in Storage!Handle \ {0} :
              /\ grabbed' = [grabbed EXCEPT ![th] = IF Storage!Found(h) = NULL THEN Storage!NoGrab
                                     ELSE [ctx |-> Storage!Found(h), handle |-> h]]
              /\ early' = early \cup ({Storage!Found(h)} \cap Storage!Unstored)
              /\ UNCHANGED <<slotSize, slot, handleIndex, names, handleOf, given, threadPc, arg, old, moved>>
        BY <2>3 DEF Storage!Grab, Storage!table
      <3>2. h \in Nat
        BY DEF Storage!Handle, Storage!StorageAssumption
      <3>3. Storage!Unstored \subseteq Context
        BY DEF Storage!Unstored, Storage!Storing
      <3>4. early \subseteq early' /\ early' \subseteq Context
        BY <2>1, <3>1, <3>3
      <3>5. CASE Storage!Found(h) = NULL
        BY <2>1, <3>1, <3>4, <3>5
      <3>6. CASE Storage!Found(h) # NULL
        <4>1. PICK i \in 0 .. slotSize - 1 : Storage!Found(h) = slot[i] /\ slot[i] # NULL /\ handleOf[slot[i]] = h
          <5>1. Storage!Hash(h, slotSize) \in 0 .. slotSize - 1
            BY <3>2 DEF Storage!Hash, Storage!HandlesTypeOK
          <5> QED BY <3>6, <5>1 DEF Storage!Found
        <4>2. slot[i] \in Context /\ (slot[i] \notin Storage!Unstored => given[slot[i]] = h)
          BY <4>1 DEF Storage!HandlesTypeOK, Storage!Placed
        <4>3. [ctx |-> Storage!Found(h), handle |-> h] \in [ctx : Context \cup {NULL}, handle : Nat]
          BY <3>2, <4>1, <4>2
        <4>4. slot[i] \notin early' => slot[i] \notin Storage!Unstored
          BY <3>1, <4>1
        <4> QED BY <3>1, <3>4, <3>6, <4>1, <4>2, <4>3, <4>4
      <3> QED BY <3>5, <3>6
    <2> QED BY <2>2, <2>3
  <1>2. PICK g \in [ctx : Context \cup {NULL}, handle : Nat] :
           grabbed' = [grabbed EXCEPT ![th] = g] /\ (g.ctx \notin early' \cup {NULL} => given[g.ctx] = g.handle)
    BY <1>1
  <1>3. Storage!HandlesTypeOK'
    BY <1>1, <1>2 DEF Storage!HandlesTypeOK
  <1>4. Storage!Placed' /\ Storage!Storing' /\ Storage!NamesSorted' /\ Storage!PassBehind'
    <2>1. Storage!Unstored' = Storage!Unstored
      BY <1>1, SameUnstored
    <2> QED BY <1>1, <2>1 DEF Storage!Placed, Storage!Storing, Storage!NamesSorted, Storage!PassBehind, Storage!Hash
  <1>5. Storage!AbortEmpties'
    BY <1>1 DEF Storage!AbortEmpties, Storage!Registered
  <1>6. Storage!GrabFindsOwner'
    <2>1. grabbed'[th] = g /\ \A u \in Thread : u # th => grabbed'[u] = grabbed[u]
      BY <1>2 DEF Storage!HandlesTypeOK
    <2>2. SUFFICES ASSUME NEW u \in Thread, grabbed'[u].ctx \notin early' \cup {NULL}
                   PROVE  given[grabbed'[u].ctx] = grabbed'[u].handle
      BY <1>1 DEF Storage!GrabFindsOwner
    <2>3. CASE u = th
      BY <1>2, <2>1, <2>2, <2>3
    <2>4. CASE u # th
      BY <1>1, <2>1, <2>2, <2>4 DEF Storage!GrabFindsOwner
    <2> QED BY <2>3, <2>4
  <1> QED BY <1>3, <1>4, <1>5, <1>6

LEMMA HandleRetireKeeps ==
    ASSUME Storage!StorageAssumption, Storage!HandlesInv, NEW th \in Thread, NEW h \in Nat, Storage!Retired(h),
           UNCHANGED <<slotSize, handleIndex, handleOf, given, grabbed, old, early, moved>>,
           \/ UNCHANGED <<threadPc, arg>>
           \/ /\ threadPc[th] = "retire" /\ arg' = [arg EXCEPT ![th].i = @ + 1]
              /\ threadPc' = [threadPc EXCEPT ![th] = "scan"]
    PROVE  Storage!HandlesInv'
  <1> USE DEF Storage!HandlesInv
  <1>1. /\ slot' \in [0 .. slotSize - 1 -> Context \cup {NULL}]
        /\ \A i \in 0 .. slotSize - 1 : slot'[i] \in {slot[i], NULL}
        /\ names' \in Entries /\ SortedNames(names')
    BY RetiredLeaves
  <1>2. Storage!Placed' /\ Storage!Registered' \subseteq Storage!Registered
    <2>1. ASSUME NEW u \in Thread
          PROVE  \/ threadPc'[u] = threadPc[u] /\ arg'[u] = arg[u]
                 \/ threadPc'[u] # "init" /\ threadPc[u] # "init"
      BY DEF Storage!HandlesTypeOK
    <2>2. Storage!Unstored' = Storage!Unstored
      <3>1. ASSUME NEW u \in Thread
            PROVE  /\ threadPc'[u] = "init" <=> threadPc[u] = "init"
                   /\ threadPc[u] = "init" => arg'[u] = arg[u]
        BY <2>1
      <3> HIDE DEF Storage!HandlesInv
      <3> QED BY <3>1, SameUnstored
    <2> QED BY <1>1, <2>2, FewerPlaced
  <1>3. \A u \in Thread : \/ threadPc'[u] = threadPc[u] /\ arg'[u] = arg[u]
                          \/ /\ u = th /\ threadPc[th] = "retire" /\ threadPc'[u] = "scan"
                             /\ arg'[u].n = arg[th].n /\ arg[th].n = 1
    BY DEF Storage!HandlesTypeOK, Storage!PassBehind
  <1>4. Storage!HandlesTypeOK'
    <2>1. arg' \in [Thread -> [ctx : Context \cup {NULL}, handle : Nat, i : Nat, n : Nat]]
      <3>1. arg[th] \in [ctx : Context \cup {NULL}, handle : Nat, i : Nat, n : Nat]
        BY DEF Storage!HandlesTypeOK
      <3>2. [arg[th] EXCEPT !.i = @ + 1] \in [ctx : Context \cup {NULL}, handle : Nat, i : Nat, n : Nat]
        BY <3>1
      <3>3. arg' = arg \/ arg' = [arg EXCEPT ![th] = [arg[th] EXCEPT !.i = @ + 1]]
        OBVIOUS
      <3> QED BY <3>2, <3>3 DEF Storage!HandlesTypeOK
    <2>2. threadPc' \in [Thread -> {"run", "init", "scan", "deref", "retire", "aborted"}]
      BY DEF Storage!HandlesTypeOK
    <2> QED BY <1>1, <2>1, <2>2 DEF Storage!HandlesTypeOK, Entries
  <1>5. Storage!Storing'
    BY <1>3 DEF Storage!Storing
  <1>6. Storage!GrabFindsOwner'
    BY DEF Storage!GrabFindsOwner
  <1>7. Storage!NamesSorted'
    BY <1>1 DEF Storage!NamesSorted, SortedNames
  <1>8. Storage!PassBehind'
    <2>1. SUFFICES ASSUME NEW u \in Thread
                   PROVE  /\ threadPc'[u] \in {"deref", "retire"} => arg'[u].n = 1
                          /\ threadPc'[u] = "deref" => arg'[u].ctx # NULL
                          /\ threadPc'[u] = "scan" /\ arg'[u].n = 0 =>
                               \A j \in 0 .. slotSize - 1 :
                                   j < arg'[u].i /\ slot'[j] \in old[u] => slot'[j] \in moved
      BY DEF Storage!PassBehind
    <2>2. CASE threadPc'[u] = threadPc[u] /\ arg'[u] = arg[u]
      <3>1. NULL \notin old[u]
        BY DEF Storage!HandlesTypeOK, Storage!StorageAssumption
      <3> QED BY <1>1, <2>2, <3>1 DEF Storage!PassBehind
    <2>3. CASE ~(threadPc'[u] = threadPc[u] /\ arg'[u] = arg[u])
      <3>1. threadPc'[u] = "scan" /\ arg'[u].n = 1
        BY <1>3, <2>3
      <3> QED BY <3>1
    <2> QED BY <2>2, <2>3
  <1>9. Storage!AbortEmpties'
    <2>1. SUFFICES ASSUME NEW u \in Thread, threadPc'[u] = "aborted" PROVE Storage!Registered' \cap old[u] \subseteq moved
      BY DEF Storage!AbortEmpties
    <2>2. threadPc[u] = "aborted"
      BY <1>3, <2>1
    <2> QED BY <1>2, <2>2 DEF Storage!AbortEmpties
  <1> QED BY <1>2, <1>4, <1>5, <1>6, <1>7, <1>8, <1>9

LEMMA NameHandleKeeps ==
    ASSUME Storage!StorageAssumption, Storage!HandlesInv, NEW th \in Thread, Storage!NameHandle(th)
    PROVE  Storage!HandlesInv'
  <1> USE DEF Storage!HandlesInv
  <1>1. PICK nm \in Name, h \in Storage!Known :
          /\ names' = Storage!Inserted(nm, h)
          /\ UNCHANGED <<slotSize, slot, handleIndex, handleOf, given, threadPc, arg, grabbed, old, early, moved>>
    BY DEF Storage!NameHandle, Storage!table, Storage!past
  <1>2. h \in Nat
    BY DEF Storage!Known, Storage!HandlesTypeOK
  <1>3. names \in Entries /\ SortedNames(names) /\ Name \subseteq Nat
    BY DEF Storage!HandlesTypeOK, Storage!NamesSorted, Entries, SortedNames, Storage!StorageAssumption
  <1>4. names' \in Entries /\ SortedNames(names')
    BY <1>1, <1>2, <1>3, InsertedSorted
  <1>5. Storage!HandlesTypeOK'
    BY <1>1, <1>4 DEF Storage!HandlesTypeOK, Entries
  <1>6. Storage!NamesSorted'
    BY <1>4 DEF Storage!NamesSorted, SortedNames
  <1>7. Storage!Placed' /\ Storage!Storing' /\ Storage!GrabFindsOwner' /\ Storage!PassBehind'
    <2>1. Storage!Unstored' = Storage!Unstored
      BY <1>1, SameUnstored
    <2> QED BY <1>1, <2>1 DEF Storage!Placed, Storage!Storing, Storage!GrabFindsOwner, Storage!PassBehind, Storage!Hash
  <1>8. Storage!AbortEmpties'
    BY <1>1 DEF Storage!AbortEmpties, Storage!Registered
  <1> QED BY <1>5, <1>6, <1>7, <1>8

(* The steps of skynet_handle_retireall that do not retire.                *)
LEMMA PassKeeps ==
    ASSUME Storage!StorageAssumption, Storage!HandlesInv, NEW th \in Thread,
           UNCHANGED <<slotSize, slot, handleIndex, names, handleOf, given, grabbed, early, moved>>,
           threadPc[th] # "init",
           NEW a \in [ctx : Context \cup {NULL}, handle : Nat, i : Nat, n : Nat],
           NEW p \in {"run", "scan", "deref", "retire", "aborted"},
           threadPc' = [threadPc EXCEPT ![th] = p], arg' = [arg EXCEPT ![th] = a],
           old' \in [Thread -> SUBSET Context], \A u \in Thread : u # th => old'[u] = old[u],
           p \in {"deref", "retire"} => a.n = 1, p = "deref" => a.ctx # NULL,
           p = "scan" /\ a.n = 0 =>
               \A j \in 0 .. slotSize - 1 : j < a.i /\ slot[j] \in old'[th] => slot[j] \in moved,
           p = "aborted" => Storage!Registered \cap old'[th] \subseteq moved
    PROVE  Storage!HandlesInv'
  <1> USE DEF Storage!HandlesInv
  <1>1. /\ threadPc'[th] = p /\ arg'[th] = a
        /\ \A u \in Thread : u # th => threadPc'[u] = threadPc[u] /\ arg'[u] = arg[u]
    BY DEF Storage!HandlesTypeOK
  <1>2. Storage!HandlesTypeOK'
    BY DEF Storage!HandlesTypeOK
  <1>3. Storage!Placed'
    <2>1. Storage!Unstored' = Storage!Unstored
      BY <1>1, SameUnstored
    <2> QED BY <2>1 DEF Storage!Placed, Storage!Hash
  <1>4. Storage!Storing'
    BY <1>1 DEF Storage!Storing
  <1>5. Storage!GrabFindsOwner' /\ Storage!NamesSorted'
    BY DEF Storage!GrabFindsOwner, Storage!NamesSorted
  <1>6. Storage!PassBehind'
    <2>1. SUFFICES ASSUME NEW u \in Thread
                   PROVE  /\ threadPc'[u] \in {"deref", "retire"} => arg'[u].n = 1
                          /\ threadPc'[u] = "deref" => arg'[u].ctx # NULL
                          /\ threadPc'[u] = "scan" /\ arg'[u].n = 0 =>
                               \A j \in 0 .. slotSize - 1 :
                                   j < arg'[u].i /\ slot[j] \in old'[u] => slot[j] \in moved
      BY DEF Storage!PassBehind
    <2>2. CASE u = th
      BY <1>1, <2>2
    <2>3. CASE u # th
      BY <1>1, <2>3 DEF Storage!PassBehind
    <2> QED BY <2>2, <2>3
  <1>7. Storage!AbortEmpties'
    <2>1. Storage!Registered' = Storage!Registered
      BY DEF Storage!Registered
    <2> QED BY <1>1, <2>1 DEF Storage!AbortEmpties
  <1> QED BY <1>2, <1>3, <1>4, <1>5, <1>6, <1>7

LEMMA AbortKeeps ==
    ASSUME Storage!StorageAssumption, Storage!HandlesInv, NEW th \in Thread,
           Storage!AbortStart(th) \/ Storage!AllRead(th) \/ Storage!AllDeref(th) \/ Storage!AllEnd(th)
    PROVE  Storage!HandlesInv'
  <1> DEFINE Args == [ctx : Context \cup {NULL}, handle : Nat, i : Nat, n : Nat]
  <1>1. /\ arg[th] \in Args /\ Storage!NoArg \in Args /\ arg \in [Thread -> Args] /\ Storage!NoArg.n = 0 /\ Storage!NoArg.i = 0
        /\ old \in [Thread -> SUBSET Context] /\ threadPc \in [Thread -> {"run", "init", "scan", "deref", "retire", "aborted"}]
        /\ slotSize \in Nat /\ slot \in [0 .. slotSize - 1 -> Context \cup {NULL}]
        /\ handleOf \in [Context -> Nat] /\ NULL \notin Context
    BY DEF Storage!HandlesInv, Storage!HandlesTypeOK, Storage!NoArg, Storage!StorageAssumption
  <1>2. UNCHANGED <<slotSize, slot, handleIndex, names, handleOf, given, grabbed, early, moved>>
    BY DEF Storage!AbortStart, Storage!AllRead, Storage!AllDeref, Storage!AllEnd, Storage!table, Storage!past
  <1>3. CASE Storage!AbortStart(th)
    <2>1. threadPc' = [threadPc EXCEPT ![th] = "scan"] /\ arg' = [arg EXCEPT ![th] = Storage!NoArg]
          /\ old' = [old EXCEPT ![th] = Storage!Registered] /\ threadPc[th] # "init"
      BY <1>3 DEF Storage!AbortStart
    <2>2. Storage!Registered \subseteq Context
      BY <1>1 DEF Storage!Registered
    <2>3. old' \in [Thread -> SUBSET Context] /\ \A u \in Thread : u # th => old'[u] = old[u]
      BY <1>1, <2>1, <2>2
    <2>4. \A j \in 0 .. slotSize - 1 : ~(j < Storage!NoArg.i)
      BY <1>1
    <2> QED BY <1>1, <1>2, <2>1, <2>3, <2>4, PassKeeps
  <1>4. CASE Storage!AllRead(th)
    <2>1. threadPc[th] = "scan" /\ arg[th].i < slotSize /\ UNCHANGED old
      BY <1>4 DEF Storage!AllRead
    <2>2. arg[th].i \in 0 .. slotSize - 1
      BY <1>1, <2>1
    <2>3. CASE slot[arg[th].i] = NULL
      <3>1. PICK a : a = [arg[th] EXCEPT !.i = @ + 1]
        OBVIOUS
      <3>2. a \in Args /\ a.i = arg[th].i + 1 /\ a.n = arg[th].n
        <4>1. arg[th].i \in Nat /\ arg[th].i + 1 \in Nat
          BY <1>1
        <4>2. a.i = arg[th].i + 1 /\ a.n = arg[th].n
          BY <1>1, <3>1
        <4>3. a \in Args
          BY <1>1, <3>1, <4>1
        <4> QED BY <4>2, <4>3
      <3>3. arg' = [arg EXCEPT ![th] = a] /\ UNCHANGED threadPc
        BY <1>4, <2>3, <3>1 DEF Storage!AllRead
      <3>4. threadPc' = [threadPc EXCEPT ![th] = "scan"]
        BY <1>1, <2>1, <3>3
      <3>5. ASSUME a.n = 0, NEW j \in 0 .. slotSize - 1, j < a.i, slot[j] \in old[th]
            PROVE  slot[j] \in moved
        <4>1. CASE j = arg[th].i
          BY <1>1, <2>3, <3>5, <4>1
        <4>2. CASE j # arg[th].i
          <5>1. j < arg[th].i
            BY <1>1, <2>2, <3>2, <3>5, <4>2
          <5> QED BY <2>1, <3>2, <3>5, <5>1 DEF Storage!HandlesInv, Storage!PassBehind
        <4> QED BY <4>1, <4>2
      <3> QED BY <1>1, <1>2, <2>1, <3>2, <3>3, <3>4, <3>5, PassKeeps
    <2>4. CASE slot[arg[th].i] # NULL
      <3>1. PICK a : a = [arg[th] EXCEPT !.ctx = slot[arg[th].i], !.n = 1]
        OBVIOUS
      <3>2. slot[arg[th].i] \in Context \cup {NULL}
        BY <1>1, <2>2
      <3>3. a \in Args /\ a.n = 1 /\ a.ctx # NULL
        BY <1>1, <2>4, <3>1, <3>2
      <3>4. arg' = [arg EXCEPT ![th] = a] /\ threadPc' = [threadPc EXCEPT ![th] = "deref"]
        BY <1>4, <2>4, <3>1 DEF Storage!AllRead
      <3> QED BY <1>1, <1>2, <2>1, <3>3, <3>4, PassKeeps
    <2> QED BY <2>3, <2>4
  <1>5. CASE Storage!AllDeref(th)
    <2>1. threadPc[th] = "deref" /\ UNCHANGED old /\ arg[th].n = 1
      BY <1>5 DEF Storage!AllDeref, Storage!HandlesInv, Storage!PassBehind
    <2>2. CASE Storage!Freed(arg[th].ctx)
      <3>1. arg' = [arg EXCEPT ![th] = arg[th]] /\ threadPc' = [threadPc EXCEPT ![th] = "deref"]
        BY <1>1, <1>5, <2>1, <2>2 DEF Storage!AllDeref
      <3>2. arg[th].ctx # NULL
        BY <2>1 DEF Storage!HandlesInv, Storage!PassBehind
      <3> QED BY <1>1, <1>2, <2>1, <3>1, <3>2, PassKeeps
    <2>3. CASE ~Storage!Freed(arg[th].ctx)
      <3>1. PICK a : a = [arg[th] EXCEPT !.handle = handleOf[arg[th].ctx]]
        OBVIOUS
      <3>2. handleOf[arg[th].ctx] \in Nat
        <4>1. arg[th].ctx \in Context
          <5>1. arg[th].ctx # NULL
            BY <2>1 DEF Storage!HandlesInv, Storage!PassBehind
          <5> QED BY <1>1, <5>1
        <4> QED BY <1>1, <4>1
      <3>3. a \in Args /\ a.n = 1
        BY <1>1, <2>1, <3>1, <3>2
      <3>4. arg' = [arg EXCEPT ![th] = a] /\ threadPc' = [threadPc EXCEPT ![th] = "retire"]
        BY <1>5, <2>3, <3>1 DEF Storage!AllDeref
      <3> QED BY <1>1, <1>2, <2>1, <3>3, <3>4, PassKeeps
    <2> QED BY <2>2, <2>3
  <1>6. CASE Storage!AllEnd(th)
    <2>1. /\ threadPc[th] = "scan" /\ arg[th].i >= slotSize /\ UNCHANGED old
          /\ arg' = [arg EXCEPT ![th] = Storage!NoArg]
          /\ threadPc' = [threadPc EXCEPT ![th] = IF arg[th].n = 0 THEN "aborted" ELSE "scan"]
      BY <1>6 DEF Storage!AllEnd
    <2>2. \A j \in 0 .. slotSize - 1 : ~(j < Storage!NoArg.i)
      BY <1>1
    <2>3. CASE arg[th].n = 0
      <3>1. ASSUME NEW c \in Storage!Registered, c \in old[th] PROVE c \in moved
        <4>1. PICK j \in 0 .. slotSize - 1 : slot[j] = c
          BY <1>1, <3>1 DEF Storage!Registered
        <4>2. j < arg[th].i
          BY <1>1, <2>1
        <4> QED BY <2>1, <2>3, <3>1, <4>1, <4>2 DEF Storage!HandlesInv, Storage!PassBehind
      <3>2. threadPc' = [threadPc EXCEPT ![th] = "aborted"] /\ Storage!Registered \cap old[th] \subseteq moved
        BY <2>1, <2>3, <3>1
      <3> QED BY <1>1, <1>2, <2>1, <3>2, PassKeeps
    <2>4. CASE arg[th].n # 0
      <3>1. threadPc' = [threadPc EXCEPT ![th] = "scan"]
        BY <2>1, <2>4
      <3> QED BY <1>1, <1>2, <2>1, <2>2, <3>1, PassKeeps
    <2> QED BY <2>3, <2>4
  <1> QED BY <1>3, <1>4, <1>5, <1>6

LEMMA HandlesStart ==
    ASSUME Storage!StorageAssumption, Storage!HandlesInit
    PROVE  Storage!HandlesInv
  <1> USE DEF Storage!HandlesInit
  <1>1. slotSize \in Nat \ {0} /\ slot = [i \in 0 .. slotSize - 1 |-> NULL]
    BY DEF Storage!StorageAssumption
  <1>2. Storage!HandlesTypeOK
    <2>1. handleOf \in [Context -> Nat]
      <3>1. Handles \subseteq Nat
        BY DEF Storage!StorageAssumption, Storage!Handle
      <3>2. handleOf \in [Context -> Handles]
        OBVIOUS
      <3> HIDE DEF Storage!HandlesInit
      <3> QED BY <3>1, <3>2
    <2>2. given \in [Context -> Nat \cup {-1}]
      OBVIOUS
    <2>3. arg \in [Thread -> [ctx : Context \cup {NULL}, handle : Nat, i : Nat, n : Nat]]
      BY DEF Storage!NoArg
    <2>4. grabbed \in [Thread -> [ctx : Context \cup {NULL}, handle : Nat]]
      BY DEF Storage!NoGrab
    <2> QED BY <1>1, <2>1, <2>2, <2>3, <2>4 DEF Storage!HandlesTypeOK
  <1>3. Storage!Placed /\ Storage!Storing /\ Storage!NamesSorted /\ Storage!PassBehind
    BY <1>1 DEF Storage!Placed, Storage!Storing, Storage!NamesSorted, Storage!PassBehind
  <1>4. Storage!GrabFindsOwner /\ Storage!AbortEmpties
    BY DEF Storage!GrabFindsOwner, Storage!AbortEmpties, Storage!NoGrab
  <1> QED BY <1>2, <1>3, <1>4 DEF Storage!HandlesInv

LEMMA HandlesStep ==
    ASSUME Storage!StorageAssumption, Storage!HandlesInv, Storage!HandlesNext
    PROVE  Storage!HandlesInv'
  <1>1. PICK th \in Thread : Storage!Step(th)
    BY DEF Storage!HandlesNext
  <1>2. CASE Storage!InitHandle(th)
    BY <1>2, InitHandleKeeps
  <1>3. CASE Storage!Register(th)
    BY <1>3, RegisterKeeps
  <1>4. CASE Storage!Grab(th) \/ Storage!Release(th)
    BY <1>4, GrabKeeps
  <1>5. CASE Storage!Retire(th)
    <2>1. PICK h \in Storage!Handle \ {0} : Storage!Retired(h)
            /\ UNCHANGED <<slotSize, handleIndex, handleOf, given, threadPc, arg, grabbed, old, early, moved>>
      BY <1>5 DEF Storage!Retire, Storage!past
    <2>2. h \in Nat
      BY DEF Storage!Handle, Storage!StorageAssumption
    <2> QED BY <2>1, <2>2, HandleRetireKeeps
  <1>6. CASE Storage!NameHandle(th)
    BY <1>6, NameHandleKeeps
  <1>7. CASE Storage!AbortStart(th) \/ Storage!AllRead(th) \/ Storage!AllDeref(th) \/ Storage!AllEnd(th)
    BY <1>7, AbortKeeps
  <1>8. CASE Storage!AllRetire(th)
    <2>1. /\ threadPc[th] = "retire" /\ Storage!Retired(arg[th].handle)
          /\ arg' = [arg EXCEPT ![th].i = @ + 1] /\ threadPc' = [threadPc EXCEPT ![th] = "scan"]
          /\ UNCHANGED <<slotSize, handleIndex, handleOf, given, grabbed, old, early, moved>>
      BY <1>8 DEF Storage!AllRetire, Storage!past
    <2>2. arg[th].handle \in Nat
      BY DEF Storage!HandlesInv, Storage!HandlesTypeOK
    <2> QED BY <2>1, <2>2, HandleRetireKeeps
  <1> QED BY <1>1, <1>2, <1>3, <1>4, <1>5, <1>6, <1>7, <1>8 DEF Storage!Step

LEMMA HandlesSame ==
    ASSUME Storage!HandlesInv, UNCHANGED Storage!handleVars
    PROVE  Storage!HandlesInv'
  BY DEF Storage!HandlesInv, Storage!handleVars, Storage!table, Storage!past, Storage!Unstored,
         Storage!HandlesTypeOK, Storage!Placed, Storage!Storing, Storage!GrabFindsOwner, Storage!NamesSorted,
         Storage!PassBehind, Storage!AbortEmpties, Storage!Hash, Storage!Registered

LEMMA HandlesInvImplies ==
    ASSUME Storage!StorageAssumption, Storage!HandlesInv
    PROVE  Storage!Reachable /\ Storage!GrabFindsOwner /\ Storage!NamesFound /\ Storage!AbortEmpties
  <1>1. Storage!Reachable
    <2>1. SUFFICES ASSUME NEW c \in Storage!Registered, c \notin Storage!Unstored \cup moved
                   PROVE  Storage!Found(given[c]) = c
      BY DEF Storage!Reachable
    <2>2. PICK i \in 0 .. slotSize - 1 : slot[i] = c /\ c # NULL
      BY <2>1, TableType DEF Storage!HandlesInv
    <2>3. Storage!Hash(given[c], slotSize) = i /\ handleOf[c] = given[c]
      BY <2>1, <2>2 DEF Storage!HandlesInv, Storage!Placed
    <2> QED BY <2>2, <2>3 DEF Storage!Found
  <1>2. Storage!NamesFound
    <2>1. names \in Entries /\ SortedNames(names) /\ Name \subseteq Nat
      BY DEF Storage!HandlesInv, Storage!HandlesTypeOK, Storage!NamesSorted, Entries, SortedNames, Storage!StorageAssumption
    <2>2. SUFFICES ASSUME NEW nm \in Name
                   PROVE  Storage!FindName(nm) = LET at == {i \in DOMAIN names : names[i].name = nm}
                                         IN  IF at = {} THEN 0 ELSE names[CHOOSE i \in at : TRUE].handle
      BY DEF Storage!NamesFound
    <2>3. DOMAIN names = 1 .. Len(names)
      BY <2>1 DEF Entries
    <2> DEFINE at == {i \in DOMAIN names : names[i].name = nm}
    <2>4. Storage!FindName(nm) = LookedUp(names, nm)
      BY DEF Storage!FindName, LookedUp
    <2>5. CASE at = {}
      BY <2>1, <2>3, <2>4, <2>5, LookupFinds
    <2>6. CASE at # {}
      <3>1. PICK i \in at : i = CHOOSE j \in at : TRUE
        BY <2>6
      <3>2. LookedUp(names, nm) = names[i].handle
        BY <2>1, <2>3, LookupFinds
      <3> QED BY <2>4, <2>6, <3>1, <3>2
    <2> QED BY <2>5, <2>6
  <1> QED BY <1>1, <1>2 DEF Storage!HandlesInv

LEMMA NamesKeptStep ==
    ASSUME Storage!StorageAssumption, Storage!HandlesInv, Storage!HandlesNext, NEW nm \in Name, NEW h \in Storage!Known \ {0},
           Storage!FindName(nm) = h, Storage!FindName(nm)' # h
    PROVE  Storage!FindName(nm)' = 0 /\ Storage!Found(h) # NULL /\ Storage!Found(h)' = NULL
  <1>1. names \in Entries /\ SortedNames(names) /\ Name \subseteq Nat
    BY DEF Storage!HandlesInv, Storage!HandlesTypeOK, Storage!NamesSorted, Entries, SortedNames, Storage!StorageAssumption
  <1>2. Storage!FindName(nm) = LookedUp(names, nm) /\ Storage!FindName(nm)' = LookedUp(names', nm)
    BY DEF Storage!FindName, LookedUp
  <1>3. h \in Nat /\ h # 0
    BY DEF Storage!HandlesInv, Storage!HandlesTypeOK, Storage!Known
  <1>4. PICK i \in 1 .. Len(names) : names[i].name = nm /\ names[i].handle = h
    BY <1>1, <1>2, <1>3, LookupFinds
  <1>5. names' # names
    BY <1>2
  <1>6. PICK th \in Thread : Storage!Step(th)
    BY DEF Storage!HandlesNext
  <1>7. CASE Storage!NameHandle(th)
    <2>1. PICK n \in Name, g \in Storage!Known : names' = Storage!Inserted(n, g)
      BY <1>7 DEF Storage!NameHandle
    <2>2. g \in Nat
      BY DEF Storage!Known, Storage!HandlesInv, Storage!HandlesTypeOK
    <2>3. names' \in Entries /\ SortedNames(names')
      BY <1>1, <2>1, <2>2, InsertedSorted
    <2>4. PICK j \in 1 .. Len(names') : names'[j] = names[i]
      BY <1>1, <2>1, <2>2, InsertedSorted
    <2>5. LookedUp(names', nm) = h
      BY <1>1, <1>4, <2>3, <2>4, LookupFinds
    <2> QED BY <1>2, <2>5
  <1>8. ASSUME NEW g \in Nat, Storage!Retired(g), UNCHANGED slotSize
        PROVE  Storage!FindName(nm)' = 0 /\ Storage!Found(h) # NULL /\ Storage!Found(h)' = NULL
    <2>1. Storage!Found(g) # NULL /\ slot'[Storage!Hash(g, slotSize)] = NULL /\ names' = Storage!NamesWithout(g)
      BY <1>5, <1>8, RetiredLeaves
    <2>2. /\ names' \in Entries /\ SortedNames(names')
          /\ \A j \in 1 .. Len(names') : \E k \in 1 .. Len(names) :
                 names'[j] = names[k] /\ names[k].handle # g
          /\ \A k \in 1 .. Len(names) : names[k].handle # g =>
                 \E j \in 1 .. Len(names') : names'[j] = names[k]
      BY <1>1, <2>1, OthersKept
    <2>3. h = g
      <3>1. SUFFICES ASSUME h # g PROVE FALSE
        OBVIOUS
      <3>2. PICK j \in 1 .. Len(names') : names'[j] = names[i]
        BY <1>4, <2>2, <3>1
      <3>3. names'[j].name = nm /\ names'[j].handle = h
        BY <1>4, <3>2
      <3>4. LookedUp(names', nm) = names'[j].handle
        <4>1. names' \in Entries /\ SortedNames(names')
          BY <2>2
        <4> QED BY <1>1, <3>3, <4>1, LookupFinds
      <3> QED BY <1>2, <3>3, <3>4
    <2>4. ASSUME NEW j \in 1 .. Len(names'), names'[j].name = nm PROVE FALSE
      <3>1. PICK k \in 1 .. Len(names) : names'[j] = names[k] /\ names[k].handle # g
        BY <2>2
      <3>2. k = i
        <4>1. names[k].name = names[i].name /\ names[i].name \in Nat
          BY <1>1, <1>4, <2>4, <3>1
        <4>2. ~(k < i) /\ ~(i < k)
          BY <4>1, <1>1 DEF SortedNames
        <4> QED BY <1>1, <4>2, EntryTypes
      <3> QED BY <1>4, <2>3, <3>1, <3>2
    <2>5. LookedUp(names', nm) = 0
      BY <1>1, <2>2, <2>4, LookupFinds
    <2>6. Storage!Found(h)' = NULL
      <3>1. slot'[Storage!Hash(h, slotSize')] = NULL
        BY <1>8, <2>1, <2>3
      <3> QED BY <3>1 DEF Storage!Found
    <2> QED BY <1>2, <2>1, <2>3, <2>5, <2>6
  <1>9. CASE Storage!Retire(th)
    <2>1. PICK g \in Storage!Handle \ {0} : Storage!Retired(g) /\ UNCHANGED slotSize
      BY <1>9 DEF Storage!Retire
    <2>2. g \in Nat
      BY DEF Storage!Handle, Storage!StorageAssumption
    <2> QED BY <1>8, <2>1, <2>2
  <1>10. CASE Storage!AllRetire(th)
    <2>1. Storage!Retired(arg[th].handle) /\ UNCHANGED slotSize
      BY <1>10 DEF Storage!AllRetire
    <2>2. arg[th].handle \in Nat
      BY DEF Storage!HandlesInv, Storage!HandlesTypeOK
    <2> QED BY <1>8, <2>1, <2>2
  <1>11. CASE Storage!Register(th) \/ Storage!InitHandle(th) \/ Storage!Grab(th) \/ Storage!Release(th) \/ Storage!AbortStart(th)
              \/ Storage!AllRead(th) \/ Storage!AllDeref(th) \/ Storage!AllEnd(th)
    BY <1>5, <1>11 DEF Storage!Register, Storage!InitHandle, Storage!Grab, Storage!Release, Storage!AbortStart, Storage!AllRead, Storage!AllDeref, Storage!AllEnd
  <1> QED BY <1>6, <1>7, <1>9, <1>10, <1>11 DEF Storage!Step

(* The other parts leave the handles alone.                                *)
LEMMA NodeHandles ==
    NodeAssumption /\ Storage!HandlesInv /\ [NodeNext]_nodeVars => Storage!HandlesInv'
  <1> SUFFICES ASSUME NodeAssumption, Storage!HandlesInv, [NodeNext]_nodeVars
               PROVE  Storage!HandlesInv'
    OBVIOUS
  <1>1. CASE StorageStep
    BY <1>1, HandlesStep DEF StorageStep, NodeAssumption
  <1>2. CASE UNCHANGED storageVars
    <2>1. UNCHANGED Storage!handleVars
      BY <1>2 DEF storageVars, Storage!handleVars, Storage!table, Storage!past
    <2> QED BY <2>1, HandlesSame
  <1> QED BY <1>1, <1>2 DEF NodeNext, QueueStep, TimerStep, nodeVars

LEMMA NodeHandlesStart == NodeAssumption /\ NodeInit => Storage!HandlesInv
  BY HandlesStart DEF NodeAssumption, NodeInit

LEMMA NodeHandlesRight == NodeAssumption /\ Storage!HandlesInv => HandlesRight
  BY HandlesInvImplies DEF NodeAssumption, HandlesRight

(* skynet_handle.c: for any number of threads, contexts and names, however *)
(* often the table has doubled and handle_index has wrapped around: a      *)
(* registered service is found under its handle, skynet_handle_grab        *)
(* returns the service that was asked for, the binary search finds every   *)
(* name, and ABORT leaves no service behind that it found.  Nothing is     *)
(* assumed of the time between rwlock_wunlock and the store to ctx->handle *)
(* (skynet_handle.c:46-49).  Three things are said only of contexts that   *)
(* nobody has touched in it: being found, of those that no rehash moved    *)
(* then, and not before the store; being what was asked for, of those that *)
(* no grab found then; being retired by ABORT, of those that no rehash     *)
(* moved then.                                                             *)
THEOREM HandlesFindServices == NodeSpec => []HandlesRight
  <1> QED BY NodeAssumption, NodeHandlesStart, NodeHandles, NodeHandlesRight, PTL DEF NodeSpec

LEMMA NodeNames ==
    NodeAssumption /\ Storage!HandlesInv /\ [NodeNext]_nodeVars =>
        [Storage!NamesStay]_Storage!handleVars
  <1> SUFFICES ASSUME NodeAssumption, Storage!HandlesInv, [NodeNext]_nodeVars,
                      ~ UNCHANGED Storage!handleVars,
                      NEW nm \in Name, NEW h \in Storage!Known \ {0},
                      Storage!FindName(nm) = h, Storage!FindName(nm)' # h
               PROVE  /\ Storage!FindName(nm)' = 0
                      /\ Storage!Found(h) # NULL /\ Storage!Found(h)' = NULL
    BY DEF Storage!NamesStay
  <1>1. CASE StorageStep
    BY <1>1, NamesKeptStep DEF StorageStep, NodeAssumption
  <1>2. CASE UNCHANGED storageVars
    BY <1>2 DEF storageVars, Storage!handleVars, Storage!table, Storage!past
  <1> QED BY <1>1, <1>2 DEF NodeNext, QueueStep, TimerStep, nodeVars

(* skynet_handle_namehandle and skynet_handle_retire: a name stands for    *)
(* its service until that is retired, and then for none, whatever other    *)
(* names are inserted before it and squeezed out around it.                *)
THEOREM NamesStayWithTheirService == NodeSpec => NamesKept
  <1>1. NodeSpec => []Storage!HandlesInv
    BY NodeAssumption, NodeHandlesStart, NodeHandles, PTL DEF NodeSpec
  <1> QED BY <1>1, NodeAssumption, NodeNames, PTL DEF NodeSpec, NamesKept, Storage!NamesKept
-----------------------------------------------------------------------------
(* The timer.  TimerProofs proves about the component alone what a node    *)
(* does with it: these lemmas say that both mean the same.                 *)
Wheel == INSTANCE TimerProofs

LEMMA SameWheel ==
    /\ Wheel!WheelAssumption <=> Timer!WheelAssumption
    /\ Wheel!WheelInit <=> Timer!WheelInit
  BY DEF Wheel!WheelAssumption, Timer!WheelAssumption, Wheel!WheelInit, Timer!WheelInit,
         Wheel!WIDTH, Timer!WIDTH, Wheel!Size, Timer!Size, Wheel!LEVELS, Timer!LEVELS

LEMMA SameTick == Wheel!WheelNext <=> Timer!WheelNext
  <1>1. Wheel!Add <=> Timer!Add
    BY DEF Wheel!Add, Timer!Add, Wheel!WIDTH, Timer!WIDTH, Wheel!Size, Timer!Size,
           Wheel!LEVELS, Timer!LEVELS, Wheel!Stretch, Timer!Stretch, Wheel!OutOfRange,
           Timer!OutOfRange, Wheel!Index, Timer!Index, Wheel!Level, Timer!Level,
           Wheel!Linked, Timer!Linked
  <1>2. Wheel!Shift <=> Timer!Shift
    BY DEF Wheel!Shift, Timer!Shift, Wheel!WIDTH, Timer!WIDTH, Wheel!Size, Timer!Size,
           Wheel!LEVELS, Timer!LEVELS, Wheel!Stretch, Timer!Stretch, Wheel!Turning,
           Timer!Turning, Wheel!Index, Timer!Index, Wheel!Level, Timer!Level,
           Wheel!Linked, Timer!Linked, Wheel!Relinked, Timer!Relinked
  <1>3. (Wheel!Update <=> Timer!Update) /\ (Wheel!Execute <=> Timer!Execute) /\ (Wheel!Fire <=> Timer!Fire)
    BY DEF Wheel!Update, Timer!Update, Wheel!Execute, Timer!Execute, Wheel!Fire, Timer!Fire,
           Wheel!wheel, Timer!wheel
  <1> QED BY <1>1, <1>2, <1>3 DEF Wheel!WheelNext, Timer!WheelNext

LEMMA SameTimeouts ==
    (Wheel!OnTime <=> Timer!OnTime) /\ (Wheel!InOrder <=> Timer!InOrder)
  BY DEF Wheel!OnTime, Timer!OnTime, Wheel!InOrder, Timer!InOrder, Wheel!Done, Timer!Done

LEMMA NodeTimerStart == NodeAssumption /\ NodeInit => Wheel!WheelInv
  BY SameWheel, Wheel!WheelStarts DEF NodeAssumption, NodeInit

(* The other parts leave the timer alone.                                  *)
LEMMA NodeTimer ==
    NodeAssumption /\ Wheel!WheelInv /\ [NodeNext]_nodeVars => Wheel!WheelInv'
  <1> SUFFICES ASSUME NodeAssumption, Wheel!WheelInv, [NodeNext]_nodeVars
               PROVE  Wheel!WheelInv'
    OBVIOUS
  <1>1. Timer!WheelNext \/ UNCHANGED timerVars
    BY DEF NodeNext, QueueStep, StorageStep, TimerStep, nodeVars
  <1>2. UNCHANGED timerVars => UNCHANGED Wheel!wheelVars
    BY DEF timerVars, Wheel!wheelVars, Wheel!wheel
  <1> QED BY <1>1, <1>2, SameWheel, SameTick, Wheel!WheelSteps, Wheel!WheelRests DEF NodeAssumption

LEMMA NodeTimeouts == Wheel!WheelInv => TimeoutsRight
  BY SameTimeouts, Wheel!WheelInvImplies DEF TimeoutsRight

(* skynet_timer.c: however many nodes wait and however long their timeouts *)
(* are, through however many levels of the wheel they move down, and       *)
(* whatever services add while an expired list is dispatched without the   *)
(* lock: every timeout is dispatched once and in its tick, and those of a  *)
(* tick in the order in which services asked for them.                     *)
THEOREM TimeoutsComeInTime == NodeSpec => []TimeoutsRight
  <1> QED BY NodeAssumption, NodeTimerStart, NodeTimer, NodeTimeouts, PTL DEF NodeSpec
===============================================================================
