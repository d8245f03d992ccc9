------------------------------ MODULE MessageQueue -----------------------------
(***************************************************************************)
(* The buffer of a struct message_queue of skynet_mq.c: a ring of q->cap   *)
(* messages that doubles when it is full.  Every operation runs under the  *)
(* queue's spin lock, so that each is one step.  What in_global and        *)
(* lock_session do is in module Dispatch.                                  *)
(***************************************************************************)
EXTENDS Integers, Sequences

CONSTANTS
    Message,             \* the messages
    Garbage,             \* what malloc leaves in the buffer
    DEFAULT_QUEUE_SIZE,  \* the first capacity
    MaxCap               \* a bound on the capacity

ASSUME QueueAssumption ==
    /\ Garbage \notin Message /\ "none" \notin Message
    /\ DEFAULT_QUEUE_SIZE \in Nat /\ DEFAULT_QUEUE_SIZE > 1
    /\ MaxCap \in Nat

VARIABLES
    cap,     \* q->cap
    head,    \* q->head
    tail,    \* q->tail
    buffer,  \* q->queue
    result   \* the message skynet_mq_pop has returned last, or "none"

vars == <<cap, head, tail, buffer, result>>

(* skynet_mq_create *)
Init ==
    /\ cap = DEFAULT_QUEUE_SIZE /\ head = 0 /\ tail = 0
    /\ buffer = [i \in 0 .. cap - 1 |-> Garbage]
    /\ result = "none"

(* ++p, back to 0 at the end of the buffer.                                *)
Wrapped(p) == IF p + 1 >= cap THEN 0 ELSE p + 1

(* Mutant: the copy starts at the beginning of the buffer.                 *)
ExpandedInPlace(b) == [i \in 0 .. 2 * cap - 1 |-> IF i < cap THEN b[i] ELSE Garbage]

(* expand_queue: the cap slots from q->head on, copied to the front of a   *)
(* buffer twice as large.                                                  *)
Expanded(b) ==
    [i \in 0 .. 2 * cap - 1 |-> IF i < cap THEN b[(head + i) % cap] ELSE Garbage]

(* skynet_mq_pop *)
Pop ==
    /\ IF head # tail
       THEN result' = buffer[head] /\ head' = Wrapped(head)
       ELSE result' = "none" /\ UNCHANGED head
    /\ UNCHANGED <<cap, tail, buffer>>

(* skynet_mq_push, for a message that does not unlock the queue.           *)
PushTail(m) ==
    LET written == [buffer EXCEPT ![tail] = m]
    IN  IF Wrapped(tail) = head
        THEN /\ buffer' = Expanded(written)
             /\ head' = 0 /\ tail' = cap /\ cap' = 2 * cap
        ELSE /\ buffer' = written
             /\ tail' = Wrapped(tail)
             /\ UNCHANGED <<cap, head>>

(* _pushhead: one slot is free even before the expansion, which counts it  *)
(* as a message, so that tail is moved back.                               *)
PushHead(m) ==
    LET before == IF head - 1 < 0 THEN cap - 1 ELSE head - 1
    IN  IF before = tail
        THEN /\ buffer' = [Expanded(buffer) EXCEPT ![2 * cap - 1] = m]
             /\ head' = 2 * cap - 1 /\ tail' = cap - 1 /\ cap' = 2 * cap
        ELSE /\ buffer' = [buffer EXCEPT ![before] = m]
             /\ head' = before
             /\ UNCHANGED <<cap, tail>>

Push == \E m \in Message :
    /\ PushTail(m) \/ PushHead(m)
    /\ result' = "none"

Next == Pop \/ Push

Spec == Init /\ [][Next]_vars

(* The bound of a run: the buffer does not grow beyond MaxCap.             *)
Bounded == Init /\ [][Next /\ cap' <= MaxCap]_vars

-----------------------------------------------------------------------------
(* Type correctness, with one slot of the buffer always free and no        *)
(* garbage ever returned.                                                  *)
TypeOK ==
    /\ cap \in Nat \ {0, 1} /\ head \in 0 .. cap - 1 /\ tail \in 0 .. cap - 1
    /\ buffer \in [0 .. cap - 1 -> Message \cup {Garbage}]
    /\ result \in Message \cup {"none"}

(* The messages between head and tail.                                     *)
Size == IF head <= tail THEN tail - head ELSE tail - head + cap

Index(i) == IF head + i - 1 < cap THEN head + i - 1 ELSE head + i - 1 - cap

Contents == [i \in 1 .. Size |-> buffer[Index(i)]]

Abstract == INSTANCE MessageDeque WITH content <- Contents

(* Through wrap-around and expansion the ring keeps its messages and their *)
(* order: it implements a sequence.  (expand_queue called by _pushhead     *)
(* copies a slot that holds no message.)                                   *)
ImplementsDeque == Abstract!Deque
=============================================================================
