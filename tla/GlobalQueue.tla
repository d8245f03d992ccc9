------------------------------ MODULE GlobalQueue ------------------------------
(***************************************************************************)
(* What skynet_globalmq_push and skynet_globalmq_pop promise the scheduler *)
(* (module Dispatch takes it for granted): a FIFO of message queues, whose *)
(* operations are atomic.  A worker takes a queue, and while it has it, it *)
(* can schedule others; in the end it puts its queue back or leaves it     *)
(* out, because it found it empty.                                         *)
(***************************************************************************)
EXTENDS Naturals, Sequences

CONSTANTS Queue, Worker, None

VARIABLES
    gq,     \* the scheduled queues, first come first served
    held,   \* the queue each worker has, or None
    idle    \* the queues that are not scheduled

vars == <<gq, held, idle>>

Take(t) ==
    /\ held[t] = None /\ gq # <<>>
    /\ held' = [held EXCEPT ![t] = Head(gq)]
    /\ gq' = Tail(gq)
    /\ UNCHANGED idle

Schedule(t) == \E q \in idle :
    /\ held[t] # None
    /\ idle' = idle \ {q}
    /\ gq' = Append(gq, q)
    /\ UNCHANGED held

PutBack(t) ==
    /\ held[t] # None
    /\ gq' = Append(gq, held[t])
    /\ held' = [held EXCEPT ![t] = None]
    /\ UNCHANGED idle

LeaveOut(t) ==
    /\ held[t] # None
    /\ idle' = idle \cup {held[t]}
    /\ held' = [held EXCEPT ![t] = None]
    /\ UNCHANGED gq

Next == \E t \in Worker : Take(t) \/ Schedule(t) \/ PutBack(t) \/ LeaveOut(t)

Start ==
    /\ held = [t \in Worker |-> None]
    /\ \A i, j \in 1 .. Len(gq) : gq[i] = gq[j] => i = j
    /\ idle = Queue \ {gq[i] : i \in 1 .. Len(gq)}

Fifo == Start /\ [][Next]_vars
=============================================================================
