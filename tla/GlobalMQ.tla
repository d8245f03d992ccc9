-------------------------------- MODULE GlobalMQ -------------------------------
(***************************************************************************)
(* The lock-free ring of skynet_mq.c that holds the message queues with    *)
(* work: skynet_globalmq_push claims a position with a fetch-and-add on    *)
(* tail and publishes it with a flag, skynet_globalmq_pop reads a position *)
(* and takes it with a compare-and-swap on head.  Each access to shared    *)
(* memory is a step of its own.  A worker pops a queue, may push others    *)
(* while it dispatches it, and then pushes it back or leaves it out.       *)
(***************************************************************************)
EXTENDS Integers, FiniteSets

CONSTANTS
    Queue,          \* the message queues
    Boot,           \* those that are pushed before the workers start
    Worker,         \* the worker threads
    None,           \* NULL
    MAX_GLOBAL_MQ,  \* the number of slots of the ring
    WIDTH           \* head and tail are counters modulo WIDTH (2^32)

RingAssumption ==
    /\ None \notin Queue /\ IsFiniteSet(Queue) /\ Boot \subseteq Queue
    /\ MAX_GLOBAL_MQ \in Nat /\ Cardinality(Queue) < MAX_GLOBAL_MQ
    /\ WIDTH \in Nat /\ WIDTH > MAX_GLOBAL_MQ /\ WIDTH % MAX_GLOBAL_MQ = 0

VARIABLES
    head, tail,  \* q->head, q->tail
    slots,       \* q->queue
    flag,        \* q->flag
    idle,        \* the queues with in_global = 0
    has,         \* the queue a worker has popped and dispatches
    pc,          \* where a worker is in skynet_globalmq_push or _pop
    pos,         \* its local tail or head
    arg          \* its argument queue, or its local mq

ring  == <<head, tail, slots, flag>>
local == <<pc, pos, arg>>
vars  == <<ring, idle, has, local>>

GP(p) == p % MAX_GLOBAL_MQ
Slot  == 0 .. MAX_GLOBAL_MQ - 1

Inc(p) == (p + 1) % WIDTH

Popping == {"tail", "flagged", "read", "cas"}

(* After the sequential boot: the queues of Boot in some order.            *)
Init ==
    /\ head = 0 /\ tail = Cardinality(Boot)
    /\ flag = [s \in Slot |-> s < tail]
    /\ slots \in {f \in [Slot -> Boot \cup {None}] :
                    /\ \A s \in Slot : f[s] = None <=> s >= tail
                    /\ \A s, r \in 0 .. tail - 1 : f[s] = f[r] => s = r}
    /\ idle = Queue \ Boot
    /\ has = [t \in Worker |-> None]
    /\ pc = [t \in Worker |-> "run"]
    /\ pos = [t \in Worker |-> 0]
    /\ arg = [t \in Worker |-> None]

-----------------------------------------------------------------------------
(* skynet_globalmq_push(q).                                                *)

(* tail = fetch_and_add(&q->tail, 1), for a queue that a message has been  *)
(* pushed to, or for the worker's own queue after the dispatch.            *)
PushClaim(t, q) ==
    /\ pc[t] = "run"
    /\ tail' = Inc(tail)
    /\ pos' = [pos EXCEPT ![t] = tail]
    /\ arg' = [arg EXCEPT ![t] = q]
    /\ pc' = [pc EXCEPT ![t] = "write"]
    /\ UNCHANGED <<head, slots, flag>>

Schedule(t) == \E q \in idle :
    /\ has[t] # None
    /\ PushClaim(t, q)
    /\ idle' = idle \ {q}
    /\ UNCHANGED has

PutBack(t) ==
    /\ has[t] # None
    /\ PushClaim(t, has[t])
    /\ has' = [has EXCEPT ![t] = None]
    /\ UNCHANGED idle

(* The worker has found its queue empty.                                   *)
LeaveOut(t) ==
    /\ pc[t] = "run" /\ has[t] # None
    /\ idle' = idle \cup {has[t]}
    /\ has' = [has EXCEPT ![t] = None]
    /\ UNCHANGED <<ring, local>>

PushWrite(t) ==
    /\ pc[t] = "write"
    /\ slots' = [slots EXCEPT ![GP(pos[t])] = arg[t]]
    /\ pc' = [pc EXCEPT ![t] = "publish"]
    /\ UNCHANGED <<head, tail, flag, idle, has, pos, arg>>

(* Mutant: the flag is not set.                                            *)
PushFlagNot(t) ==
    /\ pc[t] = "publish"
    /\ pc' = [pc EXCEPT ![t] = "run"]
    /\ arg' = [arg EXCEPT ![t] = None]
    /\ UNCHANGED <<ring, idle, has, pos>>

PushFlag(t) ==
    /\ pc[t] = "publish"
    /\ flag' = [flag EXCEPT ![GP(pos[t])] = TRUE]
    /\ pc' = [pc EXCEPT ![t] = "run"]
    /\ arg' = [arg EXCEPT ![t] = None]
    /\ UNCHANGED <<head, tail, slots, idle, has, pos>>

-----------------------------------------------------------------------------
(* skynet_globalmq_pop(), by a worker without a queue.                     *)
PopHead(t) ==
    /\ pc[t] = "run" /\ has[t] = None
    /\ pos' = [pos EXCEPT ![t] = head]
    /\ pc' = [pc EXCEPT ![t] = "tail"]
    /\ UNCHANGED <<ring, idle, has, arg>>

(* NULL if the ring is empty: the positions are compared in the ring, so   *)
(* that a full one looks the same.                                         *)
PopTail(t) ==
    /\ pc[t] = "tail"
    /\ pc' = [pc EXCEPT ![t] = IF GP(pos[t]) = GP(tail) THEN "run" ELSE "flagged"]
    /\ UNCHANGED <<ring, idle, has, pos, arg>>

(* Mutant: a claimed position is taken for a written one.                  *)
PopFlagIgnored(t) ==
    /\ pc[t] = "flagged"
    /\ pc' = [pc EXCEPT ![t] = "read"]
    /\ UNCHANGED <<ring, idle, has, pos, arg>>

PopFlag(t) ==
    /\ pc[t] = "flagged"
    /\ pc' = [pc EXCEPT ![t] = IF flag[GP(pos[t])] THEN "read" ELSE "run"]
    /\ UNCHANGED <<ring, idle, has, pos, arg>>

PopRead(t) ==
    /\ pc[t] = "read"
    /\ arg' = [arg EXCEPT ![t] = slots[GP(pos[t])]]
    /\ pc' = [pc EXCEPT ![t] = "cas"]
    /\ UNCHANGED <<ring, idle, has, pos>>

(* compare_and_swap(&q->head, head, head + 1); NULL if another has won.    *)
PopCas(t) ==
    /\ pc[t] = "cas"
    /\ IF head = pos[t]
       THEN head' = Inc(head) /\ pc' = [pc EXCEPT ![t] = "clear"] /\ UNCHANGED arg
       ELSE /\ UNCHANGED head
            /\ pc' = [pc EXCEPT ![t] = "run"]
            /\ arg' = [arg EXCEPT ![t] = None]
    /\ UNCHANGED <<tail, slots, flag, idle, has, pos>>

PopClear(t) ==
    /\ pc[t] = "clear"
    /\ flag' = [flag EXCEPT ![GP(pos[t])] = FALSE]
    /\ has' = [has EXCEPT ![t] = arg[t]]
    /\ arg' = [arg EXCEPT ![t] = None]
    /\ pc' = [pc EXCEPT ![t] = "run"]
    /\ UNCHANGED <<head, tail, slots, idle, pos>>

-----------------------------------------------------------------------------
(* A worker inside one of the two functions.                               *)
Inside(t) ==
    \/ PushWrite(t) \/ PushFlag(t)
    \/ PopTail(t) \/ PopFlag(t) \/ PopRead(t) \/ PopCas(t) \/ PopClear(t)

Next == \E t \in Worker :
    Inside(t) \/ PopHead(t) \/ Schedule(t) \/ PutBack(t) \/ LeaveOut(t)

(* Threads are scheduled fairly; a callback returns, and then its queue is *)
(* put back or left out.                                                   *)
Fairness == \A t \in Worker :
    /\ WF_vars(Inside(t))
    /\ WF_vars(PopHead(t))
    /\ SF_vars(PutBack(t) \/ LeaveOut(t))

(* The pace that the code relies on: while a worker is between its         *)
(* compare-and-swap and the store to flag, the others do not push around   *)
(* the whole ring, and while it is between its read of head and its        *)
(* compare-and-swap they do not pop WIDTH times.                           *)
Pace == \A t \in Worker :
    /\ tail' # tail => ~(pc[t] = "clear" /\ GP(pos[t]) = GP(tail))
    /\ head' # head => ~(pc[t] \in Popping /\ pos[t] = head')

PacedSpec == Init /\ [][Next /\ Pace]_vars /\ Fairness

-----------------------------------------------------------------------------
(* The queue at a position of the ring: written, or about to be.           *)
At == [p \in 0 .. WIDTH - 1 |->
    IF \E t \in Worker : pc[t] = "write" /\ pos[t] = p
    THEN arg[CHOOSE t \in Worker : pc[t] = "write" /\ pos[t] = p]
    ELSE slots[GP(p)]]

Contents == [i \in 1 .. (tail - head) % WIDTH |-> At[(head + i - 1) % WIDTH]]

(* A worker that has won the race for head has the queue it has read.      *)
Hands == [t \in Worker |-> IF pc[t] = "clear" THEN arg[t] ELSE has[t]]

Fifo == INSTANCE GlobalQueue WITH
    gq   <- Contents,
    held <- Hands

(* The ring is an atomic FIFO: no queue is popped twice, before it has     *)
(* been written, or out of the order in which positions were claimed,      *)
(* whatever the interleaving of pushes and pops.                           *)
ImplementsFifo == Fifo!Fifo

(* A queue that has been pushed is popped in the end: a position is never  *)
(* left without its flag.  (mq.c: "1 means mq is in global mq".)           *)
EventuallyPopped == \A q \in Queue : []<>(\A i \in DOMAIN Contents : Contents[i] # q)

-----------------------------------------------------------------------------
(* Why it is an atomic FIFO: the inductive invariant.                      *)

RingTypeOK ==
    /\ head \in 0 .. WIDTH - 1 /\ tail \in 0 .. WIDTH - 1
    /\ slots \in [Slot -> Queue \cup {None}] /\ flag \in [Slot -> BOOLEAN]
    /\ idle \subseteq Queue
    /\ has \in [Worker -> Queue \cup {None}]
    /\ pc \in [Worker -> {"run", "write", "publish", "clear"} \cup Popping]
    /\ pos \in [Worker -> 0 .. WIDTH - 1]
    /\ arg \in [Worker -> Queue \cup {None}]

(* How far a position is ahead of head, and the positions in use.          *)
Ahead(p) == IF p >= head THEN p - head ELSE p - head + WIDTH
Claimed  == {p \in 0 .. WIDTH - 1 : Ahead(p) < Ahead(tail)}

Pushing(t) == pc[t] \in {"write", "publish"}
Writes(t, p) == pc[t] = "write" /\ pos[t] = p

(* A worker pushes at a position of its own, which nobody can pop yet.     *)
Pushes(t) == Pushing(t) =>
    /\ pos[t] \in Claimed /\ ~flag[GP(pos[t])] /\ arg[t] \in Queue
    /\ pc[t] = "publish" => slots[GP(pos[t])] = arg[t]
    /\ \A u \in Worker : Pushing(u) /\ pos[u] = pos[t] => u = t

(* A flag is that of a position in use, or about to be cleared.            *)
Flags ==
    \A s \in Slot : flag[s] =>
        \/ \E p \in Claimed : GP(p) = s
        \/ \E t \in Worker : pc[t] = "clear" /\ GP(pos[t]) = s

Written ==
    \A p \in Claimed : (\A t \in Worker : ~Writes(t, p)) => slots[GP(p)] \in Queue

(* A worker that pops knows more with every access, unless it has already  *)
(* lost the race for head.                                                 *)
Pops(t) ==
    /\ pc[t] \in Popping \cup {"clear"} => has[t] = None
    /\ pc[t] = "clear" => arg[t] \in Queue
    /\ pos[t] = head =>
        /\ pc[t] \in {"flagged", "read", "cas"} => tail # head
        /\ pc[t] \in {"read", "cas"} => \A u \in Worker : Pushing(u) => pos[u] # head
        /\ pc[t] = "cas" => arg[t] = slots[GP(head)]

(* Every queue is in one place: at a position, with a worker, or idle.     *)
OnePlace ==
    /\ \A p, r \in Claimed : At[p] = At[r] => p = r
    /\ \A p \in Claimed : At[p] \notin idle /\ \A t \in Worker : Hands[t] # At[p]
    /\ \A t \in Worker : Hands[t] \notin idle
    /\ \A t, u \in Worker : Hands[t] = Hands[u] /\ Hands[t] # None => t = u

RingInv ==
    /\ RingTypeOK /\ Flags /\ Written /\ OnePlace
    /\ Ahead(tail) < MAX_GLOBAL_MQ
    /\ \A t \in Worker : Pushes(t) /\ Pops(t)
=============================================================================
