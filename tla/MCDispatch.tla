------------------------------ MODULE MCDispatch ------------------------------
(***************************************************************************)
(* The properties of module Dispatch, the inductive invariant behind them, *)
(* and its instances for TLC.                                              *)
(***************************************************************************)
EXTENDS Dispatch, TLC

HandleOrNone  == Handle \cup {NoHandle}
MessageOrNone == Message \cup {NoMessage}
SendStage     == [st : {"none", "grab", "push", "endless"}, des : HandleOrNone, m : MessageOrNone]
ReleaseStage  == [st : {"none", "dec", "mark", "free"}, h : HandleOrNone]
LaunchStage   == [st : {"none", "init", "ok", "gone", "inited", "return", "failed", "drop"},
                  h : HandleOrNone]
TimerNode     == [h : Handle, session : Nat]

ContextType ==
    /\ slot \subseteq Handle
    /\ ctx \in [Handle -> {"none", "live", "freed"}]
    /\ ref \in [Handle -> Int]
    /\ inited \subseteq Handle
    /\ session \in [Handle -> Nat]
    /\ forward \in [Handle -> HandleOrNone]

QueueType ==
    /\ queue \in [Handle -> Seq(Message)]
    /\ inGlobal \in [Handle -> 0 .. 3]
    /\ lockSession \in [Handle -> Nat]
    /\ release \in [Handle -> BOOLEAN]
    /\ qfreed \subseteq Handle
    /\ gq \in Seq(Handle)

ThreadType ==
    /\ pc \in [Thread -> {"idle", "grab", "mqrelease", "mqpop", "cb", "done", "pushglobal"}]
    /\ cur \in [Thread -> HandleOrNone]
    /\ msg \in [Thread -> MessageOrNone]
    /\ snd \in [Thread -> SendStage]
    /\ rel \in [Thread -> ReleaseStage]
    /\ lau \in [Thread -> LaunchStage]

RestType ==
    /\ timers \subseteq TimerNode
    /\ left \in [Ops -> Nat]
    /\ fault \in {"none", "force_push", "mq_lock", "freed_queue", "freed_context"}

(* Type correctness of the scheduler's state.                              *)
TypeOK == ContextType /\ QueueType /\ ThreadType /\ RestType

-----------------------------------------------------------------------------
(* The code of service h runs on thread t: its callback or its init.       *)
InCode(t, h) ==
    \/ pc[t] = "cb" /\ cur[t] = h
    \/ lau[t].st = "init" /\ lau[t].h = h

(* The code of one service never runs on two threads at once, which is     *)
(* what CHECKCALLING_BEGIN spins on and every service relies on: the       *)
(* scheduler hands a queue to one worker at a time, also while services    *)
(* are launched, locked and killed by other threads.                       *)
MutualExclusion ==
    \A h \in Handle, t, u \in Thread : InCode(t, h) /\ InCode(u, h) => t = u

(* The threads that hold a reference to the context of h.                  *)
Dispatching(h) == {t \in Thread : pc[t] \in {"mqpop", "cb", "done"} /\ cur[t] = h}
Pushing(h)     == {t \in Thread : snd[t].st = "push" /\ snd[t].des = h}
Dropping(h)    == {t \in Thread : rel[t].st = "dec" /\ rel[t].h = h}
Launching(h)   == {t \in Thread : lau[t].st = "init" /\ lau[t].h = h}

(* ctx->ref counts exactly the handle storage's reference and those of the *)
(* threads inside skynet_context_message_dispatch, skynet_context_push,    *)
(* skynet_context_endless and skynet_context_new: none is leaked, and none *)
(* is released twice by any interleaving of kill, exit and failed launch.  *)
RefCount ==
    \A h \in Handle :
        ref[h] = (IF h \in slot THEN 1 ELSE 0)
                 + Cardinality(Dispatching(h)) + Cardinality(Pushing(h))
                 + Cardinality(Dropping(h)) + Cardinality(Launching(h))

(* A context that the handle storage or a thread refers to has not been    *)
(* freed, nor its queue marked, and only one thread deletes a context.     *)
HeldContextLive ==
    \A h \in Handle :
        /\ h \in slot \/ Dispatching(h) # {} \/ Pushing(h) # {}
             \/ Dropping(h) # {} \/ Launching(h) # {} => ctx[h] = "live" /\ ~release[h]
        /\ \A t, u \in Thread : rel[t].st \in {"mark", "free"} /\ rel[t].h = h
             /\ rel[u].st \in {"mark", "free"} /\ rel[u].h = h => t = u

(* The queue of h is on its way to a worker or with one.                   *)
Scheduled(h) ==
    \/ \E i \in 1 .. Len(gq) : gq[i] = h
    \/ \E t \in Thread : pc[t] # "idle" /\ cur[t] = h
    \/ \E t \in Thread : lau[t].st \notin {"none", "return"} /\ lau[t].h = h

(* A message that has been pushed to a service is never forgotten: as long *)
(* as a queue holds messages it is in the global queue, with a worker, or  *)
(* locked and waiting for the answer of a blockcall.  (skynet_mq_push      *)
(* racing the worker that has just found the queue empty.)                 *)
NoLostWakeup ==
    \A h \in Handle :
        queue[h] # <<>> => Scheduled(h) \/ (inGlobal[h] = MQ_LOCKED /\ lockSession[h] # 0)

(* A queue locked by a blockcall is not given to a worker as long as the   *)
(* service is alive: the next message starts only after the lock has been  *)
(* removed, however the answer races the end of the callback.              *)
LockedNotDispatched ==
    \A h \in Handle, t \in Thread :
        ref[h] > 0 /\ lockSession[h] # 0 /\ pc[t] # "idle" /\ cur[t] = h =>
            pc[t] \in {"cb", "done", "pushglobal"}

(* No service has been killed, no blockcall made, no message forwarded.    *)
NoKill    == left["kill"] = Limit["kill"]
NoLock    == left["lock"] = Limit["lock"]
NoForward == left["forward"] = Limit["forward"]

(* A request that expects an answer: its session says when it was sent.    *)
Numbered(m) == m.kind = "request" /\ m.session # 0

(* Requests of one service to another are queued in the order in which     *)
(* they were sent, as long as nobody makes a blockcall or forwards.        *)
FifoPerSender ==
    NoLock /\ NoForward =>
        \A h \in Handle : \A i, j \in 1 .. Len(queue[h]) :
            /\ i < j
            /\ Numbered(queue[h][i]) /\ Numbered(queue[h][j])
            /\ queue[h][i].source = queue[h][j].source
            => queue[h][i].session < queue[h][j].session

(* No queue is touched after it has been freed: skynet_mq_release of one   *)
(* worker never frees a queue that another thread still has in its hands,  *)
(* unless services are killed and make blockcalls: a service retired in a  *)
(* blockcall is pushed a second time.                                      *)
NoFreedQueue == NoKill \/ NoLock => fault # "freed_queue"

(* The assertions that a thread is about to evaluate hold: in_global is    *)
(* set in skynet_mq_pushglobal, it is MQ_DISPATCHING in _pushhead when it  *)
(* is not MQ_LOCKED, ctx->init is true in _dispatch_message, and release   *)
(* is still 0 in skynet_mq_mark_release.                                   *)
AssertionsHold ==
    \A t \in Thread :
        /\ pc[t] = "pushglobal" /\ Quiet(t) /\ cur[t] \notin qfreed => inGlobal[cur[t]] # 0
        /\ snd[t].st = "push" /\ Unlocks(snd[t].des, snd[t].m) =>
             inGlobal[snd[t].des] \in {MQ_DISPATCHING, MQ_LOCKED}
        /\ pc[t] = "cb" => cur[t] \in inited
        /\ rel[t].st \in {"mark", "free"} => ~release[rel[t].h]

(* assert(queue->in_global) in skynet_mq_force_push never fails.           *)
ForcePushAssertion == fault # "force_push"

(* As long as no service has been killed no freed memory is used and no    *)
(* assertion fails but that of skynet_mq_lock, also by launches that fail; *)
(* and that one needs a blockcall before.                                  *)
NoFault ==
    /\ NoKill => fault \in {"none", "mq_lock"}
    /\ NoLock => fault # "mq_lock"

(* skynet_mq.c: "3 means mq is not in global mq, and locked session has    *)
(* been set."  It holds as long as the service is alive.                   *)
LockedNotInGlobal ==
    \A h \in Handle : ref[h] > 0 /\ inGlobal[h] = MQ_LOCKED =>
        /\ \A i \in 1 .. Len(gq) : gq[i] # h
        /\ lockSession[h] # 0

(* A live service that is locked by a blockcall rests: no worker has its   *)
(* queue but the one that ran the blockcall, and it is not scheduled: only *)
(* the answer wakes it.                                                    *)
LockedWaits == LockedNotDispatched /\ LockedNotInGlobal

(* Nothing breaks underneath the services: the state has its type, what is *)
(* referred to is there, no queue is used after it was freed, assertions   *)
(* hold, and without kills and blockcalls nothing fails at all, however    *)
(* launches, sends, kills and the monitor's checks interleave.             *)
SchedulerSound == TypeOK /\ HeldContextLive /\ NoFreedQueue /\ AssertionsHold /\ NoFault

(* bullfight/agent.lua: a blockcall waits for its call to complete before  *)
(* anything else runs: only the response unlocks the queue.                *)
UnlockedByResponse ==
    [][\A h \in Handle : lockSession[h] # 0 /\ lockSession'[h] = 0 =>
          Head(queue'[h]).kind = "response"]_vars

-----------------------------------------------------------------------------
(* Every message is dispatched, or dropped with its queue, in the end,     *)
(* unless the service waits in a blockcall.                                *)
EventuallyServed ==
    \A h \in Handle :
        queue[h] # <<>> ~> (queue[h] = <<>> \/ lockSession[h] # 0 \/ fault # "none")

(* The context and the queue of a retired service are reclaimed, whoever   *)
(* held the last reference.                                                *)
EventuallyFreed ==
    \A h \in Handle :
        (ctx[h] # "none" /\ h \notin slot) ~> ((h \in qfreed /\ ctx[h] = "freed") \/ fault # "none")

-----------------------------------------------------------------------------
(* The scheduler implements the mailboxes of module ActorMailbox.          *)
MailboxState ==
    [h \in Handle |-> IF h \in qfreed THEN "gone"
                      ELSE IF h \in inited THEN "ready"
                      ELSE IF ctx[h] # "none" THEN "starting" ELSE "none"]

(* The worker t has grabbed the service h, or runs its callback.           *)
Pops(t, h)  == pc[t] = "mqpop" /\ cur[t] = h
Calls(t, h) == pc[t] = "cb" /\ cur[t] = h

Claimed == {h \in Handle : \E t \in Thread : Pops(t, h)}

RunningMessage ==
    [h \in Handle |-> IF \E t \in Thread : Calls(t, h)
                      THEN msg[CHOOSE t \in Thread : Calls(t, h)]
                      ELSE NoMessage]

Actor == INSTANCE ActorMailbox WITH
    None    <- NoMessage,
    state   <- MailboxState,
    alive   <- slot,
    mbox    <- queue,
    claimed <- Claimed,
    running <- RunningMessage,
    waiting <- lockSession

(* Through all its steps the scheduler shows a service a mailbox: one      *)
(* message at a time, in order, none during a blockcall, at most one taken *)
(* up after the service was retired.                                       *)
ImplementsMailboxes == Actor!Mailboxes

-----------------------------------------------------------------------------
(***************************************************************************)
(* The inductive invariant behind the properties.                          *)
(*                                                                         *)
(* References: ref[h] counts the holders of a reference, a context whose   *)
(* count has reached 0 stays there, and a handle not given out yet occurs  *)
(* nowhere.  Tokens: as long as ref[h] > 0 the right to run h exists at    *)
(* most once, as an entry of the global queue, with a worker, or with the  *)
(* thread that launches h.  Wakeups: a queue that is flagged as scheduled  *)
(* has at least one token.                                                 *)
(***************************************************************************)

(* What TypeOK leaves open: a thread that is busy has a handle to be busy  *)
(* with, and what it dispatches or sends is a message.                     *)
ThreadShape(t) ==
    /\ pc[t] # "idle" => cur[t] \in Handle
    /\ pc[t] = "cb" => msg[t] \in Message
    /\ snd[t].st \in {"grab", "push"} => snd[t].m \in Message
    /\ snd[t].st = "push" => snd[t].des \in Handle
    /\ rel[t].st # "none" => rel[t].h \in Handle
    /\ lau[t].st # "none" => lau[t].h \in Handle

Shape == \A t \in Thread : ThreadShape(t)

TypeInv == TypeOK /\ Shape

-----------------------------------------------------------------------------
(* Thread t is deleting the context of h.                                  *)
Deletes(t, h) == rel[t].st \in {"mark", "free"} /\ rel[t].h = h

DeletedOnce(h) ==
    /\ ctx[h] = "freed" \/ release[h] => ref[h] = 0
    /\ \A t \in Thread : Deletes(t, h) => ref[h] = 0 /\ ~release[h] /\ ctx[h] = "live"
    /\ \A t, u \in Thread : Deletes(t, h) /\ Deletes(u, h) => t = u

Deletion == \A h \in Handle : DeletedOnce(h)

(* Thread t has something to do with h, besides looking for it.            *)
Involves(t, h) ==
    \/ pc[t] # "idle" /\ cur[t] = h
    \/ snd[t].st = "push" /\ snd[t].des = h
    \/ rel[t].st # "none" /\ rel[t].h = h
    \/ lau[t].st # "none" /\ lau[t].h = h

InGlobalQueue(h) == \E i \in 1 .. Len(gq) : gq[i] = h

Unused(h) ==
    /\ h \notin slot /\ ref[h] = 0 /\ h \notin inited /\ ~release[h]
    /\ ~InGlobalQueue(h)
    /\ \A t \in Thread : ~Involves(t, h)

Fresh == \A h \in Handle : ctx[h] = "none" => Unused(h)

(* What a thread does one after the other.                                 *)
ThreadOrder(t) ==
    /\ pc[t] \in {"grab", "mqrelease", "mqpop"} => Quiet(t)
    /\ snd[t].st # "none" => rel[t].st = "none"
    /\ lau[t].st # "none" => pc[t] = "cb"
    /\ t \notin Worker => pc[t] = "idle"

Order == \A t \in Thread : ThreadOrder(t)

RefInv == TypeInv /\ Order /\ RefCount /\ Deletion /\ Fresh

-----------------------------------------------------------------------------
(* The worker t has the queue of h in its hands; the thread t launches h   *)
(* and has not pushed its queue yet.                                       *)
Works(t, h)  == pc[t] # "idle" /\ cur[t] = h
Starts(t, h) == lau[t].st \notin {"none", "return"} /\ lau[t].h = h

NoToken(h) == ~InGlobalQueue(h) /\ \A t \in Thread : ~Works(t, h) /\ ~Starts(t, h)

(* h occurs at most once in the global queue.                              *)
Single(h) == \A i, j \in 1 .. Len(gq) : gq[i] = h /\ gq[j] = h => i = j

OneToken(h) ==
    /\ Single(h)
    /\ \A t, u \in Thread :
         /\ Works(t, h) /\ Works(u, h) => t = u
         /\ Starts(t, h) /\ Starts(u, h) => t = u
         /\ ~(Works(t, h) /\ Starts(u, h))
    /\ InGlobalQueue(h) => \A t \in Thread : ~Works(t, h) /\ ~Starts(t, h)

(* While a queue is locked, its token is with the worker that runs the     *)
(* blockcall, or nowhere.                                                  *)
Locked(h) ==
    /\ ~InGlobalQueue(h)
    /\ \A t \in Thread :
         /\ ~Starts(t, h)
         /\ Works(t, h) => pc[t] \in {"cb", "done", "pushglobal"}

TokenAt(h) ==
    /\ OneToken(h)
    /\ inGlobal[h] \in {0, MQ_LOCKED} => NoToken(h)
    /\ lockSession[h] # 0 => Locked(h)
    /\ \A t \in Thread : lau[t].st = "init" /\ lau[t].h = h => h \notin inited

Tokens ==
    \A h \in Handle :
        /\ ref[h] > 0 => TokenAt(h)
        /\ ctx[h] = "none" => lockSession[h] = 0

TokenInv == RefInv /\ Tokens

(* What in_global says about a queue that has not been freed.              *)
FlagsAgree(h) ==
    /\ inGlobal[h] = 0 => queue[h] = <<>>
    /\ inGlobal[h] \in {MQ_IN_GLOBAL, MQ_DISPATCHING} => Scheduled(h)
    /\ inGlobal[h] = MQ_LOCKED => lockSession[h] # 0
    /\ lockSession[h] # 0 => inGlobal[h] \in {MQ_DISPATCHING, MQ_LOCKED}

WakeAt(h) ==
    /\ ctx[h] = "none" => queue[h] = <<>> /\ inGlobal[h] = 0 /\ h \notin qfreed
    /\ h \in qfreed => queue[h] = <<>> /\ ref[h] = 0 /\ ctx[h] # "none"
    /\ h \notin qfreed => FlagsAgree(h)

Wakeups == \A h \in Handle : WakeAt(h)

SchedulerInv == TokenInv /\ Wakeups

-----------------------------------------------------------------------------
(* What a thread relies on that has the queue of a service in its hands.   *)
Carried(t) ==
    /\ pc[t] \in {"mqpop", "cb", "done"} => cur[t] \in inited
    /\ pc[t] = "pushglobal" => inGlobal[cur[t]] # 0 \/ cur[t] \in qfreed
    /\ lau[t].st \in {"inited", "return"} => lau[t].h \in inited
    /\ lau[t].st \in {"ok", "failed"} /\ lau[t].h \in slot => lau[t].h \notin inited
    /\ lau[t].st \in {"gone", "drop"} => lau[t].h \notin slot

(* Until ctx->init is set only the launching thread has the queue.         *)
Young(h) ==
    h \in slot \ inited =>
        /\ ~InGlobalQueue(h) /\ \A t \in Thread : ~Works(t, h)
        /\ inGlobal[h] = MQ_IN_GLOBAL /\ lockSession[h] = 0

(* A queue is freed after its context, and marked as long as it is there.  *)
FreedLater(h) ==
    /\ h \in qfreed => release[h]
    /\ release[h] <=> ctx[h] = "freed"

Standing ==
    /\ \A t \in Thread : Carried(t)
    /\ \A h \in Handle : Young(h) /\ FreedLater(h)

StandingInv == SchedulerInv /\ Standing

-----------------------------------------------------------------------------
(* Without kills or without blockcalls the right to run a service exists   *)
(* at most once also after it was retired, when nobody counts any more.    *)
Calm == NoKill \/ NoLock

Budget == \A op \in Ops : left[op] <= Limit[op]

(* Without blockcalls queues are not locked; without kills only a failed   *)
(* launch retires a service, and its queue is flagged all the time.        *)
Plain(h) ==
    /\ NoLock => lockSession[h] = 0 /\ inGlobal[h] \in {0, MQ_IN_GLOBAL}
    /\ NoKill /\ ctx[h] # "none" /\ h \notin slot =>
          h \notin inited /\ (inGlobal[h] = MQ_IN_GLOBAL \/ h \in qfreed)

(* Without kills a service is there while it starts.                       *)
Stays(t) ==
    NoKill => /\ lau[t].st # "gone"
              /\ lau[t].st \in {"init", "ok", "inited", "return", "failed"} => lau[t].h \in slot

(* The thread t is about to push the queue of a context it deletes.        *)
Marks(t, h) == rel[t].st = "mark" /\ rel[t].h = h

OneOwner(h) ==
    Calm => /\ OneToken(h)
            /\ h \in qfreed \/ (inGlobal[h] = 0 /\ \E t \in Thread : Marks(t, h)) => NoToken(h)

Owners ==
    /\ Budget
    /\ \A h \in Handle : Plain(h) /\ OneOwner(h)
    /\ \A t \in Thread : Stays(t)

OwnerInv == StandingInv /\ Owners /\ NoFreedQueue /\ NoFault

-----------------------------------------------------------------------------
(* Sessions grow, and what a service is sending is its newest request.     *)
Sent(h) ==
    \A i \in 1 .. Len(queue[h]) : Numbered(queue[h][i]) =>
        /\ queue[h][i].source \in Handle
        /\ queue[h][i].session <= session[queue[h][i].source]

Newest(t) ==
    snd[t].st \in {"grab", "push"} /\ Numbered(snd[t].m) =>
        /\ snd[t].m.source \in Handle /\ InCode(t, snd[t].m.source)
        /\ snd[t].m.session = session[snd[t].m.source]
        /\ \A h \in Handle : \A i \in 1 .. Len(queue[h]) :
              Numbered(queue[h][i]) /\ queue[h][i].source = snd[t].m.source =>
                  queue[h][i].session < snd[t].m.session

InOrder(h) ==
    \A i, j \in 1 .. Len(queue[h]) :
        /\ i < j /\ Numbered(queue[h][i]) /\ Numbered(queue[h][j])
        /\ queue[h][i].source = queue[h][j].source
        => queue[h][i].session < queue[h][j].session

Senders ==
    NoLock /\ NoForward =>
        /\ \A h \in Handle : forward[h] = NoHandle /\ Sent(h) /\ InOrder(h)
        /\ \A t \in Thread : Newest(t)

-----------------------------------------------------------------------------
(* Bounds: how often service code uses each operation.                     *)
NoOps == [op \in Ops |-> 0]

(* A service is launched, messages are sent, and one is killed at any      *)
(* time, while it starts or later.                                         *)
LimitKill ==
    [NoOps EXCEPT !["send"] = 2, !["kill"] = 1, !["launch"] = 1, !["endless"] = 1]

(* A service makes a blockcall while others send, forward and are killed.  *)
LimitLock ==
    [NoOps EXCEPT !["send"] = 1, !["lock"] = 1, !["kill"] = 1, !["forward"] = 1]

(* A blockcall and requests of another service.                            *)
LimitUnlock == [NoOps EXCEPT !["send"] = 2, !["lock"] = 1]

(* What the liveness properties need: a message, a timer and a kill.       *)
LimitLive == [NoOps EXCEPT !["send"] = 1, !["timeout"] = 1, !["kill"] = 1]

WorkerSymmetry == Permutations(Worker)
=============================================================================
