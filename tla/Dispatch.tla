------------------------------- MODULE Dispatch -------------------------------
(***************************************************************************)
(* The scheduler of skynet: service contexts, their message queues, the    *)
(* global queue of message queues, and the threads that run them           *)
(* (skynet_server.c, skynet_mq.c, the grab and retire operations of        *)
(* skynet_handle.c, the threads of skynet_start.c).                        *)
(*                                                                         *)
(* A step of the model is one critical section or one atomic access of the *)
(* code: what LOCK(q)/UNLOCK(q) or the handle storage's rwlock encloses is *)
(* one step, and what nothing protects (skynet_mq_mark_release outside the *)
(* rwlock, the tail of skynet_context_new) is several.  The global queue   *)
(* is an atomic FIFO here; module GlobalMQ shows when that is justified.   *)
(*                                                                         *)
(* A message queue is identified with the handle it was created for: a     *)
(* handle is never given out twice in a behaviour (32-bit wrap-around of   *)
(* handles is the subject of module HandleStorage).  Message data is       *)
(* abstracted to what the scheduler and the reply protocol look at.        *)
(***************************************************************************)
EXTENDS Integers, Sequences, FiniteSets

CONSTANTS
    Handle,     \* the handles that services can have
    Boot,       \* the services skynet_start launches before it starts threads
    Lua,        \* those of them that are snlua services
    Worker,     \* the worker threads
    Timer,      \* the timer thread, as a set of at most one thread
    Monitor,    \* the monitor thread, as a set of at most one thread
    NoHandle,   \* the handle 0, "no service"
    Limit       \* how often each operation of service code happens (a bound)

Ops == {"send", "timeout", "kill", "lock", "launch", "forward", "endless"}

ASSUME ConstantsAssumption ==
    /\ NoHandle \notin Handle
    /\ Boot \subseteq Handle /\ Lua \subseteq Boot /\ IsFiniteSet(Boot)
    /\ IsFiniteSet(Worker) /\ IsFiniteSet(Timer) /\ IsFiniteSet(Monitor)
    /\ Worker \cap Timer = {} /\ Worker \cap Monitor = {} /\ Timer \cap Monitor = {}
    /\ Limit \in [Ops -> Nat]

Thread == Worker \cup Timer \cup Monitor

VARIABLES
    \* skynet_context, and the handle storage
    slot,         \* the handles whose context is in the handle storage
    ctx,          \* "none" before skynet_context_new, "live", "freed"
    ref,          \* ctx->ref
    inited,       \* the handles with ctx->init = true
    session,      \* ctx->session_id
    forward,      \* ctx->forward
    \* message_queue
    queue,        \* the messages of q->queue, from q->head to q->tail
    inGlobal,     \* q->in_global
    lockSession,  \* q->lock_session
    release,      \* q->release
    qfreed,       \* the queues that _release has freed
    \* global_queue
    gq,           \* the queues between head and tail
    \* the local state of the threads
    pc,           \* where a worker is in skynet_context_message_dispatch
    cur,          \* the queue q it is dispatching
    msg,          \* the message it has popped
    snd,          \* a skynet_context_push in progress
    rel,          \* a skynet_context_release in progress
    lau,          \* a skynet_context_new in progress
    \* the rest
    timers,       \* the timer nodes that have not expired
    left,         \* how many operations of each kind may still happen
    fault         \* how the process ended: assert, or use of freed memory

ctxVars    == <<slot, ctx, ref, inited, session, forward>>
mqVars     == <<queue, inGlobal, lockSession, release, qfreed>>
threadVars == <<pc, cur, msg, snd, rel, lau>>
vars == <<ctxVars, mqVars, gq, threadVars, timers, left, fault>>

MQ_IN_GLOBAL   == 1
MQ_DISPATCHING == 2
MQ_LOCKED      == 3

Message == [kind : {"request", "response"}, session : Nat, source : Handle \cup {NoHandle}]

NoMessage == [kind |-> "none", session |-> 0, source |-> NoHandle]
NoSend    == [st |-> "none", des |-> NoHandle, m |-> NoMessage]
NoRelease == [st |-> "none", h |-> NoHandle]
NoLaunch  == [st |-> "none", h |-> NoHandle]

(* A skynet_context_push of m to d that is about to look for d.            *)
Sending(d, m) == [st |-> "grab", des |-> d, m |-> m]

(* A stage of a skynet_context_release or a skynet_context_new of h.       *)
Stage(st, h) == [st |-> st, h |-> h]

(* The message a timeout sends to the service that asked for it.           *)
TimeoutMessage(s) == [kind |-> "response", session |-> s, source |-> NoHandle]

-----------------------------------------------------------------------------
(* skynet_start: every boot service has been created, initialised and      *)
(* force-pushed when the threads start, and skynet.start of the Lua ones   *)
(* has asked for a timeout of 0.                                           *)
Init ==
    /\ slot = Boot
    /\ ctx = [h \in Handle |-> IF h \in Boot THEN "live" ELSE "none"]
    /\ ref = [h \in Handle |-> IF h \in Boot THEN 1 ELSE 0]
    /\ inited = Boot
    /\ session = [h \in Handle |-> IF h \in Lua THEN 1 ELSE 0]
    /\ forward = [h \in Handle |-> NoHandle]
    /\ queue = [h \in Handle |-> IF h \in Lua THEN <<TimeoutMessage(1)>> ELSE <<>>]
    /\ inGlobal = [h \in Handle |-> IF h \in Boot THEN MQ_IN_GLOBAL ELSE 0]
    /\ lockSession = [h \in Handle |-> 0]
    /\ release = [h \in Handle |-> FALSE]
    /\ qfreed = {}
    /\ gq \in {s \in [1 .. Cardinality(Boot) -> Boot] :
                  \A i, j \in 1 .. Cardinality(Boot) : s[i] = s[j] => i = j}
    /\ pc = [t \in Thread |-> "idle"]
    /\ cur = [t \in Thread |-> NoHandle]
    /\ msg = [t \in Thread |-> NoMessage]
    /\ snd = [t \in Thread |-> NoSend]
    /\ rel = [t \in Thread |-> NoRelease]
    /\ lau = [t \in Thread |-> NoLaunch]
    /\ timers = {}
    /\ left = Limit
    /\ fault = "none"

(* No skynet_context_push or skynet_context_release is in progress on t.   *)
Quiet(t) == snd[t].st = "none" /\ rel[t].st = "none"

(* The service whose code runs on t: the one being initialised by LAUNCH,  *)
(* else the one whose callback runs.                                       *)
Running(t) ==
    IF lau[t].st = "init" THEN lau[t].h
    ELSE IF lau[t].st = "none" /\ pc[t] = "cb" THEN cur[t]
    ELSE NoHandle

(* t runs the code of service h, which may now call into skynet.           *)
InService(t, h) == Quiet(t) /\ h \in Handle /\ Running(t) = h

Use(op) == left[op] > 0 /\ left' = [left EXCEPT ![op] = @ - 1]

-----------------------------------------------------------------------------
(* skynet_mq.c, as operators on the queue of handle h.                     *)

(* skynet_globalmq_push *)
GlobalPush(h) == gq' = Append(gq, h)

(* _pushhead: the message the locked queue waits for goes in front.        *)
PushHead(h, m) ==
    /\ queue' = [queue EXCEPT ![h] = <<m>> \o @]
    /\ IF inGlobal[h] = MQ_LOCKED
       THEN GlobalPush(h) /\ inGlobal' = [inGlobal EXCEPT ![h] = MQ_IN_GLOBAL]
       ELSE UNCHANGED <<gq, inGlobal>>
    /\ lockSession' = [lockSession EXCEPT ![h] = 0]

(* Mutant: the queue is pushed whether or not it is in the global queue.   *)
PushTailTwice(h, m) ==
    /\ queue' = [queue EXCEPT ![h] = Append(@, m)]
    /\ IF lockSession[h] = 0
       THEN GlobalPush(h) /\ inGlobal' = [inGlobal EXCEPT ![h] = MQ_IN_GLOBAL]
       ELSE UNCHANGED <<gq, inGlobal>>
    /\ UNCHANGED lockSession

(* Mutant: a message is put in front of those that wait already.           *)
PushTailInFront(h, m) ==
    /\ queue' = [queue EXCEPT ![h] = <<m>> \o @]
    /\ IF lockSession[h] = 0 /\ inGlobal[h] = 0
       THEN GlobalPush(h) /\ inGlobal' = [inGlobal EXCEPT ![h] = MQ_IN_GLOBAL]
       ELSE UNCHANGED <<gq, inGlobal>>
    /\ UNCHANGED lockSession

(* The other branch of skynet_mq_push.                                     *)
PushTail(h, m) ==
    /\ queue' = [queue EXCEPT ![h] = Append(@, m)]
    /\ IF lockSession[h] = 0 /\ inGlobal[h] = 0
       THEN GlobalPush(h) /\ inGlobal' = [inGlobal EXCEPT ![h] = MQ_IN_GLOBAL]
       ELSE UNCHANGED <<gq, inGlobal>>
    /\ UNCHANGED lockSession

(* The session a locked queue waits for.                                   *)
Unlocks(h, m) == lockSession[h] # 0 /\ m.session = lockSession[h]

MqPush(h, m) ==
    /\ IF Unlocks(h, m) THEN PushHead(h, m) ELSE PushTail(h, m)
    /\ UNCHANGED <<release, qfreed>>

(* Mutant: the queue is pushed although it is locked.                      *)
MqPushGlobalLocked(h) ==
    /\ GlobalPush(h)
    /\ inGlobal' = [inGlobal EXCEPT ![h] =
                        IF @ = MQ_DISPATCHING THEN MQ_LOCKED ELSE MQ_IN_GLOBAL]
    /\ UNCHANGED <<queue, lockSession, release, qfreed>>

(* Mutant: a queue that is not locked is left out of the global queue.     *)
MqPushGlobalForgets(h) ==
    /\ inGlobal' = [inGlobal EXCEPT ![h] = MQ_IN_GLOBAL]
    /\ UNCHANGED <<gq, queue, lockSession, release, qfreed>>

(* skynet_mq_pushglobal *)
MqPushGlobal(h) ==
    /\ IF lockSession[h] = 0
       THEN GlobalPush(h) /\ inGlobal' = [inGlobal EXCEPT ![h] = MQ_IN_GLOBAL]
       ELSE /\ inGlobal' = [inGlobal EXCEPT ![h] =
                                IF @ = MQ_DISPATCHING THEN MQ_LOCKED ELSE @]
            /\ UNCHANGED gq
    /\ UNCHANGED <<queue, lockSession, release, qfreed>>

(* skynet_mq_release: free a marked queue with what it holds (_drop_queue  *)
(* pops until it is empty), or put it back (skynet_mq_force_push, past its *)
(* assertion) until it is marked.                                          *)
MqRelease(h) ==
    IF release[h]
    THEN /\ queue' = [queue EXCEPT ![h] = <<>>]
         /\ inGlobal' = [inGlobal EXCEPT ![h] = 0]
         /\ qfreed' = qfreed \cup {h}
         /\ UNCHANGED <<gq, lockSession, release>>
    ELSE GlobalPush(h) /\ UNCHANGED mqVars

(* Mutant: the queue is pushed whether or not it is in the global queue.   *)
MarkPushAlways(h) == GlobalPush(h)

(* Mutant: the queue is left where it is, also if no worker will find it.  *)
MarkPushNever(h) == UNCHANGED gq

(* The first half of skynet_mq_mark_release.                               *)
MarkPush(h) == IF inGlobal[h] # MQ_IN_GLOBAL THEN GlobalPush(h) ELSE UNCHANGED gq

-----------------------------------------------------------------------------
(* skynet_context_release(ctx) in three steps: the atomic decrement, the   *)
(* push of skynet_mq_mark_release, and the store to q->release with the    *)
(* free of the context.  No lock is held, so other threads run in between. *)

ReleaseDec(t) ==
    LET h == rel[t].h IN
    /\ rel[t].st = "dec"
    /\ ref' = [ref EXCEPT ![h] = @ - 1]
    /\ rel' = [rel EXCEPT ![t] = IF ref[h] = 1 THEN Stage("mark", h) ELSE NoRelease]
    /\ UNCHANGED <<slot, ctx, inited, session, forward, mqVars, gq, pc, cur,
                   msg, snd, lau, timers, left, fault>>

ReleaseMark(t) ==
    /\ rel[t].st = "mark"
    /\ MarkPush(rel[t].h)
    /\ rel' = [rel EXCEPT ![t] = Stage("free", rel[t].h)]
    /\ UNCHANGED <<ctxVars, mqVars, pc, cur, msg, snd, lau, timers, left, fault>>

ReleaseFree(t) ==
    LET h == rel[t].h IN
    /\ rel[t].st = "free"
    /\ release' = [release EXCEPT ![h] = TRUE]
    /\ ctx' = [ctx EXCEPT ![h] = "freed"]
    /\ rel' = [rel EXCEPT ![t] = NoRelease]
    /\ UNCHANGED <<slot, ref, inited, session, forward, queue, inGlobal,
                   lockSession, qfreed, gq, pc, cur, msg, snd, lau, timers,
                   left, fault>>

(* skynet_handle_retire(h): under the write lock, so that no grab happens  *)
(* between the removal of the slot and the mark on the queue.              *)
Retire(h) ==
    IF h \in slot
    THEN /\ slot' = slot \ {h}
         /\ ref' = [ref EXCEPT ![h] = @ - 1]
         /\ IF ref[h] = 1
            THEN /\ MarkPush(h)
                 /\ release' = [release EXCEPT ![h] = TRUE]
                 /\ ctx' = [ctx EXCEPT ![h] = "freed"]
            ELSE UNCHANGED <<gq, release, ctx>>
    ELSE UNCHANGED <<slot, ref, ctx, release, gq>>

-----------------------------------------------------------------------------
(* skynet_context_message_dispatch, by a worker.                           *)

(* skynet_globalmq_pop *)
GlobalPop(t) ==
    /\ t \in Worker /\ pc[t] = "idle" /\ Quiet(t) /\ gq # <<>>
    /\ cur' = [cur EXCEPT ![t] = Head(gq)]
    /\ gq' = Tail(gq)
    /\ pc' = [pc EXCEPT ![t] = "grab"]
    /\ UNCHANGED <<ctxVars, mqVars, msg, snd, rel, lau, timers, left, fault>>

(* Mutant: the context of a retired service is found by its queue.         *)
GrabRetired(t) ==
    LET h == cur[t] IN
    /\ pc[t] = "grab" /\ h \notin qfreed
    /\ IF ctx[h] = "live"
       THEN /\ ref' = [ref EXCEPT ![h] = @ + 1]
            /\ pc' = [pc EXCEPT ![t] = "mqpop"]
       ELSE /\ pc' = [pc EXCEPT ![t] = "mqrelease"]
            /\ UNCHANGED ref
    /\ UNCHANGED <<slot, ctx, inited, session, forward, mqVars, gq, cur, msg,
                   snd, rel, lau, timers, left, fault>>

(* q->handle is read and skynet_handle_grab finds the context or NULL.     *)
Grab(t) ==
    LET h == cur[t] IN
    /\ pc[t] = "grab" /\ h \notin qfreed
    /\ IF h \in slot
       THEN /\ ref' = [ref EXCEPT ![h] = @ + 1]
            /\ pc' = [pc EXCEPT ![t] = "mqpop"]
       ELSE /\ pc' = [pc EXCEPT ![t] = "mqrelease"]
            /\ UNCHANGED ref
    /\ UNCHANGED <<slot, ctx, inited, session, forward, mqVars, gq, cur, msg,
                   snd, rel, lau, timers, left, fault>>

(* The context is gone: skynet_mq_release.                                 *)
DropQueue(t) ==
    LET h == cur[t] IN
    /\ pc[t] = "mqrelease" /\ h \notin qfreed
    /\ release[h] \/ inGlobal[h] # 0
    /\ MqRelease(h)
    /\ pc' = [pc EXCEPT ![t] = "idle"]
    /\ cur' = [cur EXCEPT ![t] = NoHandle]
    /\ UNCHANGED <<ctxVars, msg, snd, rel, lau, timers, left, fault>>

(* Mutant: in_global keeps its value when the queue is found empty.        *)
PopEmptyFlagged(t) ==
    LET h == cur[t] IN
    /\ pc[t] = "mqpop" /\ h \notin qfreed /\ queue[h] = <<>>
    /\ rel' = [rel EXCEPT ![t] = Stage("dec", h)]
    /\ pc' = [pc EXCEPT ![t] = "idle"]
    /\ cur' = [cur EXCEPT ![t] = NoHandle]
    /\ UNCHANGED <<ctxVars, mqVars, gq, msg, snd, lau, timers, left, fault>>

(* skynet_mq_pop on an empty queue: the queue leaves the global queue.     *)
PopEmpty(t) ==
    LET h == cur[t] IN
    /\ pc[t] = "mqpop" /\ h \notin qfreed /\ queue[h] = <<>>
    /\ inGlobal' = [inGlobal EXCEPT ![h] = 0]
    /\ rel' = [rel EXCEPT ![t] = Stage("dec", h)]
    /\ pc' = [pc EXCEPT ![t] = "idle"]
    /\ cur' = [cur EXCEPT ![t] = NoHandle]
    /\ UNCHANGED <<ctxVars, queue, lockSession, release, qfreed, gq, msg, snd,
                   lau, timers, left, fault>>

(* skynet_mq_pop returns a message and _dispatch_message calls ctx->cb.    *)
PopMessage(t) ==
    LET h == cur[t] IN
    /\ pc[t] = "mqpop" /\ h \notin qfreed /\ queue[h] # <<>>
    /\ msg' = [msg EXCEPT ![t] = Head(queue[h])]
    /\ queue' = [queue EXCEPT ![h] = Tail(@)]
    /\ pc' = [pc EXCEPT ![t] = "cb"]
    /\ UNCHANGED <<ctxVars, inGlobal, lockSession, release, qfreed, gq, cur,
                   snd, rel, lau, timers, left, fault>>

(* The callback returns; _forwarding passes the message on if asked to.    *)
CallbackEnd(t) ==
    LET h == cur[t] IN
    /\ pc[t] = "cb" /\ Quiet(t) /\ lau[t].st = "none"
    /\ IF forward[h] # NoHandle
       THEN snd' = [snd EXCEPT ![t] = Sending(forward[h], msg[t])]
       ELSE UNCHANGED snd
    /\ forward' = [forward EXCEPT ![h] = NoHandle]
    /\ msg' = [msg EXCEPT ![t] = NoMessage]
    /\ pc' = [pc EXCEPT ![t] = "done"]
    /\ UNCHANGED <<slot, ctx, ref, inited, session, mqVars, gq, cur, rel, lau,
                   timers, left, fault>>

(* skynet_context_release of the dispatched context.                       *)
DispatchRelease(t) ==
    /\ pc[t] = "done" /\ Quiet(t)
    /\ rel' = [rel EXCEPT ![t] = Stage("dec", cur[t])]
    /\ pc' = [pc EXCEPT ![t] = "pushglobal"]
    /\ UNCHANGED <<ctxVars, mqVars, gq, cur, msg, snd, lau, timers, left, fault>>

(* skynet_mq_pushglobal(q), with no reference to the context any more.     *)
PushGlobal(t) ==
    LET h == cur[t] IN
    /\ pc[t] = "pushglobal" /\ Quiet(t) /\ h \notin qfreed
    /\ MqPushGlobal(h)
    /\ pc' = [pc EXCEPT ![t] = "idle"]
    /\ cur' = [cur EXCEPT ![t] = NoHandle]
    /\ UNCHANGED <<ctxVars, msg, snd, rel, lau, timers, left, fault>>

-----------------------------------------------------------------------------
(* skynet_context_push(des, m): grab, skynet_mq_push, release.             *)

(* Mutant: the context is found but no reference is taken.                 *)
SendGrabUncounted(t) ==
    /\ snd[t].st = "grab"
    /\ snd' = [snd EXCEPT ![t] = IF @.des \in slot
                                 THEN [st |-> "push", des |-> @.des, m |-> @.m] ELSE NoSend]
    /\ UNCHANGED <<ctxVars, mqVars, gq, pc, cur, msg, rel, lau, timers, left, fault>>

SendGrab(t) ==
    LET d == snd[t].des IN
    /\ snd[t].st = "grab"
    /\ IF d \in slot
       THEN /\ ref' = [ref EXCEPT ![d] = @ + 1]
            /\ snd' = [snd EXCEPT ![t] = [st |-> "push", des |-> d, m |-> snd[t].m]]
       ELSE /\ snd' = [snd EXCEPT ![t] = NoSend]     \* the message is dropped
            /\ UNCHANGED ref
    /\ UNCHANGED <<slot, ctx, inited, session, forward, mqVars, gq, pc, cur,
                   msg, rel, lau, timers, left, fault>>

SendPush(t) ==
    LET d == snd[t].des
        m == snd[t].m IN
    /\ snd[t].st = "push" /\ d \notin qfreed
    /\ MqPush(d, m)
    /\ snd' = [snd EXCEPT ![t] = NoSend]
    /\ rel' = [rel EXCEPT ![t] = Stage("dec", d)]
    /\ UNCHANGED <<ctxVars, pc, cur, msg, lau, timers, left, fault>>

-----------------------------------------------------------------------------
(* What service code can ask of skynet while it runs on a thread.          *)

Known == {h \in Handle : ctx[h] # "none"}

(* skynet_send of a request: with a new session if an answer is expected   *)
(* (skynet_context_newsession), else with session 0.  Sessions do not come *)
(* round: no behaviour here has the 2^31 requests that takes.              *)
Request(t) == \E h \in Handle, d \in Known, call \in BOOLEAN :
    LET s == IF call THEN session[h] + 1 ELSE 0 IN
    /\ InService(t, h) /\ Use("send")
    /\ session' = [session EXCEPT ![h] = IF call THEN s ELSE @]
    /\ snd' = [snd EXCEPT ![t] =
                 Sending(d, [kind |-> "request", session |-> s, source |-> h])]
    /\ UNCHANGED <<slot, ctx, ref, inited, forward, mqVars, gq, pc, cur, msg,
                   rel, lau, timers, fault>>

(* skynet_send of the response to the request being dispatched.            *)
Respond(t) == \E h \in Handle :
    /\ InService(t, h) /\ lau[t].st = "none" /\ Use("send")
    /\ msg[t].kind = "request" /\ msg[t].session # 0
    /\ snd' = [snd EXCEPT ![t] =
                 Sending(msg[t].source,
                         [kind |-> "response", session |-> msg[t].session, source |-> h])]
    /\ UNCHANGED <<ctxVars, mqVars, gq, pc, cur, msg, rel, lau, timers, fault>>

(* TIMEOUT 0: skynet_timeout pushes the response to the service itself.    *)
TimeoutNow(t) == \E h \in Handle :
    /\ InService(t, h) /\ Use("timeout")
    /\ session' = [session EXCEPT ![h] = @ + 1]
    /\ snd' = [snd EXCEPT ![t] = Sending(h, TimeoutMessage(session[h] + 1))]
    /\ UNCHANGED <<slot, ctx, ref, inited, forward, mqVars, gq, pc, cur, msg,
                   rel, lau, timers, fault>>

(* TIMEOUT n: skynet_timeout adds a timer node.                            *)
TimeoutLater(t) == \E h \in Handle :
    /\ InService(t, h) /\ Use("timeout")
    /\ session' = [session EXCEPT ![h] = @ + 1]
    /\ timers' = timers \cup {[h |-> h, session |-> session[h] + 1]}
    /\ UNCHANGED <<slot, ctx, ref, inited, forward, mqVars, gq, threadVars, fault>>

(* dispatch_list, by the timer thread, for one expired node.               *)
TimerFire(t) == \E n \in timers :
    /\ t \in Timer /\ Quiet(t)
    /\ timers' = timers \ {n}
    /\ snd' = [snd EXCEPT ![t] = Sending(n.h, TimeoutMessage(n.session))]
    /\ UNCHANGED <<ctxVars, mqVars, gq, pc, cur, msg, rel, lau, left, fault>>

(* skynet_forward: the callback asks to pass its message on.               *)
Forward(t) == \E h \in Handle, d \in Known :
    /\ InService(t, h) /\ lau[t].st = "none" /\ Use("forward")
    /\ forward[h] = NoHandle
    /\ forward' = [forward EXCEPT ![h] = d]
    /\ UNCHANGED <<slot, ctx, ref, inited, session, mqVars, gq, threadVars,
                   timers, fault>>

(* EXIT (d is the caller itself) and KILL: skynet_handle_retire.           *)
Kill(t) == \E h \in Handle, d \in Known :
    /\ InService(t, h) /\ Use("kill")
    /\ Retire(d)
    /\ UNCHANGED <<inited, session, forward, queue, inGlobal, lockSession,
                   qfreed, threadVars, timers, fault>>

(* skynet.blockcall: LOCK (skynet_mq_lock on the session that the next     *)
(* request will get, past its assertions), then the request.  The command  *)
(* does not mask that number as skynet_context_newsession does; the two    *)
(* differ only where sessions come round.                                  *)
BlockCall(t) == \E h \in Handle, d \in Known :
    LET s == session[h] + 1 IN
    /\ InService(t, h) /\ h \in inited /\ h \notin qfreed /\ Use("lock")
    /\ lockSession[h] = 0 /\ inGlobal[h] = MQ_IN_GLOBAL
    /\ inGlobal' = [inGlobal EXCEPT ![h] = MQ_DISPATCHING]
    /\ lockSession' = [lockSession EXCEPT ![h] = s]
    /\ session' = [session EXCEPT ![h] = s]
    /\ snd' = [snd EXCEPT ![t] =
                 Sending(d, [kind |-> "request", session |-> s, source |-> h])]
    /\ UNCHANGED <<slot, ctx, ref, inited, forward, queue, release, qfreed, gq,
                   pc, cur, msg, rel, lau, timers, fault>>

(* skynet_context_endless, by the monitor thread, for the destination it   *)
(* read from a worker's skynet_monitor: a grab and a release.              *)
MonitorCheck(t) == \E w \in Worker :
    /\ t \in Monitor /\ Quiet(t) /\ Use("endless")
    /\ pc[w] \in {"cb", "done", "pushglobal"}
    /\ snd' = [snd EXCEPT ![t] = [st |-> "endless", des |-> cur[w], m |-> NoMessage]]
    /\ UNCHANGED <<ctxVars, mqVars, gq, pc, cur, msg, rel, lau, timers, fault>>

MonitorEndless(t) ==
    LET d == snd[t].des IN
    /\ snd[t].st = "endless"
    /\ snd' = [snd EXCEPT ![t] = NoSend]
    /\ IF d \in slot
       THEN /\ ref' = [ref EXCEPT ![d] = @ + 1]
            /\ rel' = [rel EXCEPT ![t] = Stage("dec", d)]
       ELSE UNCHANGED <<ref, rel>>
    /\ UNCHANGED <<slot, ctx, inited, session, forward, mqVars, gq, pc, cur,
                   msg, lau, timers, left, fault>>

-----------------------------------------------------------------------------
(* LAUNCH: skynet_context_new.                                             *)

(* Up to the call of the module's init function: ctx->ref = 2, one for the *)
(* handle storage and one for this function.  An init that launches in     *)
(* turn, which would nest what lau describes, is left out.                 *)
Launch(t) == \E h, n \in Handle :
    /\ InService(t, h) /\ lau[t].st = "none" /\ Use("launch")
    /\ ctx[n] = "none"
    /\ ctx' = [ctx EXCEPT ![n] = "live"]
    /\ ref' = [ref EXCEPT ![n] = 2]
    /\ slot' = slot \cup {n}
    /\ inGlobal' = [inGlobal EXCEPT ![n] = MQ_IN_GLOBAL]
    /\ lau' = [lau EXCEPT ![t] = Stage("init", n)]
    /\ UNCHANGED <<inited, session, forward, queue, lockSession, release,
                   qfreed, gq, pc, cur, msg, snd, rel, timers, fault>>

(* init returned 0, or not: the release of this function's reference.      *)
(* The last reference is this one if the service has retired itself.       *)
InitReturn(t) == \E ok \in BOOLEAN :
    LET h == lau[t].h IN
    /\ lau[t].st = "init" /\ Quiet(t)
    /\ ref' = [ref EXCEPT ![h] = @ - 1]
    /\ rel' = [rel EXCEPT ![t] = IF ref[h] = 1 THEN Stage("mark", h) ELSE NoRelease]
    /\ lau' = [lau EXCEPT ![t] = Stage(IF ~ok THEN "failed"
                                       ELSE IF ref[h] = 1 THEN "gone" ELSE "ok", h)]
    /\ UNCHANGED <<slot, ctx, inited, session, forward, mqVars, gq, pc, cur,
                   msg, snd, timers, left, fault>>

(* ctx->init = true, when skynet_context_release returned the context.     *)
LaunchInited(t) ==
    LET h == lau[t].h IN
    /\ lau[t].st = "ok" /\ ctx[h] # "freed"
    /\ inited' = inited \cup {h}
    /\ lau' = [lau EXCEPT ![t] = Stage("inited", h)]
    /\ UNCHANGED <<slot, ctx, ref, session, forward, mqVars, gq, pc, cur, msg,
                   snd, rel, timers, left, fault>>

(* skynet_mq_force_push(queue), past its assertion.                        *)
LaunchPush(t) ==
    LET h == lau[t].h IN
    /\ lau[t].st \in {"inited", "gone"} /\ Quiet(t)
    /\ h \notin qfreed /\ inGlobal[h] # 0
    /\ GlobalPush(h)
    /\ lau' = [lau EXCEPT ![t] = IF lau[t].st = "gone" THEN NoLaunch
                                 ELSE Stage("return", h)]
    /\ UNCHANGED <<ctxVars, mqVars, pc, cur, msg, snd, rel, timers, left, fault>>

(* LAUNCH reads inst->handle for its result.                               *)
LaunchReturn(t) ==
    /\ lau[t].st = "return" /\ ctx[lau[t].h] # "freed"
    /\ lau' = [lau EXCEPT ![t] = NoLaunch]
    /\ UNCHANGED <<ctxVars, mqVars, gq, pc, cur, msg, snd, rel, timers, left, fault>>

(* skynet_handle_retire(ctx->handle) after a failed init.                  *)
LaunchRetire(t) ==
    LET h == lau[t].h IN
    /\ lau[t].st = "failed" /\ Quiet(t) /\ ctx[h] # "freed"
    /\ Retire(h)
    /\ lau' = [lau EXCEPT ![t] = Stage("drop", h)]
    /\ UNCHANGED <<inited, session, forward, queue, inGlobal, lockSession,
                   qfreed, pc, cur, msg, snd, rel, timers, left, fault>>

(* skynet_mq_release(queue) after a failed init.                           *)
LaunchDrop(t) ==
    LET h == lau[t].h IN
    /\ lau[t].st = "drop" /\ h \notin qfreed
    /\ release[h] \/ inGlobal[h] # 0
    /\ MqRelease(h)
    /\ lau' = [lau EXCEPT ![t] = NoLaunch]
    /\ UNCHANGED <<ctxVars, pc, cur, msg, snd, rel, timers, left, fault>>

-----------------------------------------------------------------------------
(* How the process ends: a failed assert aborts it, and what follows a use *)
(* of freed memory is undefined.  The assertions that never fail have no   *)
(* action here: AssertionsHold in module MCDispatch states them.           *)

(* The queue that the next step of t locks or reads.                       *)
TouchesQueue(t, h) ==
    \/ pc[t] \in {"grab", "mqrelease", "mqpop"} /\ cur[t] = h
    \/ pc[t] = "pushglobal" /\ cur[t] = h /\ Quiet(t)
    \/ snd[t].st = "push" /\ snd[t].des = h
    \/ lau[t].st \in {"inited", "gone", "drop"} /\ lau[t].h = h /\ Quiet(t)

(* The context that skynet_context_new or LAUNCH reads or writes after it  *)
(* has given up its reference.                                             *)
TouchesContext(t, h) ==
    /\ lau[t].h = h /\ Quiet(t)
    /\ lau[t].st \in {"ok", "return", "failed"}

UseFreedQueue(t) ==
    /\ \E h \in qfreed : TouchesQueue(t, h)
    /\ fault' = "freed_queue"
    /\ UNCHANGED <<ctxVars, mqVars, gq, threadVars, timers, left>>

UseFreedContext(t) ==
    /\ \E h \in Handle : TouchesContext(t, h) /\ ctx[h] = "freed"
    /\ fault' = "freed_context"
    /\ UNCHANGED <<ctxVars, mqVars, gq, threadVars, timers, left>>

(* assert(queue->in_global) of skynet_mq_force_push.                       *)
AssertForcePush(t) == \E h \in Handle \ qfreed :
    /\ \/ pc[t] = "mqrelease" /\ cur[t] = h /\ ~release[h]
       \/ lau[t].st = "drop" /\ lau[t].h = h /\ ~release[h]
       \/ lau[t].st \in {"inited", "gone"} /\ lau[t].h = h /\ Quiet(t)
    /\ inGlobal[h] = 0
    /\ fault' = "force_push"
    /\ UNCHANGED <<ctxVars, mqVars, gq, threadVars, timers, left>>

(* The assertions of skynet_mq_lock.                                       *)
AssertLock(t) == \E h \in inited \ qfreed :
    /\ InService(t, h) /\ left["lock"] > 0
    /\ lockSession[h] # 0 \/ inGlobal[h] # MQ_IN_GLOBAL
    /\ fault' = "mq_lock"
    /\ UNCHANGED <<ctxVars, mqVars, gq, threadVars, timers, left>>

Crash(t) ==
    \/ UseFreedQueue(t) \/ UseFreedContext(t) \/ AssertForcePush(t) \/ AssertLock(t)

-----------------------------------------------------------------------------
(* What a thread does by itself once it has started something.             *)
Progress(t) ==
    \/ GlobalPop(t) \/ Grab(t) \/ DropQueue(t) \/ PopEmpty(t) \/ PopMessage(t)
    \/ CallbackEnd(t) \/ DispatchRelease(t) \/ PushGlobal(t)
    \/ SendGrab(t) \/ SendPush(t) \/ MonitorEndless(t)
    \/ ReleaseDec(t) \/ ReleaseMark(t) \/ ReleaseFree(t)
    \/ InitReturn(t) \/ LaunchInited(t) \/ LaunchPush(t) \/ LaunchReturn(t)
    \/ LaunchRetire(t) \/ LaunchDrop(t)

(* What service code and the clock make it do.                             *)
Operation(t) ==
    \/ Request(t) \/ Respond(t) \/ TimeoutNow(t) \/ TimeoutLater(t)
    \/ Forward(t) \/ Kill(t) \/ BlockCall(t) \/ Launch(t)
    \/ TimerFire(t) \/ MonitorCheck(t)

Next ==
    /\ fault = "none"
    /\ \E t \in Thread : Progress(t) \/ Operation(t) \/ Crash(t)

Spec == Init /\ [][Next]_vars

(* The threads are pthreads that the operating system schedules fairly, a  *)
(* callback returns, and the timer thread goes on ticking.                 *)
Fairness ==
    /\ \A t \in Thread : WF_vars(fault = "none" /\ Progress(t))
    /\ \A t \in Timer : WF_vars(fault = "none" /\ TimerFire(t))

FairSpec == Spec /\ Fairness
=============================================================================
