------------------------- MODULE DispatchSafetyProofs -------------------------
(***************************************************************************)
(* Nothing breaks underneath the services: the assertions of the code      *)
(* hold, and no queue is used after it was freed.  What a service sees of  *)
(* the scheduler: requests are queued in the order in which they were      *)
(* sent, and the threads implement the mailboxes of module ActorMailbox.   *)
(***************************************************************************)
EXTENDS DispatchProofs

(* Who gives up the last reference finds the handle storage without it.    *)
LEMMA LastHolder ==
    ASSUME RefCount, NEW h \in Handle, ref[h] = 1, NEW t \in Thread,
           (rel[t].st = "dec" /\ rel[t].h = h) \/ (lau[t].st = "init" /\ lau[t].h = h)
    PROVE  h \notin slot
  <1>1. \A S \in SUBSET Thread : Cardinality(S) \in Nat /\ (S # {} => Cardinality(S) > 0)
    <2> SUFFICES ASSUME NEW S \in SUBSET Thread
                 PROVE  Cardinality(S) \in Nat /\ (S # {} => Cardinality(S) > 0)
      OBVIOUS
    <2>1. IsFiniteSet(S)
      BY ThreadFinite, FS_Subset
    <2> QED BY <2>1, FS_CardinalityType, FS_EmptySet
  <1>2. /\ Dispatching(h) \in SUBSET Thread /\ Pushing(h) \in SUBSET Thread
        /\ Dropping(h) \in SUBSET Thread /\ Launching(h) \in SUBSET Thread
    BY DEF Dispatching, Pushing, Dropping, Launching
  <1>3. Dropping(h) # {} \/ Launching(h) # {}
    BY DEF Dropping, Launching
  <1>4. ref[h] = (IF h \in slot THEN 1 ELSE 0)
                 + Cardinality(Dispatching(h)) + Cardinality(Pushing(h))
                 + Cardinality(Dropping(h)) + Cardinality(Launching(h))
    BY DEF RefCount
  <1> QED BY <1>1, <1>2, <1>3, <1>4

(* A queue with a token and a reference is flagged.                        *)
LEMMA TokenFlag ==
    ASSUME TokenInv, NEW x \in Handle, ref[x] > 0, NEW t \in Thread, Works(t, x) \/ Starts(t, x)
    PROVE  inGlobal[x] \notin {0, MQ_LOCKED} /\ OneToken(x)
  BY DEF TokenInv, Tokens, TokenAt, NoToken

-----------------------------------------------------------------------------
(* A step of thread t that keeps what the other threads rely on.           *)
LEMMA KeepStanding ==
    ASSUME StandingInv, NEW t \in Thread, \A u \in Thread \ {t} : SameThread(u),
           Carried(t)',
           slot' \subseteq slot, inited \subseteq inited', qfreed \subseteq qfreed',
           \A x \in inited' \ inited, u \in Thread \ {t} : ~Starts(u, x) \/ x \notin slot,
           \A x \in Handle : x \in slot' \ inited =>
               /\ InGlobalQueue(x)' => InGlobalQueue(x)
               /\ Works(t, x)' => Works(t, x) \/ InGlobalQueue(x)
               /\ inGlobal'[x] = inGlobal[x] /\ lockSession'[x] = lockSession[x],
           \A x \in Handle, u \in Thread \ {t} : pc[u] = "pushglobal" /\ cur[u] = x /\ inGlobal[x] # 0 =>
               inGlobal'[x] # 0 \/ x \in qfreed',
           \A x \in Handle : FreedLater(x)'
    PROVE  Standing'
  <1>1. ASSUME NEW u \in Thread PROVE Carried(u)'
    <2>1. CASE u = t
      BY <2>1
    <2>2. CASE u # t
      <3>1. SameThread(u) /\ Carried(u) /\ ThreadShape(u)
        BY <2>2 DEF StandingInv, Standing, SchedulerInv, TokenInv, RefInv, TypeInv, Shape
      <3>2. pc'[u] = "pushglobal" => inGlobal'[cur'[u]] # 0 \/ cur'[u] \in qfreed'
        BY <2>2, <3>1 DEF Carried, SameThread, ThreadShape
      <3>3. lau'[u].st \in {"ok", "failed"} /\ lau'[u].h \in slot' => lau'[u].h \notin inited'
        BY <2>2, <3>1 DEF Carried, SameThread, Starts
      <3> QED BY <3>1, <3>2, <3>3 DEF Carried, SameThread
    <2> QED BY <2>1, <2>2
  <1>2. ASSUME NEW x \in Handle PROVE Young(x)'
    <2> SUFFICES ASSUME x \in slot' \ inited'
                 PROVE  /\ ~InGlobalQueue(x)' /\ \A u \in Thread : ~Works(u, x)'
                        /\ inGlobal'[x] = MQ_IN_GLOBAL /\ lockSession'[x] = 0
      BY DEF Young
    <2>1. Young(x) /\ x \in slot \ inited
      BY DEF StandingInv, Standing
    <2>2. \A u \in Thread \ {t} : Works(u, x)' => Works(u, x)
      BY DEF SameThread, Works
    <2> QED BY <2>1, <2>2 DEF Young
  <1> QED BY <1>1, <1>2 DEF Standing

(* A step that leaves the queues' flags and the global queue alone.        *)
LEMMA KeepStandingQuietly ==
    ASSUME StandingInv, NEW t \in Thread, \A u \in Thread \ {t} : SameThread(u), Carried(t)',
           UNCHANGED <<slot, ctx, inited, inGlobal, lockSession, release, qfreed, gq>>,
           \A x \in Handle : Works(t, x)' => Works(t, x)
    PROVE  Standing'
  <1>1. \A x \in Handle : FreedLater(x)' /\ (InGlobalQueue(x)' => InGlobalQueue(x))
    BY DEF StandingInv, Standing, FreedLater, InGlobalQueue
  <1> QED BY <1>1, KeepStanding

(* The initial states.                                                     *)
LEMMA InitStanding == Init => StandingInv
  <1> SUFFICES ASSUME Init PROVE StandingInv OBVIOUS
  <1>1. \A t \in Thread : Carried(t)
    BY DEF Init, Carried, NoLaunch
  <1>2. \A h \in Handle : Young(h) /\ FreedLater(h)
    BY DEF Init, Young, FreedLater
  <1> QED BY InitWake, <1>1, <1>2 DEF StandingInv, Standing

-----------------------------------------------------------------------------
(* Every step keeps what the threads with a queue in their hands rely on.  *)
LEMMA StepStanding == StandingInv /\ [Next]_vars => StandingInv'
  <1> SUFFICES ASSUME StandingInv, [Next]_vars PROVE StandingInv'
    OBVIOUS
  <1>0. SchedulerInv'
    BY StepWake DEF StandingInv
  <1> USE DEF StandingInv, SchedulerInv, TokenInv, RefInv, TypeInv, TypeOK, vars, ctxVars, mqVars, threadVars
  <1>1. ASSUME NEW t \in Thread, GlobalPop(t) PROVE StandingInv'
    <2>1. \A u \in Thread \ {t} : SameThread(u)
      BY <1>1 DEF GlobalPop, ThreadType, SameThread
    <2>3. Carried(t)'
      BY <1>1 DEF GlobalPop, Standing, Carried, ThreadType, NoLaunch, Stage
    <2>4. slot' \subseteq slot /\ inited \subseteq inited' /\ qfreed \subseteq qfreed'
          /\ \A x \in inited' \ inited, u \in Thread \ {t} : ~Starts(u, x) \/ x \notin slot
      BY <1>1 DEF GlobalPop
    <2>5. ASSUME NEW x \in Handle, x \in slot' \ inited
          PROVE  /\ InGlobalQueue(x)' => InGlobalQueue(x)
                 /\ Works(t, x)' => Works(t, x) \/ InGlobalQueue(x)
                 /\ inGlobal'[x] = inGlobal[x] /\ lockSession'[x] = lockSession[x]
      <3>1. gq \in Seq(Handle) /\ gq # <<>> /\ gq' = Tail(gq) /\ UNCHANGED <<inGlobal, lockSession>>
        BY <1>1 DEF GlobalPop, QueueType
      <3>2. Works(t, x)' => x = Head(gq)
        BY <1>1 DEF GlobalPop, Works, ThreadType
      <3> QED BY <3>1, <3>2, GlobalPopEffect
    <2>6. ASSUME NEW x \in Handle, NEW u \in Thread \ {t}, pc[u] = "pushglobal" /\ cur[u] = x /\ inGlobal[x] # 0
          PROVE  inGlobal'[x] # 0 \/ x \in qfreed'
      BY <1>1, <2>6 DEF GlobalPop
    <2>7. ASSUME NEW x \in Handle PROVE FreedLater(x)'
      BY <1>1 DEF GlobalPop, Standing, FreedLater
    <2> QED BY <1>0, <2>1, <2>3, <2>4, <2>5, <2>6, <2>7, KeepStanding DEF StandingInv
  <1>2. ASSUME NEW t \in Thread, Grab(t) PROVE StandingInv'
    <2>1. \A u \in Thread \ {t} : SameThread(u)
      BY <1>2 DEF Grab, ThreadType, SameThread
    <2>c. pc'[t] = "mqpop" => cur[t] \in inited
      <3>1. cur[t] \in Handle /\ Works(t, cur[t])
        BY <1>2 DEF Grab, Works, Shape, ThreadShape
      <3> QED BY <1>2, <3>1 DEF Grab, Standing, Young, ThreadType
    <2>2. Carried(t)'
      BY <1>2, <2>c DEF Grab, Standing, Carried, ThreadType, NoLaunch, Stage
    <2>3. UNCHANGED <<slot, ctx, inited, inGlobal, lockSession, release, qfreed, gq>>
      BY <1>2 DEF Grab
    <2>4. \A x \in Handle : Works(t, x)' => Works(t, x)
      BY <1>2 DEF Grab, Works, ThreadType
    <2> QED BY <1>0, <2>1, <2>2, <2>3, <2>4, KeepStandingQuietly DEF StandingInv
  <1>3. ASSUME NEW t \in Thread, DropQueue(t) PROVE StandingInv'
    <2>1. \A u \in Thread \ {t} : SameThread(u)
      BY <1>3 DEF DropQueue, ThreadType, SameThread
    <2>2. cur[t] \in Handle /\ MqRelease(cur[t]) /\ UNCHANGED <<slot, ctx, inited, lau>>
      BY <1>3 DEF DropQueue, Shape, ThreadShape
    <2>3. Carried(t)'
      BY <1>3 DEF DropQueue, Standing, Carried, ThreadType, NoLaunch, Stage
    <2>4. slot' \subseteq slot /\ inited \subseteq inited' /\ qfreed \subseteq qfreed'
          /\ \A x \in inited' \ inited, u \in Thread \ {t} : ~Starts(u, x) \/ x \notin slot
      BY <2>2 DEF MqRelease
    <2>5. ASSUME NEW x \in Handle, x \in slot' \ inited
          PROVE  /\ InGlobalQueue(x)' => InGlobalQueue(x)
                 /\ Works(t, x)' => Works(t, x) \/ InGlobalQueue(x)
                 /\ inGlobal'[x] = inGlobal[x] /\ lockSession'[x] = lockSession[x]
      <3>1. x # cur[t]
        BY <1>3, <2>2, <2>5 DEF DropQueue, Standing, Young, Works
      <3>2. InGlobalQueue(x)' => InGlobalQueue(x)
        BY <2>2, <3>1, QueueEffect DEF QueueType
      <3>3. Works(t, x)' => Works(t, x)
        BY <1>3 DEF DropQueue, Works, ThreadType
      <3> QED BY <2>2, <3>1, <3>2, <3>3 DEF MqRelease, QueueType
    <2>6. ASSUME NEW x \in Handle, NEW u \in Thread \ {t}, pc[u] = "pushglobal" /\ cur[u] = x /\ inGlobal[x] # 0
          PROVE  inGlobal'[x] # 0 \/ x \in qfreed'
      BY <2>2, <2>6 DEF MqRelease, QueueType
    <2>7. ASSUME NEW x \in Handle PROVE FreedLater(x)'
      BY <2>2 DEF MqRelease, Standing, FreedLater
    <2> QED BY <1>0, <2>1, <2>3, <2>4, <2>5, <2>6, <2>7, KeepStanding DEF StandingInv
  <1>4. ASSUME NEW t \in Thread, PopEmpty(t) PROVE StandingInv'
    <2>1. \A u \in Thread \ {t} : SameThread(u)
      BY <1>4 DEF PopEmpty, ThreadType, SameThread
    <2>2. cur[t] \in Handle /\ Works(t, cur[t]) /\ ref[cur[t]] > 0
          /\ inGlobal' = [inGlobal EXCEPT ![cur[t]] = 0]
      BY <1>4, HeldPositive DEF PopEmpty, Works, Shape, ThreadShape
    <2>3. Carried(t)'
      BY <1>4 DEF PopEmpty, Standing, Carried, ThreadType, NoLaunch, Stage
    <2>4. slot' \subseteq slot /\ inited \subseteq inited' /\ qfreed \subseteq qfreed'
          /\ \A x \in inited' \ inited, u \in Thread \ {t} : ~Starts(u, x) \/ x \notin slot
      BY <1>4 DEF PopEmpty
    <2>5. ASSUME NEW x \in Handle, x \in slot' \ inited
          PROVE  /\ InGlobalQueue(x)' => InGlobalQueue(x)
                 /\ Works(t, x)' => Works(t, x) \/ InGlobalQueue(x)
                 /\ inGlobal'[x] = inGlobal[x] /\ lockSession'[x] = lockSession[x]
      <3>1. x # cur[t]
        BY <1>4, <2>2, <2>5 DEF PopEmpty, Standing, Young
      <3> QED BY <1>4, <2>2, <3>1 DEF PopEmpty, Works, InGlobalQueue, ThreadType, QueueType
    <2>6. ASSUME NEW x \in Handle, NEW u \in Thread \ {t}, pc[u] = "pushglobal" /\ cur[u] = x /\ inGlobal[x] # 0
          PROVE  inGlobal'[x] # 0 \/ x \in qfreed'
      <3>1. x # cur[t]
        BY <2>2, <2>6, TokenFlag DEF OneToken, Works
      <3> QED BY <2>2, <2>6, <3>1 DEF QueueType
    <2>7. ASSUME NEW x \in Handle PROVE FreedLater(x)'
      BY <1>4 DEF PopEmpty, Standing, FreedLater
    <2> QED BY <1>0, <2>1, <2>3, <2>4, <2>5, <2>6, <2>7, KeepStanding DEF StandingInv
  <1>5. ASSUME NEW t \in Thread, PopMessage(t) PROVE StandingInv'
    <2>1. \A u \in Thread \ {t} : SameThread(u)
      BY <1>5 DEF PopMessage, ThreadType, SameThread
    <2>2. Carried(t)'
      BY <1>5 DEF PopMessage, Standing, Carried, ThreadType, NoLaunch, Stage
    <2>3. UNCHANGED <<slot, ctx, inited, inGlobal, lockSession, release, qfreed, gq>>
      BY <1>5 DEF PopMessage
    <2>4. \A x \in Handle : Works(t, x)' => Works(t, x)
      BY <1>5 DEF PopMessage, Works, ThreadType
    <2> QED BY <1>0, <2>1, <2>2, <2>3, <2>4, KeepStandingQuietly DEF StandingInv
  <1>6. ASSUME NEW t \in Thread, CallbackEnd(t) PROVE StandingInv'
    <2>1. \A u \in Thread \ {t} : SameThread(u)
      BY <1>6 DEF CallbackEnd, ThreadType, SameThread
    <2>2. Carried(t)'
      BY <1>6 DEF CallbackEnd, Standing, Carried, ThreadType, NoLaunch, Stage
    <2>3. UNCHANGED <<slot, ctx, inited, inGlobal, lockSession, release, qfreed, gq>>
      BY <1>6 DEF CallbackEnd
    <2>4. \A x \in Handle : Works(t, x)' => Works(t, x)
      BY <1>6 DEF CallbackEnd, Works, ThreadType
    <2> QED BY <1>0, <2>1, <2>2, <2>3, <2>4, KeepStandingQuietly DEF StandingInv
  <1>7. ASSUME NEW t \in Thread, DispatchRelease(t) PROVE StandingInv'
    <2>1. \A u \in Thread \ {t} : SameThread(u)
      BY <1>7 DEF DispatchRelease, ThreadType, SameThread
    <2>c. inGlobal[cur[t]] # 0
      <3>1. cur[t] \in Handle /\ Works(t, cur[t]) /\ ref[cur[t]] > 0
        BY <1>7, HeldPositive DEF DispatchRelease, Works, Shape, ThreadShape
      <3> QED BY <3>1, TokenFlag
    <2>2. Carried(t)'
      BY <1>7, <2>c DEF DispatchRelease, Standing, Carried, ThreadType, NoLaunch, Stage
    <2>3. UNCHANGED <<slot, ctx, inited, inGlobal, lockSession, release, qfreed, gq>>
      BY <1>7 DEF DispatchRelease
    <2>4. \A x \in Handle : Works(t, x)' => Works(t, x)
      BY <1>7 DEF DispatchRelease, Works, ThreadType
    <2> QED BY <1>0, <2>1, <2>2, <2>3, <2>4, KeepStandingQuietly DEF StandingInv
  <1>8. ASSUME NEW t \in Thread, PushGlobal(t) PROVE StandingInv'
    <2>1. \A u \in Thread \ {t} : SameThread(u)
      BY <1>8 DEF PushGlobal, ThreadType, SameThread
    <2>2. cur[t] \in Handle /\ MqPushGlobal(cur[t]) /\ UNCHANGED <<slot, ctx, inited, lau>>
      BY <1>8 DEF PushGlobal, Shape, ThreadShape
    <2>3. Carried(t)'
      BY <1>8 DEF PushGlobal, Standing, Carried, ThreadType, NoLaunch, Stage
    <2>4. slot' \subseteq slot /\ inited \subseteq inited' /\ qfreed \subseteq qfreed'
          /\ \A x \in inited' \ inited, u \in Thread \ {t} : ~Starts(u, x) \/ x \notin slot
      BY <2>2 DEF MqPushGlobal
    <2>5. ASSUME NEW x \in Handle, x \in slot' \ inited
          PROVE  /\ InGlobalQueue(x)' => InGlobalQueue(x)
                 /\ Works(t, x)' => Works(t, x) \/ InGlobalQueue(x)
                 /\ inGlobal'[x] = inGlobal[x] /\ lockSession'[x] = lockSession[x]
      <3>1. x # cur[t]
        BY <1>8, <2>2, <2>5 DEF PushGlobal, Standing, Young, Works
      <3>2. InGlobalQueue(x)' => InGlobalQueue(x)
        BY <2>2, <3>1, QueueEffect DEF QueueType
      <3>3. Works(t, x)' => Works(t, x)
        BY <1>8 DEF PushGlobal, Works, ThreadType
      <3> QED BY <2>2, <3>1, <3>2, <3>3 DEF MqPushGlobal, QueueType
    <2>6. ASSUME NEW x \in Handle, NEW u \in Thread \ {t}, pc[u] = "pushglobal" /\ cur[u] = x /\ inGlobal[x] # 0
          PROVE  inGlobal'[x] # 0 \/ x \in qfreed'
      BY <2>2, <2>6 DEF MqPushGlobal, QueueType, MQ_IN_GLOBAL, MQ_DISPATCHING, MQ_LOCKED
    <2>7. ASSUME NEW x \in Handle PROVE FreedLater(x)'
      BY <2>2 DEF MqPushGlobal, Standing, FreedLater
    <2> QED BY <1>0, <2>1, <2>3, <2>4, <2>5, <2>6, <2>7, KeepStanding DEF StandingInv
  <1>9. ASSUME NEW t \in Thread, SendGrab(t) PROVE StandingInv'
    <2>1. \A u \in Thread \ {t} : SameThread(u)
      BY <1>9 DEF SendGrab, ThreadType, SameThread
    <2>2. Carried(t)'
      BY <1>9 DEF SendGrab, Standing, Carried, ThreadType, NoLaunch, Stage
    <2>3. UNCHANGED <<slot, ctx, inited, inGlobal, lockSession, release, qfreed, gq>>
      BY <1>9 DEF SendGrab
    <2>4. \A x \in Handle : Works(t, x)' => Works(t, x)
      BY <1>9 DEF SendGrab, Works, ThreadType
    <2> QED BY <1>0, <2>1, <2>2, <2>3, <2>4, KeepStandingQuietly DEF StandingInv
  <1>10. ASSUME NEW t \in Thread, SendPush(t) PROVE StandingInv'
    <2>1. \A u \in Thread \ {t} : SameThread(u)
      BY <1>10 DEF SendPush, ThreadType, SameThread
    <2>2. snd[t].des \in Handle /\ snd[t].m \in Message /\ MqPush(snd[t].des, snd[t].m)
          /\ UNCHANGED <<slot, ctx, inited, lau, pc, cur>>
      BY <1>10 DEF SendPush, Shape, ThreadShape
    <2>3. Carried(t)'
      <3>1. pc[t] = "pushglobal" => inGlobal'[cur[t]] # 0 \/ cur[t] \in qfreed
        BY <2>2 DEF Standing, Carried, Shape, ThreadShape, MqPush, PushHead, PushTail, QueueType, MQ_IN_GLOBAL
      <3> QED BY <2>2, <3>1 DEF MqPush, Standing, Carried
    <2>4. slot' \subseteq slot /\ inited \subseteq inited' /\ qfreed \subseteq qfreed'
          /\ \A x \in inited' \ inited, u \in Thread \ {t} : ~Starts(u, x) \/ x \notin slot
      BY <2>2 DEF MqPush
    <2>5. ASSUME NEW x \in Handle, x \in slot' \ inited
          PROVE  /\ InGlobalQueue(x)' => InGlobalQueue(x)
                 /\ Works(t, x)' => Works(t, x) \/ InGlobalQueue(x)
                 /\ inGlobal'[x] = inGlobal[x] /\ lockSession'[x] = lockSession[x]
      <3>1. Works(t, x)' => Works(t, x)
        BY <2>2 DEF Works
      <3>2. CASE x # snd[t].des
        <4>1. InGlobalQueue(x)' => InGlobalQueue(x)
          BY <2>2, <3>2, QueueEffect DEF QueueType
        <4> QED BY <2>2, <3>1, <3>2, <4>1 DEF MqPush, PushHead, PushTail, QueueType
      <3>3. CASE x = snd[t].des
        <4>1. inGlobal[x] = MQ_IN_GLOBAL /\ lockSession[x] = 0
          BY <2>2, <2>5 DEF Standing, Young
        <4>2. UNCHANGED <<gq, inGlobal, lockSession>>
          BY <2>2, <3>3, <4>1 DEF MqPush, Unlocks, PushTail, MQ_IN_GLOBAL
        <4> QED BY <3>1, <4>2 DEF InGlobalQueue
      <3> QED BY <3>2, <3>3
    <2>6. ASSUME NEW x \in Handle, NEW u \in Thread \ {t}, pc[u] = "pushglobal" /\ cur[u] = x /\ inGlobal[x] # 0
          PROVE  inGlobal'[x] # 0 \/ x \in qfreed'
      BY <2>2, <2>6 DEF MqPush, PushHead, PushTail, QueueType, MQ_IN_GLOBAL
    <2>7. ASSUME NEW x \in Handle PROVE FreedLater(x)'
      BY <2>2 DEF MqPush, Standing, FreedLater
    <2> QED BY <1>0, <2>1, <2>3, <2>4, <2>5, <2>6, <2>7, KeepStanding DEF StandingInv
  <1>11. ASSUME NEW t \in Thread, MonitorEndless(t) PROVE StandingInv'
    <2>1. \A u \in Thread \ {t} : SameThread(u)
      BY <1>11 DEF MonitorEndless, ThreadType, SameThread
    <2>2. Carried(t)'
      BY <1>11 DEF MonitorEndless, Standing, Carried, ThreadType, NoLaunch, Stage
    <2>3. UNCHANGED <<slot, ctx, inited, inGlobal, lockSession, release, qfreed, gq>>
      BY <1>11 DEF MonitorEndless
    <2>4. \A x \in Handle : Works(t, x)' => Works(t, x)
      BY <1>11 DEF MonitorEndless, Works, ThreadType
    <2> QED BY <1>0, <2>1, <2>2, <2>3, <2>4, KeepStandingQuietly DEF StandingInv
  <1>12. ASSUME NEW t \in Thread, ReleaseDec(t) PROVE StandingInv'
    <2>1. \A u \in Thread \ {t} : SameThread(u)
      BY <1>12 DEF ReleaseDec, ThreadType, SameThread
    <2>2. Carried(t)'
      BY <1>12 DEF ReleaseDec, Standing, Carried, ThreadType, NoLaunch, Stage
    <2>3. UNCHANGED <<slot, ctx, inited, inGlobal, lockSession, release, qfreed, gq>>
      BY <1>12 DEF ReleaseDec
    <2>4. \A x \in Handle : Works(t, x)' => Works(t, x)
      BY <1>12 DEF ReleaseDec, Works, ThreadType
    <2> QED BY <1>0, <2>1, <2>2, <2>3, <2>4, KeepStandingQuietly DEF StandingInv
  <1>13. ASSUME NEW t \in Thread, ReleaseMark(t) PROVE StandingInv'
    <2>1. \A u \in Thread \ {t} : SameThread(u)
      BY <1>13 DEF ReleaseMark, ThreadType, SameThread
    <2>2. rel[t].h \in Handle /\ MarkPush(rel[t].h) /\ UNCHANGED <<ctxVars, mqVars, pc, cur, lau>>
      BY <1>13 DEF ReleaseMark, Shape, ThreadShape
    <2>3. Carried(t)'
      BY <2>2 DEF Standing, Carried
    <2>4. slot' \subseteq slot /\ inited \subseteq inited' /\ qfreed \subseteq qfreed'
          /\ \A x \in inited' \ inited, u \in Thread \ {t} : ~Starts(u, x) \/ x \notin slot
      BY <2>2
    <2>5. ASSUME NEW x \in Handle, x \in slot' \ inited
          PROVE  /\ InGlobalQueue(x)' => InGlobalQueue(x)
                 /\ Works(t, x)' => Works(t, x) \/ InGlobalQueue(x)
                 /\ inGlobal'[x] = inGlobal[x] /\ lockSession'[x] = lockSession[x]
      <3>1. ref[rel[t].h] = 0
        BY <1>13, <2>2 DEF ReleaseMark, Deletion, DeletedOnce, Deletes
      <3>2. x # rel[t].h
        BY <2>2, <2>5, <3>1, HeldPositive
      <3>3. InGlobalQueue(x)' => InGlobalQueue(x)
        BY <2>2, <3>2, QueueEffect DEF QueueType
      <3> QED BY <2>2, <3>3 DEF Works
    <2>6. ASSUME NEW x \in Handle, NEW u \in Thread \ {t}, pc[u] = "pushglobal" /\ cur[u] = x /\ inGlobal[x] # 0
          PROVE  inGlobal'[x] # 0 \/ x \in qfreed'
      BY <2>2, <2>6
    <2>7. ASSUME NEW x \in Handle PROVE FreedLater(x)'
      BY <2>2 DEF Standing, FreedLater
    <2> QED BY <1>0, <2>1, <2>3, <2>4, <2>5, <2>6, <2>7, KeepStanding DEF StandingInv
  <1>14. ASSUME NEW t \in Thread, ReleaseFree(t) PROVE StandingInv'
    <2>1. \A u \in Thread \ {t} : SameThread(u)
      BY <1>14 DEF ReleaseFree, ThreadType, SameThread
    <2>2. rel[t].h \in Handle /\ release' = [release EXCEPT ![rel[t].h] = TRUE]
          /\ ctx' = [ctx EXCEPT ![rel[t].h] = "freed"]
          /\ UNCHANGED <<slot, inited, inGlobal, lockSession, qfreed, gq, pc, cur, lau>>
      BY <1>14 DEF ReleaseFree, Shape, ThreadShape
    <2>3. Carried(t)'
      BY <2>2 DEF Standing, Carried
    <2>4. slot' \subseteq slot /\ inited \subseteq inited' /\ qfreed \subseteq qfreed'
          /\ \A x \in inited' \ inited, u \in Thread \ {t} : ~Starts(u, x) \/ x \notin slot
      BY <2>2
    <2>5. ASSUME NEW x \in Handle, x \in slot' \ inited
          PROVE  /\ InGlobalQueue(x)' => InGlobalQueue(x)
                 /\ Works(t, x)' => Works(t, x) \/ InGlobalQueue(x)
                 /\ inGlobal'[x] = inGlobal[x] /\ lockSession'[x] = lockSession[x]
      BY <2>2 DEF Works, InGlobalQueue
    <2>6. ASSUME NEW x \in Handle, NEW u \in Thread \ {t}, pc[u] = "pushglobal" /\ cur[u] = x /\ inGlobal[x] # 0
          PROVE  inGlobal'[x] # 0 \/ x \in qfreed'
      BY <2>2, <2>6
    <2>7. ASSUME NEW x \in Handle PROVE FreedLater(x)'
      BY <2>2 DEF Standing, FreedLater, ContextType, QueueType
    <2> QED BY <1>0, <2>1, <2>3, <2>4, <2>5, <2>6, <2>7, KeepStanding DEF StandingInv
  <1>15. ASSUME NEW t \in Thread, InitReturn(t) PROVE StandingInv'
    <2>1. \A u \in Thread \ {t} : SameThread(u)
      BY <1>15 DEF InitReturn, ThreadType, SameThread
    <2>c. lau[t].h \in Handle /\ ref[lau[t].h] > 0 /\ (ref[lau[t].h] = 1 => lau[t].h \notin slot)
      BY <1>15, HeldPositive, LastHolder DEF InitReturn, Shape, ThreadShape
    <2>d. lau[t].h \notin inited
      BY <1>15, <2>c DEF InitReturn, Tokens, TokenAt
    <2>2. Carried(t)'
      BY <1>15, <2>c, <2>d DEF InitReturn, Standing, Carried, ThreadType, NoLaunch, Stage
    <2>3. UNCHANGED <<slot, ctx, inited, inGlobal, lockSession, release, qfreed, gq>>
      BY <1>15 DEF InitReturn
    <2>4. \A x \in Handle : Works(t, x)' => Works(t, x)
      BY <1>15 DEF InitReturn, Works, ThreadType
    <2> QED BY <1>0, <2>1, <2>2, <2>3, <2>4, KeepStandingQuietly DEF StandingInv
  <1>16. ASSUME NEW t \in Thread, LaunchInited(t) PROVE StandingInv'
    <2>1. \A u \in Thread \ {t} : SameThread(u)
      BY <1>16 DEF LaunchInited, ThreadType, SameThread
    <2>2. lau[t].h \in Handle /\ lau[t].st = "ok" /\ inited' = inited \cup {lau[t].h}
          /\ UNCHANGED <<slot, ctx, mqVars, gq, pc, cur>>
      BY <1>16 DEF LaunchInited, Shape, ThreadShape
    <2>3. Carried(t)'
      BY <1>16 DEF LaunchInited, Standing, Carried, ThreadType, NoLaunch, Stage
    <2>4. slot' \subseteq slot /\ inited \subseteq inited' /\ qfreed \subseteq qfreed'
          /\ \A x \in inited' \ inited, u \in Thread \ {t} : ~Starts(u, x) \/ x \notin slot
      <3>1. lau[t].h \in slot => ref[lau[t].h] > 0
        BY <2>2, HeldPositive
      <3>2. Starts(t, lau[t].h)
        BY <2>2 DEF Starts
      <3>3. lau[t].h \in slot => \A u \in Thread \ {t} : ~Starts(u, lau[t].h)
        BY <2>2, <3>1, <3>2, TokenFlag DEF OneToken
      <3> QED BY <2>2, <3>3
    <2>5. ASSUME NEW x \in Handle, x \in slot' \ inited
          PROVE  /\ InGlobalQueue(x)' => InGlobalQueue(x)
                 /\ Works(t, x)' => Works(t, x) \/ InGlobalQueue(x)
                 /\ inGlobal'[x] = inGlobal[x] /\ lockSession'[x] = lockSession[x]
      BY <2>2 DEF Works, InGlobalQueue
    <2>6. ASSUME NEW x \in Handle, NEW u \in Thread \ {t}, pc[u] = "pushglobal" /\ cur[u] = x /\ inGlobal[x] # 0
          PROVE  inGlobal'[x] # 0 \/ x \in qfreed'
      BY <2>2, <2>6
    <2>7. ASSUME NEW x \in Handle PROVE FreedLater(x)'
      BY <2>2 DEF Standing, FreedLater
    <2> QED BY <1>0, <2>1, <2>3, <2>4, <2>5, <2>6, <2>7, KeepStanding DEF StandingInv
  <1>17. ASSUME NEW t \in Thread, LaunchPush(t) PROVE StandingInv'
    <2>1. \A u \in Thread \ {t} : SameThread(u)
      BY <1>17 DEF LaunchPush, ThreadType, SameThread
    <2>2. lau[t].h \in Handle /\ GlobalPush(lau[t].h) /\ UNCHANGED <<ctxVars, mqVars, pc, cur>>
      BY <1>17 DEF LaunchPush, Shape, ThreadShape
    <2>3. Carried(t)'
      BY <1>17 DEF LaunchPush, Standing, Carried, ThreadType, NoLaunch, Stage
    <2>4. slot' \subseteq slot /\ inited \subseteq inited' /\ qfreed \subseteq qfreed'
          /\ \A x \in inited' \ inited, u \in Thread \ {t} : ~Starts(u, x) \/ x \notin slot
      BY <2>2
    <2>5. ASSUME NEW x \in Handle, x \in slot' \ inited
          PROVE  /\ InGlobalQueue(x)' => InGlobalQueue(x)
                 /\ Works(t, x)' => Works(t, x) \/ InGlobalQueue(x)
                 /\ inGlobal'[x] = inGlobal[x] /\ lockSession'[x] = lockSession[x]
      <3>1. x # lau[t].h
        BY <1>17, <2>2, <2>5 DEF LaunchPush, Standing, Carried
      <3>2. InGlobalQueue(x)' => InGlobalQueue(x)
        BY <2>2, <3>1, QueueEffect DEF QueueType
      <3> QED BY <2>2, <3>2 DEF Works
    <2>6. ASSUME NEW x \in Handle, NEW u \in Thread \ {t}, pc[u] = "pushglobal" /\ cur[u] = x /\ inGlobal[x] # 0
          PROVE  inGlobal'[x] # 0 \/ x \in qfreed'
      BY <2>2, <2>6
    <2>7. ASSUME NEW x \in Handle PROVE FreedLater(x)'
      BY <2>2 DEF Standing, FreedLater
    <2> QED BY <1>0, <2>1, <2>3, <2>4, <2>5, <2>6, <2>7, KeepStanding DEF StandingInv
  <1>18. ASSUME NEW t \in Thread, LaunchReturn(t) PROVE StandingInv'
    <2>1. \A u \in Thread \ {t} : SameThread(u)
      BY <1>18 DEF LaunchReturn, ThreadType, SameThread
    <2>2. Carried(t)'
      BY <1>18 DEF LaunchReturn, Standing, Carried, ThreadType, NoLaunch, Stage
    <2>3. UNCHANGED <<slot, ctx, inited, inGlobal, lockSession, release, qfreed, gq>>
      BY <1>18 DEF LaunchReturn
    <2>4. \A x \in Handle : Works(t, x)' => Works(t, x)
      BY <1>18 DEF LaunchReturn, Works, ThreadType
    <2> QED BY <1>0, <2>1, <2>2, <2>3, <2>4, KeepStandingQuietly DEF StandingInv
  <1>19. ASSUME NEW t \in Thread, LaunchRetire(t) PROVE StandingInv'
    <2>1. \A u \in Thread \ {t} : SameThread(u)
      BY <1>19 DEF LaunchRetire, ThreadType, SameThread
    <2>2. lau[t].h \in Handle /\ Retire(lau[t].h) /\ slot' = slot \ {lau[t].h}
          /\ UNCHANGED <<inited, inGlobal, lockSession, qfreed, pc, cur>>
      BY <1>19, RetireEffect DEF LaunchRetire, Shape, ThreadShape
    <2>3. Carried(t)'
      BY <1>19, <2>2 DEF LaunchRetire, Standing, Carried, ThreadType, NoLaunch, Stage
    <2>4. slot' \subseteq slot /\ inited \subseteq inited' /\ qfreed \subseteq qfreed'
          /\ \A x \in inited' \ inited, u \in Thread \ {t} : ~Starts(u, x) \/ x \notin slot
      BY <2>2
    <2>5. ASSUME NEW x \in Handle, x \in slot' \ inited
          PROVE  /\ InGlobalQueue(x)' => InGlobalQueue(x)
                 /\ Works(t, x)' => Works(t, x) \/ InGlobalQueue(x)
                 /\ inGlobal'[x] = inGlobal[x] /\ lockSession'[x] = lockSession[x]
      BY <2>2, <2>5, RetireEffect DEF Works
    <2>6. ASSUME NEW x \in Handle, NEW u \in Thread \ {t}, pc[u] = "pushglobal" /\ cur[u] = x /\ inGlobal[x] # 0
          PROVE  inGlobal'[x] # 0 \/ x \in qfreed'
      BY <2>2, <2>6
    <2>7. ASSUME NEW x \in Handle PROVE FreedLater(x)'
      BY <2>2 DEF Retire, Standing, FreedLater, ContextType, QueueType
    <2> QED BY <1>0, <2>1, <2>3, <2>4, <2>5, <2>6, <2>7, KeepStanding DEF StandingInv
  <1>20. ASSUME NEW t \in Thread, LaunchDrop(t) PROVE StandingInv'
    <2>1. \A u \in Thread \ {t} : SameThread(u)
      BY <1>20 DEF LaunchDrop, ThreadType, SameThread
    <2>2. lau[t].h \in Handle /\ MqRelease(lau[t].h) /\ UNCHANGED <<slot, ctx, inited, pc, cur>>
      BY <1>20 DEF LaunchDrop, Shape, ThreadShape
    <2>3. Carried(t)'
      <3>1. pc[t] = "cb"
        BY <1>20 DEF LaunchDrop, Order, ThreadOrder
      <3> QED BY <1>20, <3>1 DEF LaunchDrop, Standing, Carried, ThreadType, NoLaunch
    <2>4. slot' \subseteq slot /\ inited \subseteq inited' /\ qfreed \subseteq qfreed'
          /\ \A x \in inited' \ inited, u \in Thread \ {t} : ~Starts(u, x) \/ x \notin slot
      BY <2>2 DEF MqRelease
    <2>5. ASSUME NEW x \in Handle, x \in slot' \ inited
          PROVE  /\ InGlobalQueue(x)' => InGlobalQueue(x)
                 /\ Works(t, x)' => Works(t, x) \/ InGlobalQueue(x)
                 /\ inGlobal'[x] = inGlobal[x] /\ lockSession'[x] = lockSession[x]
      <3>1. x # lau[t].h
        BY <1>20, <2>2, <2>5 DEF LaunchDrop, Standing, Carried
      <3>2. InGlobalQueue(x)' => InGlobalQueue(x)
        BY <2>2, <3>1, QueueEffect DEF QueueType
      <3> QED BY <2>2, <3>1, <3>2 DEF MqRelease, Works, QueueType
    <2>6. ASSUME NEW x \in Handle, NEW u \in Thread \ {t}, pc[u] = "pushglobal" /\ cur[u] = x /\ inGlobal[x] # 0
          PROVE  inGlobal'[x] # 0 \/ x \in qfreed'
      BY <2>2, <2>6 DEF MqRelease, QueueType
    <2>7. ASSUME NEW x \in Handle PROVE FreedLater(x)'
      BY <2>2 DEF MqRelease, Standing, FreedLater
    <2> QED BY <1>0, <2>1, <2>3, <2>4, <2>5, <2>6, <2>7, KeepStanding DEF StandingInv
  <1>21. ASSUME NEW t \in Thread, Request(t) PROVE StandingInv'
    <2>1. \A u \in Thread \ {t} : SameThread(u)
      BY <1>21 DEF Request, ThreadType, SameThread
    <2>2. Carried(t)'
      BY <1>21 DEF Request, Standing, Carried, ThreadType, NoLaunch, Stage
    <2>3. UNCHANGED <<slot, ctx, inited, inGlobal, lockSession, release, qfreed, gq>>
      BY <1>21 DEF Request
    <2>4. \A x \in Handle : Works(t, x)' => Works(t, x)
      BY <1>21 DEF Request, Works, ThreadType
    <2> QED BY <1>0, <2>1, <2>2, <2>3, <2>4, KeepStandingQuietly DEF StandingInv
  <1>22. ASSUME NEW t \in Thread, Respond(t) PROVE StandingInv'
    <2>1. \A u \in Thread \ {t} : SameThread(u)
      BY <1>22 DEF Respond, ThreadType, SameThread
    <2>2. Carried(t)'
      BY <1>22 DEF Respond, Standing, Carried, ThreadType, NoLaunch, Stage
    <2>3. UNCHANGED <<slot, ctx, inited, inGlobal, lockSession, release, qfreed, gq>>
      BY <1>22 DEF Respond
    <2>4. \A x \in Handle : Works(t, x)' => Works(t, x)
      BY <1>22 DEF Respond, Works, ThreadType
    <2> QED BY <1>0, <2>1, <2>2, <2>3, <2>4, KeepStandingQuietly DEF StandingInv
  <1>23. ASSUME NEW t \in Thread, TimeoutNow(t) PROVE StandingInv'
    <2>1. \A u \in Thread \ {t} : SameThread(u)
      BY <1>23 DEF TimeoutNow, ThreadType, SameThread
    <2>2. Carried(t)'
      BY <1>23 DEF TimeoutNow, Standing, Carried, ThreadType, NoLaunch, Stage
    <2>3. UNCHANGED <<slot, ctx, inited, inGlobal, lockSession, release, qfreed, gq>>
      BY <1>23 DEF TimeoutNow
    <2>4. \A x \in Handle : Works(t, x)' => Works(t, x)
      BY <1>23 DEF TimeoutNow, Works, ThreadType
    <2> QED BY <1>0, <2>1, <2>2, <2>3, <2>4, KeepStandingQuietly DEF StandingInv
  <1>24. ASSUME NEW t \in Thread, TimeoutLater(t) PROVE StandingInv'
    <2>1. \A u \in Thread \ {t} : SameThread(u)
      BY <1>24 DEF TimeoutLater, ThreadType, SameThread
    <2>2. Carried(t)'
      BY <1>24 DEF TimeoutLater, Standing, Carried, ThreadType, NoLaunch, Stage
    <2>3. UNCHANGED <<slot, ctx, inited, inGlobal, lockSession, release, qfreed, gq>>
      BY <1>24 DEF TimeoutLater
    <2>4. \A x \in Handle : Works(t, x)' => Works(t, x)
      BY <1>24 DEF TimeoutLater, Works, ThreadType
    <2> QED BY <1>0, <2>1, <2>2, <2>3, <2>4, KeepStandingQuietly DEF StandingInv
  <1>25. ASSUME NEW t \in Thread, Forward(t) PROVE StandingInv'
    <2>1. \A u \in Thread \ {t} : SameThread(u)
      BY <1>25 DEF Forward, ThreadType, SameThread
    <2>2. Carried(t)'
      BY <1>25 DEF Forward, Standing, Carried, ThreadType, NoLaunch, Stage
    <2>3. UNCHANGED <<slot, ctx, inited, inGlobal, lockSession, release, qfreed, gq>>
      BY <1>25 DEF Forward
    <2>4. \A x \in Handle : Works(t, x)' => Works(t, x)
      BY <1>25 DEF Forward, Works, ThreadType
    <2> QED BY <1>0, <2>1, <2>2, <2>3, <2>4, KeepStandingQuietly DEF StandingInv
  <1>26. ASSUME NEW t \in Thread, Kill(t) PROVE StandingInv'
    <2>1. \A u \in Thread \ {t} : SameThread(u)
      BY <1>26 DEF Kill, ThreadType, SameThread
    <2>2. PICK d \in Handle : Retire(d) /\ slot' = slot \ {d}
          /\ UNCHANGED <<inited, inGlobal, lockSession, qfreed, pc, cur, lau>>
      BY <1>26, RetireEffect DEF Kill, Known
    <2>3. Carried(t)'
      BY <2>2 DEF Standing, Carried
    <2>4. slot' \subseteq slot /\ inited \subseteq inited' /\ qfreed \subseteq qfreed'
          /\ \A x \in inited' \ inited, u \in Thread \ {t} : ~Starts(u, x) \/ x \notin slot
      BY <2>2
    <2>5. ASSUME NEW x \in Handle, x \in slot' \ inited
          PROVE  /\ InGlobalQueue(x)' => InGlobalQueue(x)
                 /\ Works(t, x)' => Works(t, x) \/ InGlobalQueue(x)
                 /\ inGlobal'[x] = inGlobal[x] /\ lockSession'[x] = lockSession[x]
      BY <2>2, <2>5, RetireEffect DEF Works
    <2>6. ASSUME NEW x \in Handle, NEW u \in Thread \ {t}, pc[u] = "pushglobal" /\ cur[u] = x /\ inGlobal[x] # 0
          PROVE  inGlobal'[x] # 0 \/ x \in qfreed'
      BY <2>2, <2>6
    <2>7. ASSUME NEW x \in Handle PROVE FreedLater(x)'
      BY <2>2 DEF Retire, Standing, FreedLater, ContextType, QueueType
    <2> QED BY <1>0, <2>1, <2>3, <2>4, <2>5, <2>6, <2>7, KeepStanding DEF StandingInv
  <1>27. ASSUME NEW t \in Thread, BlockCall(t) PROVE StandingInv'
    <2>1. \A u \in Thread \ {t} : SameThread(u)
      BY <1>27 DEF BlockCall, ThreadType, SameThread
    <2>2. PICK h \in Handle : /\ h \in inited /\ inGlobal' = [inGlobal EXCEPT ![h] = MQ_DISPATCHING]
                               /\ lockSession' = [lockSession EXCEPT ![h] = session[h] + 1]
                               /\ UNCHANGED <<slot, ctx, inited, release, qfreed, gq, pc, cur, lau>>
      BY <1>27 DEF BlockCall
    <2>3. Carried(t)'
      BY <2>2 DEF Standing, Carried, Shape, ThreadShape, QueueType, MQ_DISPATCHING
    <2>4. slot' \subseteq slot /\ inited \subseteq inited' /\ qfreed \subseteq qfreed'
          /\ \A x \in inited' \ inited, u \in Thread \ {t} : ~Starts(u, x) \/ x \notin slot
      BY <2>2
    <2>5. ASSUME NEW x \in Handle, x \in slot' \ inited
          PROVE  /\ InGlobalQueue(x)' => InGlobalQueue(x)
                 /\ Works(t, x)' => Works(t, x) \/ InGlobalQueue(x)
                 /\ inGlobal'[x] = inGlobal[x] /\ lockSession'[x] = lockSession[x]
      BY <2>2, <2>5 DEF Works, InGlobalQueue, QueueType
    <2>6. ASSUME NEW x \in Handle, NEW u \in Thread \ {t}, pc[u] = "pushglobal" /\ cur[u] = x /\ inGlobal[x] # 0
          PROVE  inGlobal'[x] # 0 \/ x \in qfreed'
      BY <2>2, <2>6 DEF QueueType, MQ_DISPATCHING
    <2>7. ASSUME NEW x \in Handle PROVE FreedLater(x)'
      BY <2>2 DEF Standing, FreedLater
    <2> QED BY <1>0, <2>1, <2>3, <2>4, <2>5, <2>6, <2>7, KeepStanding DEF StandingInv
  <1>28. ASSUME NEW t \in Thread, Launch(t) PROVE StandingInv'
    <2>1. PICK n \in Handle :
            /\ ctx[n] = "none" /\ slot' = slot \cup {n} /\ ctx' = [ctx EXCEPT ![n] = "live"]
            /\ inGlobal' = [inGlobal EXCEPT ![n] = MQ_IN_GLOBAL] /\ lau' = [lau EXCEPT ![t] = Stage("init", n)]
            /\ UNCHANGED <<inited, lockSession, release, qfreed, gq, pc, cur>>
      BY <1>28 DEF Launch
    <2>2. Unused(n) /\ lockSession[n] = 0 /\ n \notin qfreed
      BY <2>1 DEF Fresh, Tokens, Wakeups, WakeAt
    <2>3. ASSUME NEW u \in Thread PROVE Carried(u)'
      <3>1. (pc[u] # "idle" => cur[u] # n) /\ (lau[u].st # "none" => lau[u].h # n) /\ Carried(u) /\ ThreadShape(u)
        BY <2>2 DEF Unused, Involves, Standing, Shape
      <3>2. lau'[u] = lau[u] \/ lau'[u].st = "init"
        BY <2>1 DEF ThreadType, Stage
      <3>3. pc[u] = "pushglobal" => inGlobal'[cur[u]] = inGlobal[cur[u]]
        BY <2>1, <3>1 DEF QueueType, ThreadShape
      <3> QED BY <2>1, <3>1, <3>2, <3>3 DEF Carried
    <2>4. ASSUME NEW x \in Handle PROVE Young(x)' /\ FreedLater(x)'
      <3>1. CASE x = n
        <4>1. ~InGlobalQueue(x) /\ \A u \in Thread : ~Works(u, x)
          BY <2>2, <3>1 DEF Unused, Involves, Works
        <4>2. inGlobal'[x] = MQ_IN_GLOBAL /\ ctx'[x] = "live" /\ ~release[x]
          BY <2>1, <2>2, <3>1 DEF QueueType, ContextType, Unused
        <4> QED BY <2>1, <2>2, <3>1, <4>1, <4>2 DEF Young, FreedLater, InGlobalQueue, Works
      <3>2. CASE x # n
        <4>1. inGlobal'[x] = inGlobal[x] /\ ctx'[x] = ctx[x] /\ Young(x) /\ FreedLater(x)
          BY <2>1, <3>2 DEF QueueType, ContextType, Standing
        <4> QED BY <2>1, <3>2, <4>1 DEF Young, FreedLater, InGlobalQueue, Works
      <3> QED BY <3>1, <3>2
    <2> QED BY <1>0, <2>3, <2>4 DEF StandingInv, Standing
  <1>29. ASSUME NEW t \in Thread, TimerFire(t) PROVE StandingInv'
    <2>1. \A u \in Thread \ {t} : SameThread(u)
      BY <1>29 DEF TimerFire, ThreadType, SameThread
    <2>2. Carried(t)'
      BY <1>29 DEF TimerFire, Standing, Carried, ThreadType, NoLaunch, Stage
    <2>3. UNCHANGED <<slot, ctx, inited, inGlobal, lockSession, release, qfreed, gq>>
      BY <1>29 DEF TimerFire
    <2>4. \A x \in Handle : Works(t, x)' => Works(t, x)
      BY <1>29 DEF TimerFire, Works, ThreadType
    <2> QED BY <1>0, <2>1, <2>2, <2>3, <2>4, KeepStandingQuietly DEF StandingInv
  <1>30. ASSUME NEW t \in Thread, MonitorCheck(t) PROVE StandingInv'
    <2>1. \A u \in Thread \ {t} : SameThread(u)
      BY <1>30 DEF MonitorCheck, ThreadType, SameThread
    <2>2. Carried(t)'
      BY <1>30 DEF MonitorCheck, Standing, Carried, ThreadType, NoLaunch, Stage
    <2>3. UNCHANGED <<slot, ctx, inited, inGlobal, lockSession, release, qfreed, gq>>
      BY <1>30 DEF MonitorCheck
    <2>4. \A x \in Handle : Works(t, x)' => Works(t, x)
      BY <1>30 DEF MonitorCheck, Works, ThreadType
    <2> QED BY <1>0, <2>1, <2>2, <2>3, <2>4, KeepStandingQuietly DEF StandingInv
  <1>31. ASSUME UNCHANGED <<ctxVars, mqVars, gq, threadVars>> PROVE StandingInv'
    <2>1. \A t \in Thread : Carried(t)'
      BY <1>31 DEF Standing, Carried
    <2>2. \A h \in Handle : Young(h)' /\ FreedLater(h)'
      BY <1>31 DEF Standing, Young, FreedLater, InGlobalQueue, Works
    <2> QED BY <1>0, <2>1, <2>2 DEF Standing
  <1>32. ASSUME NEW t \in Thread, Crash(t) PROVE UNCHANGED <<ctxVars, mqVars, gq, threadVars>>
    BY <1>32 DEF Crash, UseFreedQueue, UseFreedContext, AssertForcePush, AssertLock
  <1>33. CASE \E t \in Thread : Progress(t)
    BY <1>33, <1>1, <1>2, <1>3, <1>4, <1>5, <1>6, <1>7, <1>8, <1>9, <1>10, <1>11, <1>12, <1>13, <1>14, <1>15, <1>16, <1>17, <1>18, <1>19, <1>20 DEF Progress
  <1>34. CASE \E t \in Thread : Operation(t)
    BY <1>34, <1>21, <1>22, <1>23, <1>24, <1>25, <1>26, <1>27, <1>28, <1>29, <1>30 DEF Operation
  <1> QED
    BY <1>31, <1>32, <1>33, <1>34 DEF Next

-----------------------------------------------------------------------------
(* The assertions that the code evaluates hold.                            *)
LEMMA StandingAsserts == StandingInv => AssertionsHold
  <1> SUFFICES ASSUME StandingInv, NEW t \in Thread
               PROVE  /\ pc[t] = "pushglobal" /\ Quiet(t) /\ cur[t] \notin qfreed => inGlobal[cur[t]] # 0
                      /\ snd[t].st = "push" /\ Unlocks(snd[t].des, snd[t].m) =>
                           inGlobal[snd[t].des] \in {MQ_DISPATCHING, MQ_LOCKED}
                      /\ pc[t] = "cb" => cur[t] \in inited
                      /\ rel[t].st \in {"mark", "free"} => ~release[rel[t].h]
    BY DEF AssertionsHold
  <1> USE DEF StandingInv, SchedulerInv, TokenInv, RefInv, TypeInv
  <1>1. Carried(t) /\ ThreadShape(t)
    BY DEF Standing, Shape
  <1>2. snd[t].st = "push" => ref[snd[t].des] > 0 /\ snd[t].des \notin qfreed
    BY <1>1, HeldPositive DEF ThreadShape, Wakeups, WakeAt
  <1>3. snd[t].st = "push" /\ Unlocks(snd[t].des, snd[t].m) =>
          inGlobal[snd[t].des] \in {MQ_DISPATCHING, MQ_LOCKED}
    BY <1>1, <1>2 DEF ThreadShape, Wakeups, WakeAt, FlagsAgree, Unlocks
  <1>4. rel[t].st \in {"mark", "free"} => ~release[rel[t].h]
    BY <1>1 DEF ThreadShape, Deletion, DeletedOnce, Deletes
  <1> QED BY <1>1, <1>3, <1>4 DEF Carried

-----------------------------------------------------------------------------
(* One owner per queue, also of a retired service.                         *)

(* A step of thread t that gives x no new token.                           *)
LEMMA KeepOneToken ==
    ASSUME NEW x \in Handle, NEW t \in Thread, OneToken(x),
           \A u \in Thread \ {t} : SameThread(u),
           InGlobalQueue(x)' => InGlobalQueue(x), Single(x) => Single(x)',
           Works(t, x)' => Works(t, x), Starts(t, x)' => Starts(t, x)
    PROVE  OneToken(x)' /\ (NoToken(x) => NoToken(x)')
  <1>1. \A u \in Thread : (Works(u, x)' => Works(u, x)) /\ (Starts(u, x)' => Starts(u, x))
    BY DEF SameThread, Works, Starts
  <1>2. OneToken(x)'
    BY <1>1 DEF OneToken
  <1> QED BY <1>1, <1>2 DEF NoToken

(* A thread gives its token to the global queue, or gives it up.           *)
LEMMA MoveToken ==
    ASSUME NEW x \in Handle, NEW t \in Thread, OneToken(x), gq \in Seq(Handle),
           \A u \in Thread \ {t} : SameThread(u),
           Works(t, x) \/ Starts(t, x), ~Works(t, x)', ~Starts(t, x)',
           GlobalPush(x) \/ gq' = gq
    PROVE  OneToken(x)' /\ (gq' = gq => NoToken(x)')
  <1>1. ~InGlobalQueue(x) /\ Single(x) /\ \A u \in Thread \ {t} : ~Works(u, x) /\ ~Starts(u, x)
    BY DEF OneToken
  <1>2. \A u \in Thread : ~Works(u, x)' /\ ~Starts(u, x)'
    BY <1>1 DEF SameThread, Works, Starts
  <1>3. Single(x)' /\ (gq' = gq => ~InGlobalQueue(x)')
    BY <1>1, SinglePush DEF Single, InGlobalQueue
  <1> QED BY <1>2, <1>3 DEF OneToken, NoToken

(* The queue of x is pushed, and nobody has it.                            *)
LEMMA GiveToken ==
    ASSUME NEW x \in Handle, NEW t \in Thread, NoToken(x), gq \in Seq(Handle),
           \A u \in Thread \ {t} : SameThread(u),
           Works(t, x)' => Works(t, x), Starts(t, x)' => Starts(t, x),
           GlobalPush(x) \/ gq' = gq
    PROVE  OneToken(x)' /\ (gq' = gq => NoToken(x)')
  <1>1. \A u \in Thread : ~Works(u, x)' /\ ~Starts(u, x)'
    BY DEF NoToken, SameThread, Works, Starts
  <1>2. ~InGlobalQueue(x) /\ Single(x)
    BY DEF NoToken, InGlobalQueue, Single
  <1>3. Single(x)' /\ (gq' = gq => ~InGlobalQueue(x)')
    BY <1>2, SinglePush DEF Single, InGlobalQueue
  <1> QED BY <1>1, <1>3 DEF OneToken, NoToken

(* A worker takes the queue of x from the global queue.                    *)
LEMMA TakeToken ==
    ASSUME NEW x \in Handle, NEW t \in Thread, OneToken(x), gq \in Seq(Handle), gq # <<>>,
           gq' = Tail(gq), x = Head(gq), \A u \in Thread \ {t} : SameThread(u),
           Starts(t, x)' => Starts(t, x)
    PROVE  OneToken(x)'
  <1>1. InGlobalQueue(x)
    BY GlobalPopEffect
  <1>2. Single(x)' /\ ~InGlobalQueue(x)' /\ \A u \in Thread : ~Works(u, x) /\ ~Starts(u, x)
    BY <1>1, SingleTail DEF OneToken
  <1>3. \A u \in Thread : ~Starts(u, x)' /\ (Works(u, x)' => u = t)
    BY <1>2 DEF SameThread, Works, Starts
  <1> QED BY <1>2, <1>3 DEF OneToken

(* A referenced service has at most one token anyway.                      *)
LEMMA ReferencedOwner ==
    ASSUME StandingInv, NEW x \in Handle, ref[x] > 0
    PROVE  /\ OneToken(x) /\ x \notin qfreed /\ \A t \in Thread : ~Marks(t, x)
           /\ inGlobal[x] = 0 => NoToken(x)
  <1> USE DEF StandingInv, SchedulerInv, TokenInv, RefInv
  <1>1. OneToken(x) /\ (inGlobal[x] = 0 => NoToken(x))
    BY DEF Tokens, TokenAt
  <1>2. x \notin qfreed
    BY DEF Wakeups, WakeAt
  <1>3. \A t \in Thread : ~Marks(t, x)
    BY DEF Deletion, DeletedOnce, Deletes, Marks
  <1> QED BY <1>1, <1>2, <1>3

(* A step that gives x no new token keeps its owner.                       *)
LEMMA KeepOwner ==
    ASSUME StandingInv, Owners, Calm, NEW x \in Handle, NEW t \in Thread,
           \A u \in Thread \ {t} : SameThread(u),
           InGlobalQueue(x)' => InGlobalQueue(x), Single(x) => Single(x)',
           Works(t, x)' => Works(t, x), Starts(t, x)' => Starts(t, x),
           x \in qfreed' => x \in qfreed, inGlobal'[x] = 0 => inGlobal[x] = 0,
           Marks(t, x)' => Marks(t, x) \/ ref[x] > 0
    PROVE  /\ OneToken(x)'
           /\ x \in qfreed' \/ (inGlobal'[x] = 0 /\ \E u \in Thread : Marks(u, x)') => NoToken(x)'
  <1>1. \A u \in Thread \ {t} : Marks(u, x)' => Marks(u, x)
    BY DEF SameThread, Marks
  <1>2. CASE ref[x] > 0
    <2>1. OneToken(x) /\ x \notin qfreed /\ (inGlobal[x] = 0 => NoToken(x))
      BY <1>2, ReferencedOwner
    <2>2. OneToken(x)' /\ (NoToken(x) => NoToken(x)')
      BY <2>1, KeepOneToken
    <2> QED BY <2>1, <2>2
  <1>3. CASE ~(ref[x] > 0)
    <2>1. OneOwner(x)
      BY DEF Owners
    <2>2. OneToken(x) /\ (x \in qfreed \/ (inGlobal[x] = 0 /\ \E u \in Thread : Marks(u, x)) => NoToken(x))
      BY <2>1 DEF OneOwner
    <2>3. OneToken(x)' /\ (NoToken(x) => NoToken(x)')
      BY <2>2, KeepOneToken
    <2>4. (\E u \in Thread : Marks(u, x)') => \E u \in Thread : Marks(u, x)
      BY <1>1, <1>3
    <2> QED BY <2>2, <2>3, <2>4
  <1> QED BY <1>2, <1>3

(* The operations that are left become fewer.                              *)
LEMMA LeftLess ==
    ASSUME left \in [Ops -> Nat], Budget, left' = left \/ \E op \in Ops : Use(op)
    PROVE  /\ Budget' /\ (NoKill' => NoKill) /\ (NoLock' => NoLock) /\ (Calm' => Calm)
           /\ (NoKill' => ~Use("kill")) /\ (NoLock' => ~Use("lock"))
  <1>1. Limit \in [Ops -> Nat] /\ "kill" \in Ops /\ "lock" \in Ops
    BY ConstantsAssumption DEF Ops
  <1>2. CASE left' = left
    BY <1>1, <1>2 DEF Budget, NoKill, NoLock, Calm, Use
  <1>3. ASSUME NEW op \in Ops, Use(op)
        PROVE  /\ Budget' /\ (NoKill' => NoKill) /\ (NoLock' => NoLock)
               /\ (NoKill' => ~Use("kill")) /\ (NoLock' => ~Use("lock"))
    <2>1. left[op] \in Nat /\ left[op] > 0 /\ left' = [left EXCEPT ![op] = left[op] - 1]
      BY <1>3 DEF Use
    <2>2. \A o \in Ops : left'[o] <= left[o] /\ left[o] <= Limit[o] /\ left[o] \in Nat /\ left'[o] \in Nat /\ Limit[o] \in Nat
      BY <1>1, <2>1 DEF Budget
    <2>3. Budget'
      BY <2>2 DEF Budget
    <2>4. (NoKill' => left["kill"] = Limit["kill"]) /\ (NoLock' => left["lock"] = Limit["lock"])
      BY <1>1, <2>2 DEF NoKill, NoLock
    <2>5. (NoKill' => ~Use("kill")) /\ (NoLock' => ~Use("lock"))
      BY <1>1, <2>2 DEF NoKill, NoLock, Use
    <2> QED BY <2>3, <2>4, <2>5 DEF NoKill, NoLock
  <1> QED BY <1>2, <1>3 DEF Calm

(* A count is never negative.                                              *)
LEMMA CountNat == RefInv => \A h \in Handle : ref[h] \in Nat
  BY HeldPositive DEF RefInv

(* The same after a step.                                                  *)
LEMMA CountNatNext == RefInv' => (\A h \in Handle : ref[h] \in Nat)'
  BY CountNat, PTL

(* A step of thread t after which the owners are right, if they were, for  *)
(* every retired service.                                                  *)
LEMMA KeepOwners ==
    ASSUME StandingInv', Owners, left \in [Ops -> Nat], left' = left \/ \E op \in Ops : Use(op),
           NEW t \in Thread, \A u \in Thread \ {t} : SameThread(u),
           Calm' => \A x \in Handle : ref'[x] = 0 =>
               /\ OneToken(x)'
               /\ x \in qfreed' \/ (inGlobal'[x] = 0 /\ \E u \in Thread : Marks(u, x)') => NoToken(x)',
           NoLock' => \A x \in Handle : lockSession'[x] = 0 /\ inGlobal'[x] \in {0, MQ_IN_GLOBAL},
           NoKill' => \A x \in Handle : ctx'[x] # "none" /\ x \notin slot' =>
               x \notin inited' /\ (inGlobal'[x] = MQ_IN_GLOBAL \/ x \in qfreed'),
           NoKill' => \A u \in Thread \ {t} : \A x \in slot \ slot' :
               lau[u].h = x => lau[u].st \notin {"init", "ok", "inited", "return", "failed"},
           Stays(t)'
    PROVE  Owners'
  <1>1. Budget' /\ (NoKill' => NoKill) /\ (Calm' => Calm)
    BY LeftLess DEF Owners
  <1>2. ASSUME NEW x \in Handle PROVE Plain(x)' /\ OneOwner(x)'
    <2>1. Plain(x)'
      BY DEF Plain
    <2>2. CASE ref'[x] = 0
      BY <1>1, <2>1, <2>2 DEF OneOwner
    <2>3. CASE ref'[x] # 0
      <3>1. ref'[x] > 0
        BY <2>3, CountNatNext DEF StandingInv, SchedulerInv, TokenInv, RefInv
      <3>2. OneToken(x)' /\ x \notin qfreed' /\ (inGlobal'[x] = 0 => NoToken(x)')
        BY <3>1 DEF StandingInv, SchedulerInv, TokenInv, Tokens, TokenAt, Wakeups, WakeAt
      <3> QED BY <2>1, <3>2 DEF OneOwner
    <2> QED BY <2>2, <2>3
  <1>3. ASSUME NEW u \in Thread PROVE Stays(u)'
    <2>1. CASE u = t
      BY <2>1
    <2>2. CASE u # t
      BY <1>1, <2>2 DEF Stays, Owners, SameThread
    <2> QED BY <2>1, <2>2
  <1> QED BY <1>1, <1>2, <1>3 DEF Owners

(* A step of thread t that leaves the queues' flags, the global queue and  *)
(* the handle storage alone.                                               *)
LEMMA KeepOwnersQuietly ==
    ASSUME StandingInv, StandingInv', Owners, left \in [Ops -> Nat],
           left' = left \/ \E op \in Ops : Use(op),
           NEW t \in Thread, \A u \in Thread \ {t} : SameThread(u),
           UNCHANGED <<slot, inited, inGlobal, lockSession, qfreed, gq>>,
           \A x \in Handle : /\ Works(t, x)' => Works(t, x)
                             /\ Starts(t, x)' => Starts(t, x)
                             /\ Marks(t, x)' => Marks(t, x) \/ ref[x] > 0
                             /\ ctx'[x] # "none" => ctx[x] # "none",
           lau'[t] = lau[t] \/ Stays(t)'
    PROVE  Owners'
  <1>1. (NoKill' => NoKill) /\ (NoLock' => NoLock) /\ (Calm' => Calm)
    BY LeftLess DEF Owners
  <1>2. ASSUME Calm', NEW x \in Handle
        PROVE  /\ OneToken(x)'
               /\ x \in qfreed' \/ (inGlobal'[x] = 0 /\ \E u \in Thread : Marks(u, x)') => NoToken(x)'
    <2>1. (InGlobalQueue(x)' => InGlobalQueue(x)) /\ (Single(x) => Single(x)')
      BY DEF InGlobalQueue, Single
    <2> QED BY <1>1, <1>2, <2>1, KeepOwner
  <1>3. \A x \in Handle : Plain(x)
    BY DEF Owners
  <1>4. NoLock' => \A x \in Handle : lockSession'[x] = 0 /\ inGlobal'[x] \in {0, MQ_IN_GLOBAL}
    BY <1>1, <1>3 DEF Plain
  <1>5. NoKill' => \A x \in Handle : ctx'[x] # "none" /\ x \notin slot' =>
               x \notin inited' /\ (inGlobal'[x] = MQ_IN_GLOBAL \/ x \in qfreed')
    BY <1>1, <1>3 DEF Plain
  <1>6. Stays(t)'
    BY <1>1 DEF Stays, Owners
  <1> QED BY <1>2, <1>4, <1>5, <1>6, KeepOwners

-----------------------------------------------------------------------------
(* Every step keeps one owner per queue, and none fails in the code.       *)
LEMMA StepOwners == StandingInv /\ Owners /\ [Next]_vars => Owners'
  <1> SUFFICES ASSUME StandingInv, Owners, [Next]_vars PROVE Owners'
    OBVIOUS
  <1>0. StandingInv'
    BY StepStanding
  <1> USE DEF StandingInv, SchedulerInv, TokenInv, RefInv, TypeInv, TypeOK, RestType, vars, ctxVars, mqVars, threadVars
  <1>1. ASSUME NEW t \in Thread, GlobalPop(t) PROVE Owners'
    <2>1. \A u \in Thread \ {t} : SameThread(u)
      BY <1>1 DEF GlobalPop, ThreadType, SameThread
    <2>2. left' = left \/ \E op \in Ops : Use(op)
      BY <1>1 DEF GlobalPop, Ops
    <2>3. /\ (NoKill' => NoKill) /\ (NoLock' => NoLock) /\ (Calm' => Calm)
          /\ (NoKill' => ~Use("kill")) /\ (NoLock' => ~Use("lock"))
          /\ \A x \in Handle : Plain(x) /\ OneOwner(x)
          /\ Stays(t)
      BY <2>2, LeftLess DEF Owners
    <2>4. /\ gq \in Seq(Handle) /\ gq # <<>> /\ gq' = Tail(gq)
          /\ cur' = [cur EXCEPT ![t] = Head(gq)]
          /\ UNCHANGED <<mqVars, rel, lau>>
      BY <1>1 DEF GlobalPop, QueueType
    <2>5. ASSUME Calm', NEW x \in Handle, ref'[x] = 0
          PROVE  /\ OneToken(x)'
                 /\ x \in qfreed' \/ (inGlobal'[x] = 0 /\ \E u \in Thread : Marks(u, x)') => NoToken(x)'
      <3>1. CASE x = Head(gq)
        <4>1. InGlobalQueue(x)
          BY <2>4, <3>1, GlobalPopEffect
        <4>2. OneToken(x) /\ ~(x \in qfreed \/ (inGlobal[x] = 0 /\ \E u \in Thread : Marks(u, x)))
          BY <2>3, <2>5, <4>1 DEF OneOwner, NoToken
        <4>3. OneToken(x)'
          BY <2>1, <2>4, <3>1, <4>2, TakeToken DEF Starts
        <4> QED BY <2>4, <4>2, <4>3 DEF Marks
      <3>2. CASE x # Head(gq)
        <4>1. (InGlobalQueue(x)' => InGlobalQueue(x)) /\ (Single(x) => Single(x)')
          BY <2>4, GlobalPopEffect, SingleTail
        <4>2. /\ Works(t, x)' => Works(t, x)
              /\ Starts(t, x)' => Starts(t, x)
              /\ x \in qfreed' => x \in qfreed
              /\ inGlobal'[x] = 0 => inGlobal[x] = 0
              /\ Marks(t, x)' => Marks(t, x) \/ ref[x] > 0
          BY <1>1, <2>4, <3>2 DEF GlobalPop, Works, Starts, Marks, ThreadType
        <4> QED BY <2>1, <2>3, <2>5, <4>1, <4>2, KeepOwner
      <3> QED BY <3>1, <3>2
    <2>6. ASSUME NoLock', NEW x \in Handle
          PROVE  lockSession'[x] = 0 /\ inGlobal'[x] \in {0, MQ_IN_GLOBAL}
      BY <2>3, <2>4, <2>6 DEF Plain
    <2>7. ASSUME NoKill', NEW x \in Handle, ctx'[x] # "none" /\ x \notin slot'
          PROVE  x \notin inited' /\ (inGlobal'[x] = MQ_IN_GLOBAL \/ x \in qfreed')
      BY <1>1, <2>3, <2>7 DEF GlobalPop, Plain
    <2>8. NoKill' => \A u \in Thread \ {t} : \A x \in slot \ slot' :
               lau[u].h = x => lau[u].st \notin {"init", "ok", "inited", "return", "failed"}
      BY <1>1 DEF GlobalPop
    <2>9. Stays(t)'
      BY <1>1, <2>3 DEF GlobalPop, Stays
    <2> QED BY <1>0, <2>1, <2>2, <2>5, <2>6, <2>7, <2>8, <2>9, KeepOwners
  <1>2. ASSUME NEW t \in Thread, Grab(t) PROVE Owners'
    <2>1. \A u \in Thread \ {t} : SameThread(u)
      BY <1>2 DEF Grab, ThreadType, SameThread
    <2>2. left' = left \/ \E op \in Ops : Use(op)
      BY <1>2 DEF Grab, Ops
    <2>3. UNCHANGED <<slot, inited, inGlobal, lockSession, qfreed, gq>>
      BY <1>2 DEF Grab
    <2>4. \A x \in Handle : /\ Works(t, x)' => Works(t, x)
                            /\ Starts(t, x)' => Starts(t, x)
                            /\ Marks(t, x)' => Marks(t, x) \/ ref[x] > 0
                            /\ ctx'[x] # "none" => ctx[x] # "none"
      BY <1>2 DEF Grab, Works, Starts, Marks, ThreadType, Stage, NoRelease, NoLaunch, NoSend
    <2>5. lau'[t] = lau[t] \/ Stays(t)'
      BY <1>2 DEF Grab
    <2> QED BY <1>0, <2>1, <2>2, <2>3, <2>4, <2>5, KeepOwnersQuietly
  <1>3. ASSUME NEW t \in Thread, DropQueue(t) PROVE Owners'
    <2>1. \A u \in Thread \ {t} : SameThread(u)
      BY <1>3 DEF DropQueue, ThreadType, SameThread
    <2>2. left' = left \/ \E op \in Ops : Use(op)
      BY <1>3 DEF DropQueue, Ops
    <2>3. /\ (NoKill' => NoKill) /\ (NoLock' => NoLock) /\ (Calm' => Calm)
          /\ (NoKill' => ~Use("kill")) /\ (NoLock' => ~Use("lock"))
          /\ \A x \in Handle : Plain(x) /\ OneOwner(x)
          /\ Stays(t)
      BY <2>2, LeftLess DEF Owners
    <2>p. PICK h \in Handle : h = cur[t]
      BY <1>3 DEF DropQueue, Shape, ThreadShape
    <2>4. /\ h \in Handle /\ h \notin qfreed /\ (release[h] \/ inGlobal[h] # 0) /\ MqRelease(h)
          /\ Works(t, h) /\ ~Works(t, h)' /\ ~Starts(t, h)'
          /\ gq \in Seq(Handle) /\ UNCHANGED <<slot, ctx, inited, rel>>
          /\ \A x \in Handle \ {h} : (Works(t, x)' => Works(t, x)) /\ (Starts(t, x)' => Starts(t, x))
      <3>1. lau[t].st = "none"
        BY <1>3 DEF DropQueue, Order, ThreadOrder
      <3> QED BY <1>3, <2>p, <3>1 DEF DropQueue, Works, Starts, ThreadType, QueueType, Shape, ThreadShape
    <2>5. ASSUME Calm', NEW x \in Handle, ref'[x] = 0
          PROVE  /\ OneToken(x)'
                 /\ x \in qfreed' \/ (inGlobal'[x] = 0 /\ \E u \in Thread : Marks(u, x)') => NoToken(x)'
      <3>1. CASE x = h
        <4>1. OneToken(h)
          BY <2>3, <2>4, <2>5 DEF OneOwner
        <4>2. GlobalPush(h) \/ gq' = gq
          BY <2>4 DEF MqRelease
        <4>3. OneToken(x)' /\ (gq' = gq => NoToken(x)')
          BY <2>1, <2>4, <3>1, <4>1, <4>2, MoveToken
        <4>4. gq' = gq \/ (x \notin qfreed' /\ inGlobal'[x] # 0)
          BY <2>4, <3>1 DEF MqRelease
        <4> QED BY <4>3, <4>4
      <3>2. CASE x # h
        <4>1. (InGlobalQueue(x)' => InGlobalQueue(x)) /\ (Single(x) => Single(x)')
          BY <2>4, <3>2, QueueEffect, SinglePush DEF MqRelease, Single
        <4>2. /\ Works(t, x)' => Works(t, x)
              /\ Starts(t, x)' => Starts(t, x)
              /\ x \in qfreed' => x \in qfreed
              /\ inGlobal'[x] = 0 => inGlobal[x] = 0
              /\ Marks(t, x)' => Marks(t, x) \/ ref[x] > 0
          BY <2>4, <3>2 DEF MqRelease, Marks, QueueType
        <4> QED BY <2>1, <2>3, <2>5, <4>1, <4>2, KeepOwner
      <3> QED BY <3>1, <3>2
    <2>6. ASSUME NoLock', NEW x \in Handle
          PROVE  lockSession'[x] = 0 /\ inGlobal'[x] \in {0, MQ_IN_GLOBAL}
      BY <2>3, <2>4, <2>6 DEF Plain, MqRelease, QueueType
    <2>7. ASSUME NoKill', NEW x \in Handle, ctx'[x] # "none" /\ x \notin slot'
          PROVE  x \notin inited' /\ (inGlobal'[x] = MQ_IN_GLOBAL \/ x \in qfreed')
      BY <2>3, <2>4, <2>7 DEF Plain, MqRelease, QueueType
    <2>8. NoKill' => \A u \in Thread \ {t} : \A x \in slot \ slot' :
               lau[u].h = x => lau[u].st \notin {"init", "ok", "inited", "return", "failed"}
      BY <2>4
    <2>9. Stays(t)'
      BY <1>3, <2>3 DEF DropQueue, Stays
    <2> QED BY <1>0, <2>1, <2>2, <2>5, <2>6, <2>7, <2>8, <2>9, KeepOwners
  <1>4. ASSUME NEW t \in Thread, PopEmpty(t) PROVE Owners'
    <2>1. \A u \in Thread \ {t} : SameThread(u)
      BY <1>4 DEF PopEmpty, ThreadType, SameThread
    <2>2. left' = left \/ \E op \in Ops : Use(op)
      BY <1>4 DEF PopEmpty, Ops
    <2>3. /\ (NoKill' => NoKill) /\ (NoLock' => NoLock) /\ (Calm' => Calm)
          /\ (NoKill' => ~Use("kill")) /\ (NoLock' => ~Use("lock"))
          /\ \A x \in Handle : Plain(x) /\ OneOwner(x)
          /\ Stays(t)
      BY <2>2, LeftLess DEF Owners
    <2>4. /\ cur[t] \in Handle /\ ref[cur[t]] > 0 /\ cur[t] \in inited
          /\ inGlobal' = [inGlobal EXCEPT ![cur[t]] = 0]
          /\ UNCHANGED <<ctxVars, lockSession, qfreed, gq, lau>>
      BY <1>4, HeldPositive DEF PopEmpty, Shape, ThreadShape, Standing, Carried
    <2>5. ASSUME Calm', NEW x \in Handle, ref'[x] = 0
          PROVE  /\ OneToken(x)'
                 /\ x \in qfreed' \/ (inGlobal'[x] = 0 /\ \E u \in Thread : Marks(u, x)') => NoToken(x)'
      <3>2. x # cur[t]
        BY <2>4, <2>5
      <3> QED
        <4>1. (InGlobalQueue(x)' => InGlobalQueue(x)) /\ (Single(x) => Single(x)')
          BY <2>4 DEF InGlobalQueue, Single
        <4>2. /\ Works(t, x)' => Works(t, x)
              /\ Starts(t, x)' => Starts(t, x)
              /\ x \in qfreed' => x \in qfreed
              /\ inGlobal'[x] = 0 => inGlobal[x] = 0
              /\ Marks(t, x)' => Marks(t, x) \/ ref[x] > 0
          BY <1>4, <2>4, <3>2 DEF PopEmpty, Works, Starts, Marks, ThreadType, QueueType, Stage
        <4> QED BY <2>1, <2>3, <2>5, <4>1, <4>2, KeepOwner
    <2>6. ASSUME NoLock', NEW x \in Handle
          PROVE  lockSession'[x] = 0 /\ inGlobal'[x] \in {0, MQ_IN_GLOBAL}
      BY <2>3, <2>4, <2>6 DEF Plain, QueueType
    <2>7. ASSUME NoKill', NEW x \in Handle, ctx'[x] # "none" /\ x \notin slot'
          PROVE  x \notin inited' /\ (inGlobal'[x] = MQ_IN_GLOBAL \/ x \in qfreed')
      BY <2>3, <2>4, <2>7 DEF Plain, QueueType
    <2>8. NoKill' => \A u \in Thread \ {t} : \A x \in slot \ slot' :
               lau[u].h = x => lau[u].st \notin {"init", "ok", "inited", "return", "failed"}
      BY <2>4
    <2>9. Stays(t)'
      BY <1>4, <2>3 DEF PopEmpty, Stays
    <2> QED BY <1>0, <2>1, <2>2, <2>5, <2>6, <2>7, <2>8, <2>9, KeepOwners
  <1>5. ASSUME NEW t \in Thread, PopMessage(t) PROVE Owners'
    <2>1. \A u \in Thread \ {t} : SameThread(u)
      BY <1>5 DEF PopMessage, ThreadType, SameThread
    <2>2. left' = left \/ \E op \in Ops : Use(op)
      BY <1>5 DEF PopMessage, Ops
    <2>3. UNCHANGED <<slot, inited, inGlobal, lockSession, qfreed, gq>>
      BY <1>5 DEF PopMessage
    <2>4. \A x \in Handle : /\ Works(t, x)' => Works(t, x)
                            /\ Starts(t, x)' => Starts(t, x)
                            /\ Marks(t, x)' => Marks(t, x) \/ ref[x] > 0
                            /\ ctx'[x] # "none" => ctx[x] # "none"
      BY <1>5 DEF PopMessage, Works, Starts, Marks, ThreadType, Stage, NoRelease, NoLaunch, NoSend
    <2>5. lau'[t] = lau[t] \/ Stays(t)'
      BY <1>5 DEF PopMessage
    <2> QED BY <1>0, <2>1, <2>2, <2>3, <2>4, <2>5, KeepOwnersQuietly
  <1>6. ASSUME NEW t \in Thread, CallbackEnd(t) PROVE Owners'
    <2>1. \A u \in Thread \ {t} : SameThread(u)
      BY <1>6 DEF CallbackEnd, ThreadType, SameThread
    <2>2. left' = left \/ \E op \in Ops : Use(op)
      BY <1>6 DEF CallbackEnd, Ops
    <2>3. UNCHANGED <<slot, inited, inGlobal, lockSession, qfreed, gq>>
      BY <1>6 DEF CallbackEnd
    <2>4. \A x \in Handle : /\ Works(t, x)' => Works(t, x)
                            /\ Starts(t, x)' => Starts(t, x)
                            /\ Marks(t, x)' => Marks(t, x) \/ ref[x] > 0
                            /\ ctx'[x] # "none" => ctx[x] # "none"
      BY <1>6 DEF CallbackEnd, Works, Starts, Marks, ThreadType, Stage, NoRelease, NoLaunch, NoSend
    <2>5. lau'[t] = lau[t] \/ Stays(t)'
      BY <1>6 DEF CallbackEnd
    <2> QED BY <1>0, <2>1, <2>2, <2>3, <2>4, <2>5, KeepOwnersQuietly
  <1>7. ASSUME NEW t \in Thread, DispatchRelease(t) PROVE Owners'
    <2>1. \A u \in Thread \ {t} : SameThread(u)
      BY <1>7 DEF DispatchRelease, ThreadType, SameThread
    <2>2. left' = left \/ \E op \in Ops : Use(op)
      BY <1>7 DEF DispatchRelease, Ops
    <2>3. UNCHANGED <<slot, inited, inGlobal, lockSession, qfreed, gq>>
      BY <1>7 DEF DispatchRelease
    <2>4. \A x \in Handle : /\ Works(t, x)' => Works(t, x)
                            /\ Starts(t, x)' => Starts(t, x)
                            /\ Marks(t, x)' => Marks(t, x) \/ ref[x] > 0
                            /\ ctx'[x] # "none" => ctx[x] # "none"
      BY <1>7 DEF DispatchRelease, Works, Starts, Marks, ThreadType, Stage, NoRelease, NoLaunch, NoSend
    <2>5. lau'[t] = lau[t] \/ Stays(t)'
      BY <1>7 DEF DispatchRelease
    <2> QED BY <1>0, <2>1, <2>2, <2>3, <2>4, <2>5, KeepOwnersQuietly
  <1>8. ASSUME NEW t \in Thread, PushGlobal(t) PROVE Owners'
    <2>1. \A u \in Thread \ {t} : SameThread(u)
      BY <1>8 DEF PushGlobal, ThreadType, SameThread
    <2>2. left' = left \/ \E op \in Ops : Use(op)
      BY <1>8 DEF PushGlobal, Ops
    <2>3. /\ (NoKill' => NoKill) /\ (NoLock' => NoLock) /\ (Calm' => Calm)
          /\ (NoKill' => ~Use("kill")) /\ (NoLock' => ~Use("lock"))
          /\ \A x \in Handle : Plain(x) /\ OneOwner(x)
          /\ Stays(t)
      BY <2>2, LeftLess DEF Owners
    <2>p. PICK h \in Handle : h = cur[t]
      BY <1>8 DEF PushGlobal, Shape, ThreadShape
    <2>4. /\ h \in Handle /\ h \notin qfreed /\ inGlobal[h] # 0 /\ MqPushGlobal(h)
          /\ Works(t, h) /\ ~Works(t, h)' /\ ~Starts(t, h)'
          /\ gq \in Seq(Handle) /\ UNCHANGED <<slot, ctx, inited, rel>>
          /\ \A x \in Handle \ {h} : (Works(t, x)' => Works(t, x)) /\ (Starts(t, x)' => Starts(t, x))
      <3>1. lau[t].st = "none"
        BY <1>8 DEF PushGlobal, Order, ThreadOrder
      <3> QED BY <1>8, <2>p, <3>1 DEF PushGlobal, Works, Starts, ThreadType, QueueType, Shape, ThreadShape, Standing, Carried
    <2>5. ASSUME Calm', NEW x \in Handle, ref'[x] = 0
          PROVE  /\ OneToken(x)'
                 /\ x \in qfreed' \/ (inGlobal'[x] = 0 /\ \E u \in Thread : Marks(u, x)') => NoToken(x)'
      <3>1. CASE x = h
        <4>1. OneToken(h)
          BY <2>3, <2>4, <2>5 DEF OneOwner
        <4>2. GlobalPush(h) \/ gq' = gq
          BY <2>4 DEF MqPushGlobal
        <4>3. OneToken(x)'
          BY <2>1, <2>4, <3>1, <4>1, <4>2, MoveToken
        <4>4. x \notin qfreed' /\ inGlobal'[x] # 0
          BY <2>4, <3>1 DEF MqPushGlobal, QueueType, MQ_IN_GLOBAL, MQ_LOCKED
        <4> QED BY <4>3, <4>4
      <3>2. CASE x # h
        <4>1. (InGlobalQueue(x)' => InGlobalQueue(x)) /\ (Single(x) => Single(x)')
          BY <2>4, <3>2, QueueEffect, SinglePush DEF MqPushGlobal, Single
        <4>2. /\ Works(t, x)' => Works(t, x)
              /\ Starts(t, x)' => Starts(t, x)
              /\ x \in qfreed' => x \in qfreed
              /\ inGlobal'[x] = 0 => inGlobal[x] = 0
              /\ Marks(t, x)' => Marks(t, x) \/ ref[x] > 0
          BY <2>4, <3>2 DEF MqPushGlobal, Marks, QueueType
        <4> QED BY <2>1, <2>3, <2>5, <4>1, <4>2, KeepOwner
      <3> QED BY <3>1, <3>2
    <2>6. ASSUME NoLock', NEW x \in Handle
          PROVE  lockSession'[x] = 0 /\ inGlobal'[x] \in {0, MQ_IN_GLOBAL}
      BY <2>3, <2>4, <2>6 DEF Plain, MqPushGlobal, QueueType
    <2>7. ASSUME NoKill', NEW x \in Handle, ctx'[x] # "none" /\ x \notin slot'
          PROVE  x \notin inited' /\ (inGlobal'[x] = MQ_IN_GLOBAL \/ x \in qfreed')
      BY <2>3, <2>4, <2>7 DEF Plain, MqPushGlobal, QueueType, MQ_IN_GLOBAL, MQ_DISPATCHING
    <2>8. NoKill' => \A u \in Thread \ {t} : \A x \in slot \ slot' :
               lau[u].h = x => lau[u].st \notin {"init", "ok", "inited", "return", "failed"}
      BY <2>4
    <2>9. Stays(t)'
      BY <1>8, <2>3 DEF PushGlobal, Stays
    <2> QED BY <1>0, <2>1, <2>2, <2>5, <2>6, <2>7, <2>8, <2>9, KeepOwners
  <1>9. ASSUME NEW t \in Thread, SendGrab(t) PROVE Owners'
    <2>1. \A u \in Thread \ {t} : SameThread(u)
      BY <1>9 DEF SendGrab, ThreadType, SameThread
    <2>2. left' = left \/ \E op \in Ops : Use(op)
      BY <1>9 DEF SendGrab, Ops
    <2>3. UNCHANGED <<slot, inited, inGlobal, lockSession, qfreed, gq>>
      BY <1>9 DEF SendGrab
    <2>4. \A x \in Handle : /\ Works(t, x)' => Works(t, x)
                            /\ Starts(t, x)' => Starts(t, x)
                            /\ Marks(t, x)' => Marks(t, x) \/ ref[x] > 0
                            /\ ctx'[x] # "none" => ctx[x] # "none"
      BY <1>9 DEF SendGrab, Works, Starts, Marks, ThreadType, Stage, NoRelease, NoLaunch, NoSend
    <2>5. lau'[t] = lau[t] \/ Stays(t)'
      BY <1>9 DEF SendGrab
    <2> QED BY <1>0, <2>1, <2>2, <2>3, <2>4, <2>5, KeepOwnersQuietly
  <1>10. ASSUME NEW t \in Thread, SendPush(t) PROVE Owners'
    <2>1. \A u \in Thread \ {t} : SameThread(u)
      BY <1>10 DEF SendPush, ThreadType, SameThread
    <2>2. left' = left \/ \E op \in Ops : Use(op)
      BY <1>10 DEF SendPush, Ops
    <2>3. /\ (NoKill' => NoKill) /\ (NoLock' => NoLock) /\ (Calm' => Calm)
          /\ (NoKill' => ~Use("kill")) /\ (NoLock' => ~Use("lock"))
          /\ \A x \in Handle : Plain(x) /\ OneOwner(x)
          /\ Stays(t)
      BY <2>2, LeftLess DEF Owners
    <2>p. PICK d \in Handle : d = snd[t].des
      BY <1>10 DEF SendPush, Shape, ThreadShape
    <2>4. /\ d \in Handle /\ ref[d] > 0 /\ d \notin qfreed /\ snd[t].m \in Message /\ MqPush(d, snd[t].m)
          /\ gq \in Seq(Handle) /\ UNCHANGED <<ctxVars, pc, cur, lau>>
          /\ \A x \in Handle : ~Marks(t, x)'
      BY <1>10, <2>p, HeldPositive DEF SendPush, Shape, ThreadShape, QueueType, Marks, ThreadType, Stage
    <2>5. ASSUME Calm', NEW x \in Handle, ref'[x] = 0
          PROVE  /\ OneToken(x)'
                 /\ x \in qfreed' \/ (inGlobal'[x] = 0 /\ \E u \in Thread : Marks(u, x)') => NoToken(x)'
      <3>2. x # d
        BY <2>4, <2>5
      <3> QED
        <4>1. (InGlobalQueue(x)' => InGlobalQueue(x)) /\ (Single(x) => Single(x)')
          BY <2>4, <3>2, QueueEffect, SinglePush DEF MqPush, PushHead, PushTail, Single
        <4>2. /\ Works(t, x)' => Works(t, x)
              /\ Starts(t, x)' => Starts(t, x)
              /\ x \in qfreed' => x \in qfreed
              /\ inGlobal'[x] = 0 => inGlobal[x] = 0
              /\ Marks(t, x)' => Marks(t, x) \/ ref[x] > 0
          BY <2>4, <3>2 DEF MqPush, PushHead, PushTail, Works, Starts, QueueType
        <4> QED BY <2>1, <2>3, <2>5, <4>1, <4>2, KeepOwner
    <2>6. ASSUME NoLock', NEW x \in Handle
          PROVE  lockSession'[x] = 0 /\ inGlobal'[x] \in {0, MQ_IN_GLOBAL}
      BY <2>3, <2>4, <2>6 DEF Plain, MqPush, Unlocks, PushTail, QueueType
    <2>7. ASSUME NoKill', NEW x \in Handle, ctx'[x] # "none" /\ x \notin slot'
          PROVE  x \notin inited' /\ (inGlobal'[x] = MQ_IN_GLOBAL \/ x \in qfreed')
      BY <2>3, <2>4, <2>7 DEF Plain, MqPush, PushHead, PushTail, QueueType, MQ_IN_GLOBAL, MQ_LOCKED
    <2>8. NoKill' => \A u \in Thread \ {t} : \A x \in slot \ slot' :
               lau[u].h = x => lau[u].st \notin {"init", "ok", "inited", "return", "failed"}
      BY <2>4
    <2>9. Stays(t)'
      BY <1>10, <2>3 DEF SendPush, Stays
    <2> QED BY <1>0, <2>1, <2>2, <2>5, <2>6, <2>7, <2>8, <2>9, KeepOwners
  <1>11. ASSUME NEW t \in Thread, MonitorEndless(t) PROVE Owners'
    <2>1. \A u \in Thread \ {t} : SameThread(u)
      BY <1>11 DEF MonitorEndless, ThreadType, SameThread
    <2>2. left' = left \/ \E op \in Ops : Use(op)
      BY <1>11 DEF MonitorEndless, Ops
    <2>3. UNCHANGED <<slot, inited, inGlobal, lockSession, qfreed, gq>>
      BY <1>11 DEF MonitorEndless
    <2>4. \A x \in Handle : /\ Works(t, x)' => Works(t, x)
                            /\ Starts(t, x)' => Starts(t, x)
                            /\ Marks(t, x)' => Marks(t, x) \/ ref[x] > 0
                            /\ ctx'[x] # "none" => ctx[x] # "none"
      BY <1>11 DEF MonitorEndless, Works, Starts, Marks, ThreadType, Stage, NoRelease, NoLaunch, NoSend
    <2>5. lau'[t] = lau[t] \/ Stays(t)'
      BY <1>11 DEF MonitorEndless
    <2> QED BY <1>0, <2>1, <2>2, <2>3, <2>4, <2>5, KeepOwnersQuietly
  <1>12. ASSUME NEW t \in Thread, ReleaseDec(t) PROVE Owners'
    <2>1. \A u \in Thread \ {t} : SameThread(u)
      BY <1>12 DEF ReleaseDec, ThreadType, SameThread
    <2>2. left' = left \/ \E op \in Ops : Use(op)
      BY <1>12 DEF ReleaseDec, Ops
    <2>3. UNCHANGED <<slot, inited, inGlobal, lockSession, qfreed, gq>>
      BY <1>12 DEF ReleaseDec
    <2>4. \A x \in Handle : /\ Works(t, x)' => Works(t, x)
                            /\ Starts(t, x)' => Starts(t, x)
                            /\ Marks(t, x)' => Marks(t, x) \/ ref[x] > 0
                            /\ ctx'[x] # "none" => ctx[x] # "none"
      BY <1>12 DEF ReleaseDec, Works, Starts, Marks, ThreadType, Stage, NoRelease, Shape, ThreadShape
    <2>5. lau'[t] = lau[t] \/ Stays(t)'
      BY <1>12 DEF ReleaseDec
    <2> QED BY <1>0, <2>1, <2>2, <2>3, <2>4, <2>5, KeepOwnersQuietly
  <1>13. ASSUME NEW t \in Thread, ReleaseMark(t) PROVE Owners'
    <2>1. \A u \in Thread \ {t} : SameThread(u)
      BY <1>13 DEF ReleaseMark, ThreadType, SameThread
    <2>2. left' = left \/ \E op \in Ops : Use(op)
      BY <1>13 DEF ReleaseMark, Ops
    <2>3. /\ (NoKill' => NoKill) /\ (NoLock' => NoLock) /\ (Calm' => Calm)
          /\ (NoKill' => ~Use("kill")) /\ (NoLock' => ~Use("lock"))
          /\ \A x \in Handle : Plain(x) /\ OneOwner(x)
          /\ Stays(t)
      BY <2>2, LeftLess DEF Owners
    <2>p. PICK h \in Handle : h = rel[t].h
      BY <1>13 DEF ReleaseMark, Shape, ThreadShape
    <2>4. /\ h \in Handle /\ MarkPush(h) /\ Deletes(t, h) /\ Marks(t, h)
          /\ gq \in Seq(Handle) /\ UNCHANGED <<ctxVars, mqVars, pc, cur, lau>>
          /\ \A x \in Handle : ~Marks(t, x)'
      BY <1>13, <2>p DEF ReleaseMark, QueueType, Deletes, Marks, ThreadType, Stage
    <2>a. /\ h \notin qfreed /\ h \notin slot /\ ctx[h] = "live"
          /\ \A u \in Thread \ {t} : ~Marks(u, h)
      <3>1. ref[h] = 0 /\ ~release[h] /\ ctx[h] = "live" /\ \A u \in Thread : Deletes(u, h) => t = u
        BY <2>4 DEF Deletion, DeletedOnce
      <3> QED BY <2>4, <3>1, HeldPositive DEF Standing, FreedLater, Deletes, Marks
    <2>5. ASSUME Calm', NEW x \in Handle, ref'[x] = 0
          PROVE  /\ OneToken(x)'
                 /\ x \in qfreed' \/ (inGlobal'[x] = 0 /\ \E u \in Thread : Marks(u, x)') => NoToken(x)'
      <3>1. CASE x = h
        <4>1. inGlobal[h] \in {0, MQ_IN_GLOBAL}
          BY <2>3, <2>4, <2>5, <2>a DEF Calm, Plain
        <4>2. OneToken(h) /\ (inGlobal[h] = 0 => NoToken(h))
          BY <2>3, <2>4, <2>5 DEF OneOwner
        <4>3. (Works(t, x)' => Works(t, x)) /\ (Starts(t, x)' => Starts(t, x))
          BY <2>4 DEF Works, Starts
        <4>4. OneToken(x)'
          <5>1. CASE inGlobal[h] = 0
            <6>1. GlobalPush(h)
              BY <2>4, <5>1 DEF MarkPush, MQ_IN_GLOBAL
            <6> QED BY <2>1, <2>4, <3>1, <4>2, <4>3, <5>1, <6>1, GiveToken
          <5>2. CASE inGlobal[h] = MQ_IN_GLOBAL
            <6>1. gq' = gq
              BY <2>4, <5>2 DEF MarkPush
            <6> QED BY <2>1, <3>1, <4>2, <4>3, <6>1, KeepOneToken DEF InGlobalQueue, Single
          <5> QED BY <4>1, <5>1, <5>2
        <4>5. x \notin qfreed' /\ \A u \in Thread : ~Marks(u, x)'
          BY <2>1, <2>4, <2>a, <3>1 DEF SameThread, Marks
        <4> QED BY <4>4, <4>5
      <3>2. CASE x # h
        <4>1. (InGlobalQueue(x)' => InGlobalQueue(x)) /\ (Single(x) => Single(x)')
          BY <2>4, <3>2, QueueEffect, SinglePush DEF MarkPush, Single
        <4>2. /\ Works(t, x)' => Works(t, x)
              /\ Starts(t, x)' => Starts(t, x)
              /\ x \in qfreed' => x \in qfreed
              /\ inGlobal'[x] = 0 => inGlobal[x] = 0
              /\ Marks(t, x)' => Marks(t, x) \/ ref[x] > 0
          BY <2>4, <3>2 DEF Works, Starts
        <4> QED BY <2>1, <2>3, <2>5, <4>1, <4>2, KeepOwner
      <3> QED BY <3>1, <3>2
    <2>6. ASSUME NoLock', NEW x \in Handle
          PROVE  lockSession'[x] = 0 /\ inGlobal'[x] \in {0, MQ_IN_GLOBAL}
      BY <2>3, <2>4, <2>6 DEF Plain
    <2>7. ASSUME NoKill', NEW x \in Handle, ctx'[x] # "none" /\ x \notin slot'
          PROVE  x \notin inited' /\ (inGlobal'[x] = MQ_IN_GLOBAL \/ x \in qfreed')
      BY <2>3, <2>4, <2>7 DEF Plain
    <2>8. NoKill' => \A u \in Thread \ {t} : \A x \in slot \ slot' :
               lau[u].h = x => lau[u].st \notin {"init", "ok", "inited", "return", "failed"}
      BY <2>4
    <2>9. Stays(t)'
      BY <2>3, <2>4 DEF Stays
    <2> QED BY <1>0, <2>1, <2>2, <2>5, <2>6, <2>7, <2>8, <2>9, KeepOwners
  <1>14. ASSUME NEW t \in Thread, ReleaseFree(t) PROVE Owners'
    <2>1. \A u \in Thread \ {t} : SameThread(u)
      BY <1>14 DEF ReleaseFree, ThreadType, SameThread
    <2>2. left' = left \/ \E op \in Ops : Use(op)
      BY <1>14 DEF ReleaseFree, Ops
    <2>3. UNCHANGED <<slot, inited, inGlobal, lockSession, qfreed, gq>>
      BY <1>14 DEF ReleaseFree
    <2>4. \A x \in Handle : /\ Works(t, x)' => Works(t, x)
                            /\ Starts(t, x)' => Starts(t, x)
                            /\ Marks(t, x)' => Marks(t, x) \/ ref[x] > 0
                            /\ ctx'[x] # "none" => ctx[x] # "none"
      <3>1. rel[t].h \in Handle /\ ctx[rel[t].h] = "live"
        BY <1>14 DEF ReleaseFree, Shape, ThreadShape, Deletion, DeletedOnce, Deletes
      <3> QED BY <1>14, <3>1 DEF ReleaseFree, Works, Starts, Marks, ThreadType, ContextType, NoRelease
    <2>5. lau'[t] = lau[t] \/ Stays(t)'
      BY <1>14 DEF ReleaseFree
    <2> QED BY <1>0, <2>1, <2>2, <2>3, <2>4, <2>5, KeepOwnersQuietly
  <1>15. ASSUME NEW t \in Thread, InitReturn(t) PROVE Owners'
    <2>1. \A u \in Thread \ {t} : SameThread(u)
      BY <1>15 DEF InitReturn, ThreadType, SameThread
    <2>2. left' = left \/ \E op \in Ops : Use(op)
      BY <1>15 DEF InitReturn, Ops
    <2>3. UNCHANGED <<slot, inited, inGlobal, lockSession, qfreed, gq>>
      BY <1>15 DEF InitReturn
    <2>4. \A x \in Handle : /\ Works(t, x)' => Works(t, x)
                            /\ Starts(t, x)' => Starts(t, x)
                            /\ Marks(t, x)' => Marks(t, x) \/ ref[x] > 0
                            /\ ctx'[x] # "none" => ctx[x] # "none"
      BY <1>15 DEF InitReturn, Works, Starts, Marks, ThreadType, Stage, NoRelease, NoLaunch, NoSend
    <2>5. lau'[t] = lau[t] \/ Stays(t)'
      <3>1. lau[t].h \in Handle /\ (ref[lau[t].h] = 1 => lau[t].h \notin slot)
        BY <1>15, LastHolder DEF InitReturn, Shape, ThreadShape
      <3>2. (NoKill' => NoKill) /\ Stays(t)
        BY <2>2, LeftLess DEF Owners
      <3> QED BY <1>15, <3>1, <3>2 DEF InitReturn, Stays, ThreadType, Stage
    <2> QED BY <1>0, <2>1, <2>2, <2>3, <2>4, <2>5, KeepOwnersQuietly
  <1>16. ASSUME NEW t \in Thread, LaunchInited(t) PROVE Owners'
    <2>1. \A u \in Thread \ {t} : SameThread(u)
      BY <1>16 DEF LaunchInited, ThreadType, SameThread
    <2>2. left' = left \/ \E op \in Ops : Use(op)
      BY <1>16 DEF LaunchInited, Ops
    <2>3. /\ (NoKill' => NoKill) /\ (NoLock' => NoLock) /\ (Calm' => Calm)
          /\ (NoKill' => ~Use("kill")) /\ (NoLock' => ~Use("lock"))
          /\ \A x \in Handle : Plain(x) /\ OneOwner(x)
          /\ Stays(t)
      BY <2>2, LeftLess DEF Owners
    <2>4. /\ lau[t].st = "ok" /\ inited' = inited \cup {lau[t].h}
          /\ lau' = [lau EXCEPT ![t] = Stage("inited", lau[t].h)]
          /\ UNCHANGED <<slot, ctx, mqVars, gq, pc, cur, rel>>
      BY <1>16 DEF LaunchInited
    <2>5. ASSUME Calm', NEW x \in Handle, ref'[x] = 0
          PROVE  /\ OneToken(x)'
                 /\ x \in qfreed' \/ (inGlobal'[x] = 0 /\ \E u \in Thread : Marks(u, x)') => NoToken(x)'
      <3> QED
        <4>1. (InGlobalQueue(x)' => InGlobalQueue(x)) /\ (Single(x) => Single(x)')
          BY <2>4 DEF InGlobalQueue, Single
        <4>2. /\ Works(t, x)' => Works(t, x)
              /\ Starts(t, x)' => Starts(t, x)
              /\ x \in qfreed' => x \in qfreed
              /\ inGlobal'[x] = 0 => inGlobal[x] = 0
              /\ Marks(t, x)' => Marks(t, x) \/ ref[x] > 0
          BY <2>4 DEF Works, Starts, Marks, ThreadType, Stage
        <4> QED BY <2>1, <2>3, <2>5, <4>1, <4>2, KeepOwner
    <2>6. ASSUME NoLock', NEW x \in Handle
          PROVE  lockSession'[x] = 0 /\ inGlobal'[x] \in {0, MQ_IN_GLOBAL}
      BY <2>3, <2>4, <2>6 DEF Plain
    <2>7. ASSUME NoKill', NEW x \in Handle, ctx'[x] # "none" /\ x \notin slot'
          PROVE  x \notin inited' /\ (inGlobal'[x] = MQ_IN_GLOBAL \/ x \in qfreed')
      BY <2>3, <2>4, <2>7 DEF Plain, Stays
    <2>8. NoKill' => \A u \in Thread \ {t} : \A x \in slot \ slot' :
               lau[u].h = x => lau[u].st \notin {"init", "ok", "inited", "return", "failed"}
      BY <2>4
    <2>9. Stays(t)'
      BY <2>3, <2>4 DEF Stays, ThreadType, Stage
    <2> QED BY <1>0, <2>1, <2>2, <2>5, <2>6, <2>7, <2>8, <2>9, KeepOwners
  <1>17. ASSUME NEW t \in Thread, LaunchPush(t) PROVE Owners'
    <2>1. \A u \in Thread \ {t} : SameThread(u)
      BY <1>17 DEF LaunchPush, ThreadType, SameThread
    <2>2. left' = left \/ \E op \in Ops : Use(op)
      BY <1>17 DEF LaunchPush, Ops
    <2>3. /\ (NoKill' => NoKill) /\ (NoLock' => NoLock) /\ (Calm' => Calm)
          /\ (NoKill' => ~Use("kill")) /\ (NoLock' => ~Use("lock"))
          /\ \A x \in Handle : Plain(x) /\ OneOwner(x)
          /\ Stays(t)
      BY <2>2, LeftLess DEF Owners
    <2>p. PICK h \in Handle : h = lau[t].h
      BY <1>17 DEF LaunchPush, Shape, ThreadShape
    <2>4. /\ h \in Handle /\ h \notin qfreed /\ inGlobal[h] # 0 /\ GlobalPush(h) /\ Starts(t, h)
          /\ gq \in Seq(Handle) /\ UNCHANGED <<ctxVars, mqVars, pc, cur, rel>>
          /\ \A x \in Handle : ~Starts(t, x)'
          /\ lau[t].st = "inited" => lau'[t].h = h
      BY <1>17, <2>p DEF LaunchPush, QueueType, Starts, ThreadType, Stage, NoLaunch
    <2>5. ASSUME Calm', NEW x \in Handle, ref'[x] = 0
          PROVE  /\ OneToken(x)'
                 /\ x \in qfreed' \/ (inGlobal'[x] = 0 /\ \E u \in Thread : Marks(u, x)') => NoToken(x)'
      <3>1. CASE x = h
        <4>1. OneToken(h)
          BY <2>3, <2>4, <2>5 DEF OneOwner
        <4>2. ~Works(t, x)'
          BY <2>4, <3>1, <4>1 DEF OneToken, Works
        <4>3. OneToken(x)'
          BY <2>1, <2>4, <3>1, <4>1, <4>2, MoveToken
        <4> QED BY <2>4, <3>1, <4>3
      <3>2. CASE x # h
        <4>1. (InGlobalQueue(x)' => InGlobalQueue(x)) /\ (Single(x) => Single(x)')
          BY <2>4, <3>2, QueueEffect, SinglePush
        <4>2. /\ Works(t, x)' => Works(t, x)
              /\ Starts(t, x)' => Starts(t, x)
              /\ x \in qfreed' => x \in qfreed
              /\ inGlobal'[x] = 0 => inGlobal[x] = 0
              /\ Marks(t, x)' => Marks(t, x) \/ ref[x] > 0
          BY <2>4, <3>2 DEF Works, Marks
        <4> QED BY <2>1, <2>3, <2>5, <4>1, <4>2, KeepOwner
      <3> QED BY <3>1, <3>2
    <2>6. ASSUME NoLock', NEW x \in Handle
          PROVE  lockSession'[x] = 0 /\ inGlobal'[x] \in {0, MQ_IN_GLOBAL}
      BY <2>3, <2>4, <2>6 DEF Plain
    <2>7. ASSUME NoKill', NEW x \in Handle, ctx'[x] # "none" /\ x \notin slot'
          PROVE  x \notin inited' /\ (inGlobal'[x] = MQ_IN_GLOBAL \/ x \in qfreed')
      BY <2>3, <2>4, <2>7 DEF Plain
    <2>8. NoKill' => \A u \in Thread \ {t} : \A x \in slot \ slot' :
               lau[u].h = x => lau[u].st \notin {"init", "ok", "inited", "return", "failed"}
      BY <2>4
    <2>9. Stays(t)'
      BY <1>17, <2>3 DEF LaunchPush, Stays, ThreadType, Stage, NoLaunch
    <2> QED BY <1>0, <2>1, <2>2, <2>5, <2>6, <2>7, <2>8, <2>9, KeepOwners
  <1>18. ASSUME NEW t \in Thread, LaunchReturn(t) PROVE Owners'
    <2>1. \A u \in Thread \ {t} : SameThread(u)
      BY <1>18 DEF LaunchReturn, ThreadType, SameThread
    <2>2. left' = left \/ \E op \in Ops : Use(op)
      BY <1>18 DEF LaunchReturn, Ops
    <2>3. UNCHANGED <<slot, inited, inGlobal, lockSession, qfreed, gq>>
      BY <1>18 DEF LaunchReturn
    <2>4. \A x \in Handle : /\ Works(t, x)' => Works(t, x)
                            /\ Starts(t, x)' => Starts(t, x)
                            /\ Marks(t, x)' => Marks(t, x) \/ ref[x] > 0
                            /\ ctx'[x] # "none" => ctx[x] # "none"
      BY <1>18 DEF LaunchReturn, Works, Starts, Marks, ThreadType, Stage, NoRelease, NoLaunch, NoSend
    <2>5. lau'[t] = lau[t] \/ Stays(t)'
      BY <1>18 DEF LaunchReturn, Stays, ThreadType, NoLaunch
    <2> QED BY <1>0, <2>1, <2>2, <2>3, <2>4, <2>5, KeepOwnersQuietly
  <1>19. ASSUME NEW t \in Thread, LaunchRetire(t) PROVE Owners'
    <2>1. \A u \in Thread \ {t} : SameThread(u)
      BY <1>19 DEF LaunchRetire, ThreadType, SameThread
    <2>2. left' = left \/ \E op \in Ops : Use(op)
      BY <1>19 DEF LaunchRetire, Ops
    <2>3. /\ (NoKill' => NoKill) /\ (NoLock' => NoLock) /\ (Calm' => Calm)
          /\ (NoKill' => ~Use("kill")) /\ (NoLock' => ~Use("lock"))
          /\ \A x \in Handle : Plain(x) /\ OneOwner(x)
          /\ Stays(t)
      BY <2>2, LeftLess DEF Owners
    <2>p. PICK h \in Handle : h = lau[t].h
      BY <1>19 DEF LaunchRetire, Shape, ThreadShape
    <2>4. /\ h \in Handle /\ Retire(h) /\ slot' = slot \ {h} /\ lau[t].st = "failed" /\ Starts(t, h)
          /\ lau' = [lau EXCEPT ![t] = Stage("drop", h)]
          /\ UNCHANGED <<inited, inGlobal, lockSession, qfreed, pc, cur, rel>>
      BY <1>19, <2>p, RetireEffect DEF LaunchRetire, Starts
    <2>a. h \in slot => h \notin inited /\ inGlobal[h] = MQ_IN_GLOBAL /\ ref[h] > 0
      BY <2>p, <2>4, HeldPositive DEF Standing, Carried, Young
    <2>b. gq' = gq /\ \A x \in Handle : ctx'[x] # "none" => ctx[x] # "none"
      BY <2>4, <2>a, RetireEffect DEF MarkPush
    <2>5. ASSUME Calm', NEW x \in Handle, ref'[x] = 0
          PROVE  /\ OneToken(x)'
                 /\ x \in qfreed' \/ (inGlobal'[x] = 0 /\ \E u \in Thread : Marks(u, x)') => NoToken(x)'
      <3> QED
        <4>1. (InGlobalQueue(x)' => InGlobalQueue(x)) /\ (Single(x) => Single(x)')
          BY <2>b DEF InGlobalQueue, Single
        <4>2. /\ Works(t, x)' => Works(t, x)
              /\ Starts(t, x)' => Starts(t, x)
              /\ x \in qfreed' => x \in qfreed
              /\ inGlobal'[x] = 0 => inGlobal[x] = 0
              /\ Marks(t, x)' => Marks(t, x) \/ ref[x] > 0
          BY <2>4 DEF Works, Starts, Marks, ThreadType, Stage
        <4> QED BY <2>1, <2>3, <2>5, <4>1, <4>2, KeepOwner
    <2>6. ASSUME NoLock', NEW x \in Handle
          PROVE  lockSession'[x] = 0 /\ inGlobal'[x] \in {0, MQ_IN_GLOBAL}
      BY <2>3, <2>4, <2>6 DEF Plain
    <2>7. ASSUME NoKill', NEW x \in Handle, ctx'[x] # "none" /\ x \notin slot'
          PROVE  x \notin inited' /\ (inGlobal'[x] = MQ_IN_GLOBAL \/ x \in qfreed')
      BY <2>3, <2>4, <2>a, <2>b, <2>7 DEF Plain
    <2>8. NoKill' => \A u \in Thread \ {t} : \A x \in slot \ slot' :
               lau[u].h = x => lau[u].st \notin {"init", "ok", "inited", "return", "failed"}
      <3> SUFFICES ASSUME NEW u \in Thread \ {t}, h \in slot, lau[u].h = h
                   PROVE  lau[u].st \notin {"init", "ok", "inited", "return", "failed"}
        BY <2>4
      <3>1. OneToken(h) /\ Carried(u)
        BY <2>4, <2>a, TokenFlag DEF Standing
      <3> QED BY <2>4, <2>a, <3>1 DEF OneToken, Starts, Carried
    <2>9. Stays(t)'
      BY <2>4 DEF Stays, ThreadType, Stage
    <2> QED BY <1>0, <2>1, <2>2, <2>5, <2>6, <2>7, <2>8, <2>9, KeepOwners
  <1>20. ASSUME NEW t \in Thread, LaunchDrop(t) PROVE Owners'
    <2>1. \A u \in Thread \ {t} : SameThread(u)
      BY <1>20 DEF LaunchDrop, ThreadType, SameThread
    <2>2. left' = left \/ \E op \in Ops : Use(op)
      BY <1>20 DEF LaunchDrop, Ops
    <2>3. /\ (NoKill' => NoKill) /\ (NoLock' => NoLock) /\ (Calm' => Calm)
          /\ (NoKill' => ~Use("kill")) /\ (NoLock' => ~Use("lock"))
          /\ \A x \in Handle : Plain(x) /\ OneOwner(x)
          /\ Stays(t)
      BY <2>2, LeftLess DEF Owners
    <2>p. PICK h \in Handle : h = lau[t].h
      BY <1>20 DEF LaunchDrop, Shape, ThreadShape
    <2>4. /\ h \in Handle /\ h \notin qfreed /\ (release[h] \/ inGlobal[h] # 0) /\ MqRelease(h)
          /\ Starts(t, h) /\ ~Starts(t, h)' /\ (Works(t, h)' => Works(t, h))
          /\ gq \in Seq(Handle) /\ UNCHANGED <<slot, ctx, inited, rel>>
          /\ \A x \in Handle \ {h} : (Works(t, x)' => Works(t, x)) /\ (Starts(t, x)' => Starts(t, x))
      <3>1. lau[t].h \in Handle /\ Starts(t, lau[t].h) /\ lau[t].h \notin slot
        BY <1>20 DEF LaunchDrop, Starts, Shape, ThreadShape, Standing, Carried
      <3> QED BY <1>20, <2>p, <3>1 DEF LaunchDrop, Works, Starts, ThreadType, QueueType, NoLaunch
    <2>5. ASSUME Calm', NEW x \in Handle, ref'[x] = 0
          PROVE  /\ OneToken(x)'
                 /\ x \in qfreed' \/ (inGlobal'[x] = 0 /\ \E u \in Thread : Marks(u, x)') => NoToken(x)'
      <3>1. CASE x = h
        <4>1. OneToken(h)
          BY <2>3, <2>4, <2>5 DEF OneOwner
        <4>a. ~Works(t, h)'
          BY <2>4, <4>1 DEF OneToken
        <4>2. GlobalPush(h) \/ gq' = gq
          BY <2>4 DEF MqRelease
        <4>3. OneToken(x)' /\ (gq' = gq => NoToken(x)')
          BY <2>1, <2>4, <3>1, <4>1, <4>a, <4>2, MoveToken
        <4>4. gq' = gq \/ (x \notin qfreed' /\ inGlobal'[x] # 0)
          BY <2>4, <3>1 DEF MqRelease
        <4> QED BY <4>3, <4>4
      <3>2. CASE x # h
        <4>1. (InGlobalQueue(x)' => InGlobalQueue(x)) /\ (Single(x) => Single(x)')
          BY <2>4, <3>2, QueueEffect, SinglePush DEF MqRelease, Single
        <4>2. /\ Works(t, x)' => Works(t, x)
              /\ Starts(t, x)' => Starts(t, x)
              /\ x \in qfreed' => x \in qfreed
              /\ inGlobal'[x] = 0 => inGlobal[x] = 0
              /\ Marks(t, x)' => Marks(t, x) \/ ref[x] > 0
          BY <2>4, <3>2 DEF MqRelease, Marks, QueueType
        <4> QED BY <2>1, <2>3, <2>5, <4>1, <4>2, KeepOwner
      <3> QED BY <3>1, <3>2
    <2>6. ASSUME NoLock', NEW x \in Handle
          PROVE  lockSession'[x] = 0 /\ inGlobal'[x] \in {0, MQ_IN_GLOBAL}
      BY <2>3, <2>4, <2>6 DEF Plain, MqRelease, QueueType
    <2>7. ASSUME NoKill', NEW x \in Handle, ctx'[x] # "none" /\ x \notin slot'
          PROVE  x \notin inited' /\ (inGlobal'[x] = MQ_IN_GLOBAL \/ x \in qfreed')
      BY <2>3, <2>4, <2>7 DEF Plain, MqRelease, QueueType
    <2>8. NoKill' => \A u \in Thread \ {t} : \A x \in slot \ slot' :
               lau[u].h = x => lau[u].st \notin {"init", "ok", "inited", "return", "failed"}
      BY <2>4
    <2>9. Stays(t)'
      BY <1>20 DEF LaunchDrop, Stays, ThreadType, NoLaunch
    <2> QED BY <1>0, <2>1, <2>2, <2>5, <2>6, <2>7, <2>8, <2>9, KeepOwners
  <1>21. ASSUME NEW t \in Thread, Request(t) PROVE Owners'
    <2>1. \A u \in Thread \ {t} : SameThread(u)
      BY <1>21 DEF Request, ThreadType, SameThread
    <2>2. left' = left \/ \E op \in Ops : Use(op)
      BY <1>21 DEF Request, Ops
    <2>3. UNCHANGED <<slot, inited, inGlobal, lockSession, qfreed, gq>>
      BY <1>21 DEF Request
    <2>4. \A x \in Handle : /\ Works(t, x)' => Works(t, x)
                            /\ Starts(t, x)' => Starts(t, x)
                            /\ Marks(t, x)' => Marks(t, x) \/ ref[x] > 0
                            /\ ctx'[x] # "none" => ctx[x] # "none"
      BY <1>21 DEF Request, Works, Starts, Marks, ThreadType, Stage, NoRelease, NoLaunch, NoSend
    <2>5. lau'[t] = lau[t] \/ Stays(t)'
      BY <1>21 DEF Request
    <2> QED BY <1>0, <2>1, <2>2, <2>3, <2>4, <2>5, KeepOwnersQuietly
  <1>22. ASSUME NEW t \in Thread, Respond(t) PROVE Owners'
    <2>1. \A u \in Thread \ {t} : SameThread(u)
      BY <1>22 DEF Respond, ThreadType, SameThread
    <2>2. left' = left \/ \E op \in Ops : Use(op)
      BY <1>22 DEF Respond, Ops
    <2>3. UNCHANGED <<slot, inited, inGlobal, lockSession, qfreed, gq>>
      BY <1>22 DEF Respond
    <2>4. \A x \in Handle : /\ Works(t, x)' => Works(t, x)
                            /\ Starts(t, x)' => Starts(t, x)
                            /\ Marks(t, x)' => Marks(t, x) \/ ref[x] > 0
                            /\ ctx'[x] # "none" => ctx[x] # "none"
      BY <1>22 DEF Respond, Works, Starts, Marks, ThreadType, Stage, NoRelease, NoLaunch, NoSend
    <2>5. lau'[t] = lau[t] \/ Stays(t)'
      BY <1>22 DEF Respond
    <2> QED BY <1>0, <2>1, <2>2, <2>3, <2>4, <2>5, KeepOwnersQuietly
  <1>23. ASSUME NEW t \in Thread, TimeoutNow(t) PROVE Owners'
    <2>1. \A u \in Thread \ {t} : SameThread(u)
      BY <1>23 DEF TimeoutNow, ThreadType, SameThread
    <2>2. left' = left \/ \E op \in Ops : Use(op)
      BY <1>23 DEF TimeoutNow, Ops
    <2>3. UNCHANGED <<slot, inited, inGlobal, lockSession, qfreed, gq>>
      BY <1>23 DEF TimeoutNow
    <2>4. \A x \in Handle : /\ Works(t, x)' => Works(t, x)
                            /\ Starts(t, x)' => Starts(t, x)
                            /\ Marks(t, x)' => Marks(t, x) \/ ref[x] > 0
                            /\ ctx'[x] # "none" => ctx[x] # "none"
      BY <1>23 DEF TimeoutNow, Works, Starts, Marks, ThreadType, Stage, NoRelease, NoLaunch, NoSend
    <2>5. lau'[t] = lau[t] \/ Stays(t)'
      BY <1>23 DEF TimeoutNow
    <2> QED BY <1>0, <2>1, <2>2, <2>3, <2>4, <2>5, KeepOwnersQuietly
  <1>24. ASSUME NEW t \in Thread, TimeoutLater(t) PROVE Owners'
    <2>1. \A u \in Thread \ {t} : SameThread(u)
      BY <1>24 DEF TimeoutLater, ThreadType, SameThread
    <2>2. left' = left \/ \E op \in Ops : Use(op)
      BY <1>24 DEF TimeoutLater, Ops
    <2>3. UNCHANGED <<slot, inited, inGlobal, lockSession, qfreed, gq>>
      BY <1>24 DEF TimeoutLater
    <2>4. \A x \in Handle : /\ Works(t, x)' => Works(t, x)
                            /\ Starts(t, x)' => Starts(t, x)
                            /\ Marks(t, x)' => Marks(t, x) \/ ref[x] > 0
                            /\ ctx'[x] # "none" => ctx[x] # "none"
      BY <1>24 DEF TimeoutLater, Works, Starts, Marks, ThreadType, Stage, NoRelease, NoLaunch, NoSend
    <2>5. lau'[t] = lau[t] \/ Stays(t)'
      BY <1>24 DEF TimeoutLater
    <2> QED BY <1>0, <2>1, <2>2, <2>3, <2>4, <2>5, KeepOwnersQuietly
  <1>25. ASSUME NEW t \in Thread, Forward(t) PROVE Owners'
    <2>1. \A u \in Thread \ {t} : SameThread(u)
      BY <1>25 DEF Forward, ThreadType, SameThread
    <2>2. left' = left \/ \E op \in Ops : Use(op)
      BY <1>25 DEF Forward, Ops
    <2>3. UNCHANGED <<slot, inited, inGlobal, lockSession, qfreed, gq>>
      BY <1>25 DEF Forward
    <2>4. \A x \in Handle : /\ Works(t, x)' => Works(t, x)
                            /\ Starts(t, x)' => Starts(t, x)
                            /\ Marks(t, x)' => Marks(t, x) \/ ref[x] > 0
                            /\ ctx'[x] # "none" => ctx[x] # "none"
      BY <1>25 DEF Forward, Works, Starts, Marks, ThreadType, Stage, NoRelease, NoLaunch, NoSend
    <2>5. lau'[t] = lau[t] \/ Stays(t)'
      BY <1>25 DEF Forward
    <2> QED BY <1>0, <2>1, <2>2, <2>3, <2>4, <2>5, KeepOwnersQuietly
  <1>26. ASSUME NEW t \in Thread, Kill(t) PROVE Owners'
    <2>1. \A u \in Thread \ {t} : SameThread(u)
      BY <1>26 DEF Kill, ThreadType, SameThread
    <2>2. left' = left \/ \E op \in Ops : Use(op)
      BY <1>26 DEF Kill, Ops
    <2>3. /\ (NoKill' => NoKill) /\ (NoLock' => NoLock) /\ (Calm' => Calm)
          /\ (NoKill' => ~Use("kill")) /\ (NoLock' => ~Use("lock"))
          /\ \A x \in Handle : Plain(x) /\ OneOwner(x)
          /\ Stays(t)
      BY <2>2, LeftLess DEF Owners
    <2>4. /\ Use("kill") /\ gq \in Seq(Handle)
          /\ \E d \in Handle : Retire(d)
          /\ UNCHANGED <<inited, inGlobal, lockSession, qfreed, pc, cur, rel, lau>>
      BY <1>26 DEF Kill, Known, QueueType
    <2>a. PICK d \in Handle : Retire(d)
      BY <2>4
    <2>5. ASSUME Calm', NEW x \in Handle, ref'[x] = 0
          PROVE  /\ OneToken(x)'
                 /\ x \in qfreed' \/ (inGlobal'[x] = 0 /\ \E u \in Thread : Marks(u, x)') => NoToken(x)'
      <3>1. inGlobal[d] \in {0, MQ_IN_GLOBAL}
        BY <2>3, <2>4, <2>5 DEF Calm, Plain
      <3>2. (Works(t, x)' => Works(t, x)) /\ (Starts(t, x)' => Starts(t, x)) /\ \A u \in Thread : Marks(u, x)' => Marks(u, x)
        BY <2>4 DEF Works, Starts, Marks
      <3>3. CASE x = d /\ d \in slot /\ ref[d] = 1 /\ inGlobal[d] = 0
        <4>1. NoToken(d) /\ d \notin qfreed /\ \A u \in Thread : ~Marks(u, d)
          BY <3>3, ReferencedOwner
        <4>2. GlobalPush(d)
          BY <2>a, <3>3, RetireEffect DEF MarkPush, MQ_IN_GLOBAL
        <4>3. OneToken(x)'
          BY <2>1, <2>4, <3>2, <3>3, <4>1, <4>2, GiveToken
        <4> QED BY <2>4, <3>2, <3>3, <4>1, <4>3
      <3>4. CASE ~(x = d /\ d \in slot /\ ref[d] = 1 /\ inGlobal[d] = 0)
        <4>1. gq' = gq \/ (GlobalPush(d) /\ x # d)
          BY <2>a, <3>1, <3>4, RetireEffect DEF MarkPush
        <4>2. (InGlobalQueue(x)' => InGlobalQueue(x)) /\ (Single(x) => Single(x)')
          <5>1. CASE gq' = gq
            BY <5>1 DEF InGlobalQueue, Single
          <5>2. CASE GlobalPush(d) /\ x # d
            BY <2>4, <5>2, QueueEffect, SinglePush
          <5> QED BY <4>1, <5>1, <5>2
        <4> QED BY <2>1, <2>3, <2>4, <2>5, <3>2, <4>2, KeepOwner
      <3> QED BY <3>3, <3>4
    <2>6. ASSUME NoLock', NEW x \in Handle
          PROVE  lockSession'[x] = 0 /\ inGlobal'[x] \in {0, MQ_IN_GLOBAL}
      BY <2>3, <2>4, <2>6 DEF Plain
    <2>7. ASSUME NoKill', NEW x \in Handle, ctx'[x] # "none" /\ x \notin slot'
          PROVE  x \notin inited' /\ (inGlobal'[x] = MQ_IN_GLOBAL \/ x \in qfreed')
      BY <2>3, <2>4, <2>7
    <2>8. NoKill' => \A u \in Thread \ {t} : \A x \in slot \ slot' :
               lau[u].h = x => lau[u].st \notin {"init", "ok", "inited", "return", "failed"}
      BY <2>3, <2>4
    <2>9. Stays(t)'
      BY <2>3, <2>4 DEF Stays
    <2> QED BY <1>0, <2>1, <2>2, <2>5, <2>6, <2>7, <2>8, <2>9, KeepOwners
  <1>27. ASSUME NEW t \in Thread, BlockCall(t) PROVE Owners'
    <2>1. \A u \in Thread \ {t} : SameThread(u)
      BY <1>27 DEF BlockCall, ThreadType, SameThread
    <2>2. left' = left \/ \E op \in Ops : Use(op)
      BY <1>27 DEF BlockCall, Ops
    <2>3. /\ (NoKill' => NoKill) /\ (NoLock' => NoLock) /\ (Calm' => Calm)
          /\ (NoKill' => ~Use("kill")) /\ (NoLock' => ~Use("lock"))
          /\ \A x \in Handle : Plain(x) /\ OneOwner(x)
          /\ Stays(t)
      BY <2>2, LeftLess DEF Owners
    <2>4. Use("lock") /\ UNCHANGED <<slot, ctx, inited, qfreed, gq, pc, cur, rel, lau>>
      BY <1>27 DEF BlockCall
    <2>a. PICK h \in inited : inGlobal' = [inGlobal EXCEPT ![h] = MQ_DISPATCHING]
      BY <1>27 DEF BlockCall
    <2>5. ASSUME Calm', NEW x \in Handle, ref'[x] = 0
          PROVE  /\ OneToken(x)'
                 /\ x \in qfreed' \/ (inGlobal'[x] = 0 /\ \E u \in Thread : Marks(u, x)') => NoToken(x)'
      <3> QED
        <4>1. (InGlobalQueue(x)' => InGlobalQueue(x)) /\ (Single(x) => Single(x)')
          BY <2>4 DEF InGlobalQueue, Single
        <4>2. /\ Works(t, x)' => Works(t, x)
              /\ Starts(t, x)' => Starts(t, x)
              /\ x \in qfreed' => x \in qfreed
              /\ inGlobal'[x] = 0 => inGlobal[x] = 0
              /\ Marks(t, x)' => Marks(t, x) \/ ref[x] > 0
          BY <2>4, <2>a DEF Works, Starts, Marks, QueueType, ContextType, MQ_DISPATCHING
        <4> QED BY <2>1, <2>3, <2>5, <4>1, <4>2, KeepOwner
    <2>6. ASSUME NoLock', NEW x \in Handle
          PROVE  lockSession'[x] = 0 /\ inGlobal'[x] \in {0, MQ_IN_GLOBAL}
      BY <2>3, <2>4, <2>6
    <2>7. ASSUME NoKill', NEW x \in Handle, ctx'[x] # "none" /\ x \notin slot'
          PROVE  x \notin inited' /\ (inGlobal'[x] = MQ_IN_GLOBAL \/ x \in qfreed')
      BY <2>3, <2>4, <2>a, <2>7 DEF Plain, QueueType
    <2>8. NoKill' => \A u \in Thread \ {t} : \A x \in slot \ slot' :
               lau[u].h = x => lau[u].st \notin {"init", "ok", "inited", "return", "failed"}
      BY <2>4
    <2>9. Stays(t)'
      BY <2>3, <2>4 DEF Stays
    <2> QED BY <1>0, <2>1, <2>2, <2>5, <2>6, <2>7, <2>8, <2>9, KeepOwners
  <1>28. ASSUME NEW t \in Thread, Launch(t) PROVE Owners'
    <2>1. \A u \in Thread \ {t} : SameThread(u)
      BY <1>28 DEF Launch, ThreadType, SameThread
    <2>2. left' = left \/ \E op \in Ops : Use(op)
      BY <1>28 DEF Launch, Ops
    <2>3. /\ (NoKill' => NoKill) /\ (NoLock' => NoLock) /\ (Calm' => Calm)
          /\ (NoKill' => ~Use("kill")) /\ (NoLock' => ~Use("lock"))
          /\ \A x \in Handle : Plain(x) /\ OneOwner(x)
          /\ Stays(t)
      BY <2>2, LeftLess DEF Owners
    <2>4. UNCHANGED <<inited, lockSession, qfreed, gq, pc, cur, rel>>
      BY <1>28 DEF Launch
    <2>a. PICK n \in Handle :
            /\ ctx[n] = "none" /\ slot' = slot \cup {n} /\ ctx' = [ctx EXCEPT ![n] = "live"]
            /\ ref' = [ref EXCEPT ![n] = 2]
            /\ inGlobal' = [inGlobal EXCEPT ![n] = MQ_IN_GLOBAL] /\ lau' = [lau EXCEPT ![t] = Stage("init", n)]
      BY <1>28 DEF Launch
    <2>5. ASSUME Calm', NEW x \in Handle, ref'[x] = 0
          PROVE  /\ OneToken(x)'
                 /\ x \in qfreed' \/ (inGlobal'[x] = 0 /\ \E u \in Thread : Marks(u, x)') => NoToken(x)'
      <3>2. x # n
        BY <2>a, <2>5 DEF ContextType
      <3> QED
        <4>1. (InGlobalQueue(x)' => InGlobalQueue(x)) /\ (Single(x) => Single(x)')
          BY <2>4 DEF InGlobalQueue, Single
        <4>2. /\ Works(t, x)' => Works(t, x)
              /\ Starts(t, x)' => Starts(t, x)
              /\ x \in qfreed' => x \in qfreed
              /\ inGlobal'[x] = 0 => inGlobal[x] = 0
              /\ Marks(t, x)' => Marks(t, x) \/ ref[x] > 0
          BY <2>4, <2>a, <3>2 DEF Works, Starts, Marks, QueueType, ThreadType, Stage
        <4> QED BY <2>1, <2>3, <2>5, <4>1, <4>2, KeepOwner
    <2>6. ASSUME NoLock', NEW x \in Handle
          PROVE  lockSession'[x] = 0 /\ inGlobal'[x] \in {0, MQ_IN_GLOBAL}
      BY <2>3, <2>4, <2>a, <2>6 DEF Plain, QueueType
    <2>7. ASSUME NoKill', NEW x \in Handle, ctx'[x] # "none" /\ x \notin slot'
          PROVE  x \notin inited' /\ (inGlobal'[x] = MQ_IN_GLOBAL \/ x \in qfreed')
      <3>1. x # n
        BY <2>a, <2>7
      <3> QED BY <2>3, <2>4, <2>a, <2>7, <3>1 DEF Plain, QueueType, ContextType
    <2>8. NoKill' => \A u \in Thread \ {t} : \A x \in slot \ slot' :
               lau[u].h = x => lau[u].st \notin {"init", "ok", "inited", "return", "failed"}
      BY <2>a
    <2>9. Stays(t)'
      BY <2>a DEF Stays, ThreadType, Stage
    <2> QED BY <1>0, <2>1, <2>2, <2>5, <2>6, <2>7, <2>8, <2>9, KeepOwners
  <1>29. ASSUME NEW t \in Thread, TimerFire(t) PROVE Owners'
    <2>1. \A u \in Thread \ {t} : SameThread(u)
      BY <1>29 DEF TimerFire, ThreadType, SameThread
    <2>2. left' = left \/ \E op \in Ops : Use(op)
      BY <1>29 DEF TimerFire, Ops
    <2>3. UNCHANGED <<slot, inited, inGlobal, lockSession, qfreed, gq>>
      BY <1>29 DEF TimerFire
    <2>4. \A x \in Handle : /\ Works(t, x)' => Works(t, x)
                            /\ Starts(t, x)' => Starts(t, x)
                            /\ Marks(t, x)' => Marks(t, x) \/ ref[x] > 0
                            /\ ctx'[x] # "none" => ctx[x] # "none"
      BY <1>29 DEF TimerFire, Works, Starts, Marks, ThreadType, Stage, NoRelease, NoLaunch, NoSend
    <2>5. lau'[t] = lau[t] \/ Stays(t)'
      BY <1>29 DEF TimerFire
    <2> QED BY <1>0, <2>1, <2>2, <2>3, <2>4, <2>5, KeepOwnersQuietly
  <1>30. ASSUME NEW t \in Thread, MonitorCheck(t) PROVE Owners'
    <2>1. \A u \in Thread \ {t} : SameThread(u)
      BY <1>30 DEF MonitorCheck, ThreadType, SameThread
    <2>2. left' = left \/ \E op \in Ops : Use(op)
      BY <1>30 DEF MonitorCheck, Ops
    <2>3. UNCHANGED <<slot, inited, inGlobal, lockSession, qfreed, gq>>
      BY <1>30 DEF MonitorCheck
    <2>4. \A x \in Handle : /\ Works(t, x)' => Works(t, x)
                            /\ Starts(t, x)' => Starts(t, x)
                            /\ Marks(t, x)' => Marks(t, x) \/ ref[x] > 0
                            /\ ctx'[x] # "none" => ctx[x] # "none"
      BY <1>30 DEF MonitorCheck, Works, Starts, Marks, ThreadType, Stage, NoRelease, NoLaunch, NoSend
    <2>5. lau'[t] = lau[t] \/ Stays(t)'
      BY <1>30 DEF MonitorCheck
    <2> QED BY <1>0, <2>1, <2>2, <2>3, <2>4, <2>5, KeepOwnersQuietly
  <1>31. ASSUME UNCHANGED <<ctxVars, mqVars, gq, threadVars, left>> PROVE Owners'
    <2>1. Budget' /\ (NoKill' => NoKill) /\ (NoLock' => NoLock) /\ (Calm' => Calm)
      BY <1>31 DEF Owners, Budget, NoKill, NoLock, Calm
    <2>2. \A h \in Handle : Plain(h)' /\ OneOwner(h)'
      BY <1>31, <2>1 DEF Owners, Plain, OneOwner, OneToken, NoToken, InGlobalQueue, Single, Works, Starts, Marks
    <2>3. \A t \in Thread : Stays(t)'
      BY <1>31, <2>1 DEF Owners, Stays
    <2> QED BY <2>1, <2>2, <2>3 DEF Owners
  <1>32. ASSUME NEW t \in Thread, Crash(t) PROVE UNCHANGED <<ctxVars, mqVars, gq, threadVars, left>>
    BY <1>32 DEF Crash, UseFreedQueue, UseFreedContext, AssertForcePush, AssertLock
  <1>33. CASE \E t \in Thread : Progress(t)
    BY <1>33, <1>1, <1>2, <1>3, <1>4, <1>5, <1>6, <1>7, <1>8, <1>9, <1>10, <1>11, <1>12, <1>13, <1>14, <1>15, <1>16, <1>17, <1>18, <1>19, <1>20 DEF Progress
  <1>34. CASE \E t \in Thread : Operation(t)
    BY <1>34, <1>21, <1>22, <1>23, <1>24, <1>25, <1>26, <1>27, <1>28, <1>29, <1>30 DEF Operation
  <1> QED
    BY <1>31, <1>32, <1>33, <1>34 DEF Next

(* A step fails in the code only as NoFreedQueue and NoFault allow.        *)
LEMMA StepFaults == OwnerInv /\ [Next]_vars => (NoFreedQueue /\ NoFault)'
  <1> SUFFICES ASSUME OwnerInv, [Next]_vars PROVE (NoFreedQueue /\ NoFault)'
    OBVIOUS
  <1> USE DEF OwnerInv, StandingInv, SchedulerInv, TokenInv, RefInv, TypeInv, TypeOK
  <1>1. CASE UNCHANGED vars
    BY <1>1 DEF NoFreedQueue, NoFault, NoKill, NoLock, vars
  <1>2. CASE fault' = "none"
    BY <1>2 DEF NoFreedQueue, NoFault
  <1>3. ASSUME NEW t \in Thread, UseFreedQueue(t) PROVE (NoFreedQueue /\ NoFault)'
    <2>1. fault' = "freed_queue" /\ (NoKill' <=> NoKill) /\ (NoLock' <=> NoLock)
      BY <1>3 DEF UseFreedQueue, NoKill, NoLock
    <2>2. PICK h \in qfreed : TouchesQueue(t, h)
      BY <1>3 DEF UseFreedQueue
    <2>3. h \in Handle /\ ref[h] = 0
      BY DEF QueueType, Wakeups, WakeAt
    <2>4. Calm => NoToken(h)
      BY <2>3 DEF Owners, OneOwner
    <2>5. ~(snd[t].st = "push" /\ snd[t].des = h)
      BY <2>3, HeldPositive
    <2>6. Works(t, h) \/ Starts(t, h)
      BY <2>2, <2>5 DEF TouchesQueue, Works, Starts
    <2> QED BY <2>1, <2>4, <2>6 DEF Calm, NoToken, NoFreedQueue, NoFault
  <1>4. ASSUME NEW t \in Thread, UseFreedContext(t) PROVE (NoFreedQueue /\ NoFault)'
    <2>1. fault' = "freed_context" /\ (NoKill' <=> NoKill) /\ (NoLock' <=> NoLock)
      BY <1>4 DEF UseFreedContext, NoKill, NoLock
    <2>2. PICK h \in Handle : TouchesContext(t, h) /\ ctx[h] = "freed"
      BY <1>4 DEF UseFreedContext
    <2>3. NoKill => h \in slot
      BY <2>2 DEF TouchesContext, Owners, Stays
    <2>4. h \notin slot
      BY <2>2, HeldPositive DEF Deletion, DeletedOnce
    <2> QED BY <2>1, <2>3, <2>4 DEF NoFreedQueue, NoFault
  <1>5. ASSUME NEW t \in Thread, AssertForcePush(t) PROVE (NoFreedQueue /\ NoFault)'
    <2>1. fault' = "force_push" /\ (NoKill' <=> NoKill) /\ (NoLock' <=> NoLock)
      BY <1>5 DEF AssertForcePush, NoKill, NoLock
    <2>2. PICK h \in Handle \ qfreed : inGlobal[h] = 0 /\ (Works(t, h) \/ Starts(t, h))
      BY <1>5 DEF AssertForcePush, Works, Starts
    <2>3. h \notin slot
      BY <2>2, HeldPositive, TokenFlag
    <2>4. ctx[h] # "none"
      BY <2>2 DEF Fresh, Unused, Involves, Works, Starts
    <2>5. ~NoKill
      BY <2>2, <2>3, <2>4 DEF Owners, Plain, MQ_IN_GLOBAL
    <2> QED BY <2>1, <2>5 DEF NoFreedQueue, NoFault
  <1>6. ASSUME NEW t \in Thread, AssertLock(t) PROVE (NoFreedQueue /\ NoFault)'
    <2>1. fault' = "mq_lock" /\ (NoKill' <=> NoKill) /\ (NoLock' <=> NoLock)
      BY <1>6 DEF AssertLock, NoKill, NoLock
    <2>2. PICK h \in inited \ qfreed : InService(t, h) /\ (lockSession[h] # 0 \/ inGlobal[h] # MQ_IN_GLOBAL)
      BY <1>6 DEF AssertLock
    <2>3. h \in Handle /\ ref[h] > 0 /\ Works(t, h)
      <3>1. pc[t] = "cb" /\ Quiet(t) /\ lau[t].st \in {"none", "init"} /\ h \in Handle
        BY <2>2, Serving DEF InService
      <3>2. ~(lau[t].st = "init" /\ lau[t].h = h)
        <4>1. lau[t].st = "init" /\ lau[t].h = h => ref[h] > 0
          BY <3>1, HeldPositive
        <4> QED BY <2>2, <3>1, <4>1 DEF Tokens, TokenAt
      <3>3. pc[t] = "cb" /\ cur[t] = h
        BY <2>2, <3>1, <3>2 DEF InService, Running
      <3> QED BY <3>1, <3>3, HeldPositive DEF Works
    <2>4. inGlobal[h] # 0
      BY <2>3, TokenFlag
    <2>5. ~NoLock
      BY <2>2, <2>3, <2>4 DEF Owners, Plain
    <2> QED BY <2>1, <2>5 DEF NoFreedQueue, NoFault
  <1>7. ASSUME NEW t \in Thread, Progress(t) \/ Operation(t) PROVE fault' = fault
    BY <1>7 DEF Progress, Operation, GlobalPop, Grab, DropQueue, PopEmpty, PopMessage, CallbackEnd,
       DispatchRelease, PushGlobal, SendGrab, SendPush, MonitorEndless, ReleaseDec, ReleaseMark,
       ReleaseFree, InitReturn, LaunchInited, LaunchPush, LaunchReturn, LaunchRetire, LaunchDrop,
       Request, Respond, TimeoutNow, TimeoutLater, Forward, Kill, BlockCall, Launch, TimerFire, MonitorCheck
  <1> QED BY <1>1, <1>2, <1>3, <1>4, <1>5, <1>6, <1>7 DEF Next, Crash

(* The initial states.                                                     *)
LEMMA InitOwner == Init => OwnerInv
  <1> SUFFICES ASSUME Init PROVE OwnerInv OBVIOUS
  <1>1. Budget /\ NoKill /\ NoLock /\ fault = "none"
    BY ConstantsAssumption DEF Init, Budget, NoKill, NoLock
  <1>2. ASSUME NEW h \in Handle PROVE Plain(h) /\ OneOwner(h)
    <2>1. Plain(h)
      BY DEF Init, Plain, MQ_IN_GLOBAL
    <2>2. OneToken(h)
      <3>1. CASE h \in Boot
        <4>1. ref[h] > 0
          BY <3>1 DEF Init
        <4> QED BY <4>1, InitStanding, ReferencedOwner
      <3>2. CASE h \notin Boot
        <4>1. ctx[h] = "none"
          BY <3>2 DEF Init
        <4>2. Unused(h)
          BY <4>1, InitRef DEF RefInv, Fresh
        <4> QED BY <4>2 DEF Unused, Involves, OneToken, Single, InGlobalQueue, Works, Starts
      <3> QED BY <3>1, <3>2
    <2>3. h \notin qfreed /\ \A t \in Thread : ~Marks(t, h)
      BY DEF Init, Marks, NoRelease
    <2> QED BY <2>1, <2>2, <2>3 DEF OneOwner
  <1>3. \A t \in Thread : Stays(t)
    BY DEF Init, Stays, NoLaunch
  <1> QED BY <1>1, <1>2, <1>3, InitStanding DEF OwnerInv, Owners, NoFreedQueue, NoFault

(* The owners are always right.                                            *)
LEMMA OwnersRight == Spec => []OwnerInv
  <1>1. OwnerInv /\ [Next]_vars => OwnerInv'
    BY StepStanding, StepOwners, StepFaults DEF OwnerInv
  <1> QED BY <1>1, InitOwner, PTL DEF Spec

(* Nothing breaks underneath the services: the state has its type, what is *)
(* referred to has not been freed, the assertions of the code hold, and a  *)
(* queue is used after it was freed, or an assertion of skynet_mq.c fails, *)
(* only after the kills and blockcalls that NoFreedQueue and NoFault name. *)
THEOREM NothingBreaks == Spec => []SchedulerSound
  <1>1. OwnerInv => AssertionsHold /\ NoFreedQueue /\ NoFault
    BY StandingAsserts DEF OwnerInv
  <1> QED BY <1>1, OwnersRight, TypeCorrect, HeldAlive, PTL DEF SchedulerSound

-----------------------------------------------------------------------------
(* What a service sees.                                                    *)

(* Nobody forwards a message as long as NoForward holds.                   *)
LEMMA ForwardLess ==
    ASSUME left \in [Ops -> Nat], Budget, left' = left \/ \E op \in Ops : Use(op)
    PROVE  NoForward' => NoForward /\ ~Use("forward")
  <1>1. Limit \in [Ops -> Nat] /\ "forward" \in Ops
    BY ConstantsAssumption DEF Ops
  <1>2. CASE left' = left
    BY <1>1, <1>2 DEF NoForward, Use
  <1>3. ASSUME NEW op \in Ops, Use(op) PROVE NoForward' => NoForward /\ ~Use("forward")
    <2>1. left[op] \in Nat /\ left[op] > 0 /\ left' = [left EXCEPT ![op] = left[op] - 1]
      BY <1>3 DEF Use
    <2>2. \A o \in Ops : left'[o] <= left[o] /\ left[o] <= Limit[o] /\ left[o] \in Nat /\ left'[o] \in Nat /\ Limit[o] \in Nat
      BY <1>1, <2>1 DEF Budget
    <2> QED BY <1>1, <2>2 DEF NoForward, Use
  <1> QED BY <1>2, <1>3

(* The code of a service runs on one thread.                               *)
LEMMA CodeOnce ==
    ASSUME TokenInv, NEW h \in Handle, NEW t \in Thread, NEW u \in Thread, InCode(t, h), InCode(u, h)
    PROVE  t = u
  <1>1. ref[h] > 0
    BY HeldPositive DEF TokenInv, RefInv, InCode
  <1>2. OneToken(h)
    BY <1>1 DEF TokenInv, Tokens, TokenAt
  <1> QED BY <1>2 DEF OneToken, InCode, Works, Starts

(* Service code that calls into skynet runs.                               *)
LEMMA ServiceCode ==
    ASSUME NEW t \in Thread, NEW h \in Handle, InService(t, h)
    PROVE  InCode(t, h) /\ snd[t].st = "none"
  BY ConstantsAssumption DEF InService, Running, InCode, Quiet

(* The queue s loses its first message, or all it has.                     *)
Shrinks(s, r) == r = s \/ r = <<>> \/ (s # <<>> /\ r = Tail(s))

(* What is left keeps its order.                                           *)
LEMMA ShrinksShift ==
    ASSUME NEW s \in Seq(Message), NEW r \in Seq(Message), Shrinks(s, r)
    PROVE  \E k \in {0, 1} : \A i \in 1 .. Len(r) : i + k \in 1 .. Len(s) /\ r[i] = s[i + k]
  <1>1. CASE r = s
    <2>1. \A i \in 1 .. Len(r) : i + 0 \in 1 .. Len(s) /\ r[i] = s[i + 0]
      BY <1>1
    <2> QED BY <2>1
  <1>2. CASE r = <<>>
    BY <1>2
  <1>3. CASE s # <<>> /\ r = Tail(s)
    <2>1. \A i \in 1 .. Len(r) : i + 1 \in 1 .. Len(s) /\ r[i] = s[i + 1]
      BY <1>3
    <2> QED BY <2>1
  <1> QED BY <1>1, <1>2, <1>3 DEF Shrinks

(* A step of thread t that adds no message to a queue, and what t then     *)
(* sends is nothing numbered, what it was sending, or a new request.       *)
LEMMA KeepSenders ==
    ASSUME OwnerInv, Senders, left' = left \/ \E op \in Ops : Use(op),
           NEW t \in Thread, \A u \in Thread \ {t} : SameThread(u),
           \A h \in Handle : Shrinks(queue[h], queue'[h]),
           \A h \in Handle : session'[h] = session[h] \/ (InCode(t, h) /\ session'[h] = session[h] + 1),
           NoForward /\ ~Use("forward") /\ (\A h \in Handle : forward[h] = NoHandle) /\ ~Use("lock") =>
               /\ \A h \in Handle : forward'[h] = NoHandle
               /\ \/ snd'[t].st \notin {"grab", "push"} \/ ~Numbered(snd'[t].m)
                  \/ /\ snd[t].st \in {"grab", "push"} /\ snd'[t].m = snd[t].m
                     /\ session' = session /\ \A h \in Handle : InCode(t, h) => InCode(t, h)'
                  \/ \E h \in Handle : /\ snd'[t].m.source = h /\ InCode(t, h)'
                                       /\ session'[h] = session[h] + 1 /\ snd'[t].m.session = session'[h]
    PROVE  Senders'
  <1> SUFFICES ASSUME NoLock', NoForward'
               PROVE  /\ \A h \in Handle : forward'[h] = NoHandle /\ Sent(h)' /\ InOrder(h)'
                      /\ \A u \in Thread : Newest(u)'
    BY DEF Senders
  <1> USE DEF OwnerInv, StandingInv, SchedulerInv, TokenInv, RefInv, TypeInv, TypeOK
  <1>1. NoForward /\ NoLock /\ ~Use("forward") /\ ~Use("lock")
    BY LeftLess, ForwardLess DEF Owners, RestType
  <1>2. /\ \A h \in Handle : forward[h] = NoHandle /\ Sent(h) /\ InOrder(h)
        /\ \A u \in Thread : Newest(u)
    BY <1>1 DEF Senders
  <1>3. \A h \in Handle : session[h] \in Nat /\ session'[h] \in Nat /\ session[h] <= session'[h]
    BY DEF ContextType
  <1>4. ASSUME NEW h \in Handle
        PROVE  \E k \in {0, 1} : \A i \in 1 .. Len(queue'[h]) :
                   i + k \in 1 .. Len(queue[h]) /\ queue'[h][i] = queue[h][i + k]
    <2>1. queue[h] \in Seq(Message) /\ Shrinks(queue[h], queue'[h])
      BY DEF QueueType
    <2>2. queue'[h] \in Seq(Message)
      <3>1. queue[h] # <<>> => Tail(queue[h]) \in Seq(Message)
        BY <2>1
      <3>2. <<>> \in Seq(Message)
        OBVIOUS
      <3>3. CASE queue'[h] = queue[h]
        BY <2>1, <3>3
      <3>4. CASE queue'[h] = <<>>
        BY <3>2, <3>4
      <3>5. CASE queue[h] # <<>> /\ queue'[h] = Tail(queue[h])
        BY <3>1, <3>5
      <3> QED BY <2>1, <3>3, <3>4, <3>5 DEF Shrinks
    <2> QED BY <2>1, <2>2, ShrinksShift
  <1>5. ASSUME NEW h \in Handle PROVE Sent(h)' /\ InOrder(h)'
    <2>1. PICK k \in {0, 1} : \A i \in 1 .. Len(queue'[h]) :
                   i + k \in 1 .. Len(queue[h]) /\ queue'[h][i] = queue[h][i + k]
      BY <1>4
    <2>2. \A i \in 1 .. Len(queue[h]) : queue[h][i] \in Message
      BY DEF QueueType
    <2>3. Sent(h)'
      <3> SUFFICES ASSUME NEW i \in 1 .. Len(queue'[h]), Numbered(queue'[h][i])
                   PROVE  /\ queue'[h][i].source \in Handle
                          /\ queue'[h][i].session <= session'[queue'[h][i].source]
        BY DEF Sent, Numbered
      <3>1. i + k \in 1 .. Len(queue[h]) /\ queue'[h][i] = queue[h][i + k]
        BY <2>1
      <3>2. queue[h][i + k].source \in Handle /\ queue[h][i + k].session <= session[queue[h][i + k].source]
        BY <1>2, <3>1 DEF Sent
      <3>3. queue[h][i + k].session \in Nat
        BY <2>2, <3>1 DEF Message
      <3> QED BY <1>3, <3>1, <3>2, <3>3
    <2>4. InOrder(h)'
      <3> SUFFICES ASSUME NEW i \in 1 .. Len(queue'[h]), NEW j \in 1 .. Len(queue'[h]), i < j,
                          Numbered(queue'[h][i]), Numbered(queue'[h][j]),
                          queue'[h][i].source = queue'[h][j].source
                   PROVE  queue'[h][i].session < queue'[h][j].session
        BY DEF InOrder, Numbered
      <3>1. /\ i + k \in 1 .. Len(queue[h]) /\ queue'[h][i] = queue[h][i + k]
            /\ j + k \in 1 .. Len(queue[h]) /\ queue'[h][j] = queue[h][j + k] /\ i + k < j + k
        BY <2>1
      <3> QED BY <1>2, <3>1 DEF InOrder
    <2> QED BY <2>3, <2>4
  <1>6. ASSUME NEW h \in Handle, NEW i \in 1 .. Len(queue'[h])
        PROVE  \E j \in 1 .. Len(queue[h]) : queue'[h][i] = queue[h][j]
    BY <1>4
  <1>7. ASSUME NEW u \in Thread \ {t} PROVE Newest(u)'
    <2> SUFFICES ASSUME snd[u].st \in {"grab", "push"}, Numbered(snd[u].m)
                 PROVE  \E x \in Handle :
                          /\ snd[u].m.source = x /\ InCode(u, x)' /\ snd[u].m.session = session'[x]
                          /\ \A h \in Handle : \A i \in 1 .. Len(queue'[h]) :
                                Numbered(queue'[h][i]) /\ queue'[h][i].source = x =>
                                    queue'[h][i].session < snd[u].m.session
      BY DEF Newest, SameThread, Numbered, InCode
    <2>1. PICK x \in Handle :
            /\ snd[u].m.source = x /\ InCode(u, x) /\ snd[u].m.session = session[x]
            /\ \A h \in Handle : \A i \in 1 .. Len(queue[h]) :
                  Numbered(queue[h][i]) /\ queue[h][i].source = x =>
                      queue[h][i].session < snd[u].m.session
      BY <1>2 DEF Newest
    <2>2. session'[x] = session[x]
      BY <2>1, CodeOnce
    <2>3. InCode(u, x)'
      BY <2>1 DEF InCode, SameThread
    <2>4. ASSUME NEW h \in Handle, NEW i \in 1 .. Len(queue'[h]), Numbered(queue'[h][i]), queue'[h][i].source = x
          PROVE  queue'[h][i].session < snd[u].m.session
      BY <1>6, <2>1, <2>4
    <2> QED BY <2>1, <2>2, <2>3, <2>4
  <1>8. Newest(t)'
    <2> SUFFICES ASSUME snd'[t].st \in {"grab", "push"}, Numbered(snd'[t].m)
                 PROVE  \E x \in Handle :
                          /\ snd'[t].m.source = x /\ InCode(t, x)' /\ snd'[t].m.session = session'[x]
                          /\ \A h \in Handle : \A i \in 1 .. Len(queue'[h]) :
                                Numbered(queue'[h][i]) /\ queue'[h][i].source = x =>
                                    queue'[h][i].session < snd'[t].m.session
      BY DEF Newest, Numbered, InCode
    <2>1. CASE /\ snd[t].st \in {"grab", "push"} /\ snd'[t].m = snd[t].m
               /\ session' = session /\ \A h \in Handle : InCode(t, h) => InCode(t, h)'
      <3>1. PICK x \in Handle :
              /\ snd[t].m.source = x /\ InCode(t, x) /\ snd[t].m.session = session[x]
              /\ \A h \in Handle : \A i \in 1 .. Len(queue[h]) :
                    Numbered(queue[h][i]) /\ queue[h][i].source = x =>
                        queue[h][i].session < snd[t].m.session
        BY <1>2, <2>1 DEF Newest
      <3>2. ASSUME NEW h \in Handle, NEW i \in 1 .. Len(queue'[h]), Numbered(queue'[h][i]), queue'[h][i].source = x
            PROVE  queue'[h][i].session < snd[t].m.session
        BY <1>6, <3>1, <3>2
      <3> QED BY <2>1, <3>1, <3>2
    <2>2. CASE \E x \in Handle : /\ snd'[t].m.source = x /\ InCode(t, x)'
                                 /\ session'[x] = session[x] + 1 /\ snd'[t].m.session = session'[x]
      <3>1. PICK x \in Handle : /\ snd'[t].m.source = x /\ InCode(t, x)'
                                /\ session'[x] = session[x] + 1 /\ snd'[t].m.session = session'[x]
        BY <2>2
      <3>2. ASSUME NEW h \in Handle, NEW i \in 1 .. Len(queue'[h]), Numbered(queue'[h][i]), queue'[h][i].source = x
            PROVE  queue'[h][i].session < session[x] + 1
        <4>1. PICK j \in 1 .. Len(queue[h]) : queue'[h][i] = queue[h][j]
          BY <1>6
        <4>2. queue[h][j] \in Message /\ queue[h][j].session <= session[x]
          BY <1>2, <3>2, <4>1 DEF Sent, QueueType
        <4> QED BY <1>3, <4>1, <4>2 DEF Message
      <3> QED BY <3>1, <3>2
    <2> QED BY <1>1, <1>2, <2>1, <2>2
  <1> QED BY <1>1, <1>2, <1>5, <1>7, <1>8

(* skynet_mq_push of the message that t sends.                             *)
LEMMA PushSenders ==
    ASSUME OwnerInv, Senders, NEW t \in Thread, SendPush(t)
    PROVE  Senders'
  <1> SUFFICES ASSUME NoLock', NoForward'
               PROVE  /\ \A h \in Handle : forward'[h] = NoHandle /\ Sent(h)' /\ InOrder(h)'
                      /\ \A u \in Thread : Newest(u)'
    BY DEF Senders
  <1> USE DEF OwnerInv, StandingInv, SchedulerInv, TokenInv, RefInv, TypeInv, TypeOK
  <1>1. PICK d \in Handle : d = snd[t].des
    BY DEF SendPush, Shape, ThreadShape
  <1>2. PICK m \in Message : m = snd[t].m
    BY DEF SendPush, Shape, ThreadShape
  <1>3. /\ snd[t].st = "push" /\ MqPush(d, m) /\ snd' = [snd EXCEPT ![t] = NoSend]
        /\ UNCHANGED <<ctxVars, pc, cur, lau, left>>
    BY <1>1, <1>2 DEF SendPush
  <1>4. NoForward /\ NoLock
    BY <1>3 DEF NoForward, NoLock
  <1>5. /\ \A h \in Handle : forward[h] = NoHandle /\ Sent(h) /\ InOrder(h)
        /\ \A u \in Thread : Newest(u)
    BY <1>4 DEF Senders
  <1>6. queue' = [queue EXCEPT ![d] = Append(queue[d], m)]
    <2>1. lockSession[d] = 0
      BY <1>4 DEF Owners, Plain
    <2> QED BY <1>3, <2>1 DEF MqPush, Unlocks, PushTail
  <1>7. UNCHANGED <<session, forward, pc, cur, lau>>
    BY <1>3 DEF ctxVars
  <1>8. Numbered(m) =>
          /\ m.source \in Handle /\ InCode(t, m.source) /\ m.session = session[m.source]
          /\ \A h \in Handle : \A i \in 1 .. Len(queue[h]) :
                Numbered(queue[h][i]) /\ queue[h][i].source = m.source => queue[h][i].session < m.session
    BY <1>2, <1>3, <1>5 DEF Newest
  <1>9. ASSUME NEW h \in Handle, NEW i \in 1 .. Len(queue'[h])
        PROVE  \/ i \in 1 .. Len(queue[h]) /\ queue'[h][i] = queue[h][i]
               \/ h = d /\ queue'[h][i] = m /\ i = Len(queue[h]) + 1
    <2>1. CASE h = d
      <3>1. queue[d] \in Seq(Message) /\ queue'[h] = Append(queue[d], m)
        BY <1>6, <2>1 DEF QueueType
      <3> QED BY <2>1, <3>1
    <2>2. CASE h # d
      BY <1>6, <2>2 DEF QueueType
    <2> QED BY <2>1, <2>2
  <1>10. \A h \in Handle : session[h] \in Nat
    BY DEF ContextType
  <1>11. ASSUME NEW h \in Handle PROVE Sent(h)' /\ InOrder(h)'
    <2>1. Sent(h)'
      <3> SUFFICES ASSUME NEW i \in 1 .. Len(queue'[h]), Numbered(queue'[h][i])
                   PROVE  /\ queue'[h][i].source \in Handle
                          /\ queue'[h][i].session <= session'[queue'[h][i].source]
        BY DEF Sent, Numbered
      <3>1. CASE i \in 1 .. Len(queue[h]) /\ queue'[h][i] = queue[h][i]
        BY <1>5, <1>7, <3>1 DEF Sent
      <3>2. CASE queue'[h][i] = m
        BY <1>7, <1>8, <1>10, <3>2
      <3> QED BY <1>9, <3>1, <3>2
    <2>2. InOrder(h)'
      <3> SUFFICES ASSUME NEW i \in 1 .. Len(queue'[h]), NEW j \in 1 .. Len(queue'[h]), i < j,
                          Numbered(queue'[h][i]), Numbered(queue'[h][j]),
                          queue'[h][i].source = queue'[h][j].source
                   PROVE  queue'[h][i].session < queue'[h][j].session
        BY DEF InOrder, Numbered
      <3>1. Len(queue[h]) \in Nat
        BY DEF QueueType
      <3>2. i \in 1 .. Len(queue[h]) /\ queue'[h][i] = queue[h][i]
        BY <1>9, <3>1
      <3>3. CASE j \in 1 .. Len(queue[h]) /\ queue'[h][j] = queue[h][j]
        BY <1>5, <3>2, <3>3 DEF InOrder
      <3>4. CASE queue'[h][j] = m
        BY <1>8, <3>2, <3>4
      <3> QED BY <1>9, <3>3, <3>4
    <2> QED BY <2>1, <2>2
  <1>12. ASSUME NEW u \in Thread PROVE Newest(u)'
    <2>1. CASE u = t
      BY <1>3, <2>1 DEF Newest, ThreadType, NoSend
    <2>2. CASE u # t
      <3>1. snd'[u] = snd[u]
        BY <1>3, <2>2 DEF ThreadType
      <3> SUFFICES ASSUME snd[u].st \in {"grab", "push"}, Numbered(snd[u].m)
                   PROVE  \E x \in Handle :
                            /\ snd[u].m.source = x /\ InCode(u, x)' /\ snd[u].m.session = session'[x]
                            /\ \A h \in Handle : \A i \in 1 .. Len(queue'[h]) :
                                  Numbered(queue'[h][i]) /\ queue'[h][i].source = x =>
                                      queue'[h][i].session < snd[u].m.session
        BY <3>1 DEF Newest, Numbered, InCode
      <3>2. PICK x \in Handle :
              /\ snd[u].m.source = x /\ InCode(u, x) /\ snd[u].m.session = session[x]
              /\ \A h \in Handle : \A i \in 1 .. Len(queue[h]) :
                    Numbered(queue[h][i]) /\ queue[h][i].source = x =>
                        queue[h][i].session < snd[u].m.session
        BY <1>5 DEF Newest
      <3>3. Numbered(m) => m.source # x
        BY <1>8, <2>2, <3>2, CodeOnce
      <3>4. InCode(u, x)'
        BY <1>7, <3>2 DEF InCode
      <3>5. ASSUME NEW h \in Handle, NEW i \in 1 .. Len(queue'[h]), Numbered(queue'[h][i]), queue'[h][i].source = x
            PROVE  queue'[h][i].session < snd[u].m.session
        BY <1>9, <3>2, <3>3, <3>5
      <3> QED BY <1>7, <3>2, <3>4, <3>5
    <2> QED BY <2>1, <2>2
  <1> QED BY <1>5, <1>7, <1>11, <1>12

(* Every step keeps the order.                                             *)
LEMMA StepSenders == OwnerInv /\ Senders /\ [Next]_vars => Senders'
  <1> SUFFICES ASSUME OwnerInv, Senders, [Next]_vars PROVE Senders'
    OBVIOUS
  <1>0. ContextType /\ QueueType /\ ThreadType /\ Shape /\ Order
    BY DEF OwnerInv, StandingInv, SchedulerInv, TokenInv, RefInv, TypeInv, TypeOK
  <1> USE DEF vars, ctxVars, mqVars, threadVars
  <1>1. ASSUME NEW t \in Thread, GlobalPop(t) PROVE Senders'
    <2>1. \A u \in Thread \ {t} : SameThread(u)
      BY <1>0, <1>1 DEF GlobalPop, ThreadType, SameThread
    <2>2. left' = left \/ \E op \in Ops : Use(op)
      BY <1>1 DEF GlobalPop, Ops
    <2>3. \A h \in Handle : Shrinks(queue[h], queue'[h])
      BY <1>1 DEF GlobalPop, Shrinks
    <2>4. \A h \in Handle : session'[h] = session[h] \/ (InCode(t, h) /\ session'[h] = session[h] + 1)
      BY <1>1 DEF GlobalPop
    <2>5. NoForward /\ ~Use("forward") /\ (\A h \in Handle : forward[h] = NoHandle) /\ ~Use("lock") =>
             /\ \A h \in Handle : forward'[h] = NoHandle
             /\ \/ snd'[t].st \notin {"grab", "push"} \/ ~Numbered(snd'[t].m)
                \/ /\ snd[t].st \in {"grab", "push"} /\ snd'[t].m = snd[t].m
                   /\ session' = session /\ \A h \in Handle : InCode(t, h) => InCode(t, h)'
                \/ \E h \in Handle : /\ snd'[t].m.source = h /\ InCode(t, h)'
                                     /\ session'[h] = session[h] + 1 /\ snd'[t].m.session = session'[h]
      BY <1>0, <1>1 DEF GlobalPop, InCode, ThreadType, NoSend, NoMessage, Quiet, Order, ThreadOrder, Stage
    <2> QED BY <2>1, <2>2, <2>3, <2>4, <2>5, KeepSenders
  <1>2. ASSUME NEW t \in Thread, Grab(t) PROVE Senders'
    <2>1. \A u \in Thread \ {t} : SameThread(u)
      BY <1>0, <1>2 DEF Grab, ThreadType, SameThread
    <2>2. left' = left \/ \E op \in Ops : Use(op)
      BY <1>2 DEF Grab, Ops
    <2>3. \A h \in Handle : Shrinks(queue[h], queue'[h])
      BY <1>2 DEF Grab, Shrinks
    <2>4. \A h \in Handle : session'[h] = session[h] \/ (InCode(t, h) /\ session'[h] = session[h] + 1)
      BY <1>2 DEF Grab
    <2>5. NoForward /\ ~Use("forward") /\ (\A h \in Handle : forward[h] = NoHandle) /\ ~Use("lock") =>
             /\ \A h \in Handle : forward'[h] = NoHandle
             /\ \/ snd'[t].st \notin {"grab", "push"} \/ ~Numbered(snd'[t].m)
                \/ /\ snd[t].st \in {"grab", "push"} /\ snd'[t].m = snd[t].m
                   /\ session' = session /\ \A h \in Handle : InCode(t, h) => InCode(t, h)'
                \/ \E h \in Handle : /\ snd'[t].m.source = h /\ InCode(t, h)'
                                     /\ session'[h] = session[h] + 1 /\ snd'[t].m.session = session'[h]
      BY <1>0, <1>2 DEF Grab, InCode, ThreadType, NoSend, NoMessage, Quiet, Order, ThreadOrder, Stage
    <2> QED BY <2>1, <2>2, <2>3, <2>4, <2>5, KeepSenders
  <1>3. ASSUME NEW t \in Thread, DropQueue(t) PROVE Senders'
    <2>1. \A u \in Thread \ {t} : SameThread(u)
      BY <1>0, <1>3 DEF DropQueue, ThreadType, SameThread
    <2>2. left' = left \/ \E op \in Ops : Use(op)
      BY <1>3 DEF DropQueue, Ops
    <2>3. \A h \in Handle : Shrinks(queue[h], queue'[h])
      BY <1>0, <1>3 DEF DropQueue, MqRelease, Shrinks, QueueType
    <2>4. \A h \in Handle : session'[h] = session[h] \/ (InCode(t, h) /\ session'[h] = session[h] + 1)
      BY <1>3 DEF DropQueue
    <2>5. NoForward /\ ~Use("forward") /\ (\A h \in Handle : forward[h] = NoHandle) /\ ~Use("lock") =>
             /\ \A h \in Handle : forward'[h] = NoHandle
             /\ \/ snd'[t].st \notin {"grab", "push"} \/ ~Numbered(snd'[t].m)
                \/ /\ snd[t].st \in {"grab", "push"} /\ snd'[t].m = snd[t].m
                   /\ session' = session /\ \A h \in Handle : InCode(t, h) => InCode(t, h)'
                \/ \E h \in Handle : /\ snd'[t].m.source = h /\ InCode(t, h)'
                                     /\ session'[h] = session[h] + 1 /\ snd'[t].m.session = session'[h]
      BY <1>0, <1>3 DEF DropQueue, InCode, ThreadType, NoSend, NoMessage, Quiet, Order, ThreadOrder, Stage
    <2> QED BY <2>1, <2>2, <2>3, <2>4, <2>5, KeepSenders
  <1>4. ASSUME NEW t \in Thread, PopEmpty(t) PROVE Senders'
    <2>1. \A u \in Thread \ {t} : SameThread(u)
      BY <1>0, <1>4 DEF PopEmpty, ThreadType, SameThread
    <2>2. left' = left \/ \E op \in Ops : Use(op)
      BY <1>4 DEF PopEmpty, Ops
    <2>3. \A h \in Handle : Shrinks(queue[h], queue'[h])
      BY <1>4 DEF PopEmpty, Shrinks
    <2>4. \A h \in Handle : session'[h] = session[h] \/ (InCode(t, h) /\ session'[h] = session[h] + 1)
      BY <1>4 DEF PopEmpty
    <2>5. NoForward /\ ~Use("forward") /\ (\A h \in Handle : forward[h] = NoHandle) /\ ~Use("lock") =>
             /\ \A h \in Handle : forward'[h] = NoHandle
             /\ \/ snd'[t].st \notin {"grab", "push"} \/ ~Numbered(snd'[t].m)
                \/ /\ snd[t].st \in {"grab", "push"} /\ snd'[t].m = snd[t].m
                   /\ session' = session /\ \A h \in Handle : InCode(t, h) => InCode(t, h)'
                \/ \E h \in Handle : /\ snd'[t].m.source = h /\ InCode(t, h)'
                                     /\ session'[h] = session[h] + 1 /\ snd'[t].m.session = session'[h]
      BY <1>0, <1>4 DEF PopEmpty, InCode, ThreadType, NoSend, NoMessage, Quiet, Order, ThreadOrder, Stage
    <2> QED BY <2>1, <2>2, <2>3, <2>4, <2>5, KeepSenders
  <1>5. ASSUME NEW t \in Thread, PopMessage(t) PROVE Senders'
    <2>1. \A u \in Thread \ {t} : SameThread(u)
      BY <1>0, <1>5 DEF PopMessage, ThreadType, SameThread
    <2>2. left' = left \/ \E op \in Ops : Use(op)
      BY <1>5 DEF PopMessage, Ops
    <2>3. \A h \in Handle : Shrinks(queue[h], queue'[h])
      <3>1. PICK c \in Handle : c = cur[t]
        BY <1>0, <1>5 DEF PopMessage, Shape, ThreadShape
      <3>2. queue[c] # <<>> /\ queue' = [queue EXCEPT ![c] = Tail(queue[c])]
        BY <1>5, <3>1 DEF PopMessage
      <3> QED BY <1>0, <3>2 DEF Shrinks, QueueType
    <2>4. \A h \in Handle : session'[h] = session[h] \/ (InCode(t, h) /\ session'[h] = session[h] + 1)
      BY <1>5 DEF PopMessage
    <2>5. NoForward /\ ~Use("forward") /\ (\A h \in Handle : forward[h] = NoHandle) /\ ~Use("lock") =>
             /\ \A h \in Handle : forward'[h] = NoHandle
             /\ \/ snd'[t].st \notin {"grab", "push"} \/ ~Numbered(snd'[t].m)
                \/ /\ snd[t].st \in {"grab", "push"} /\ snd'[t].m = snd[t].m
                   /\ session' = session /\ \A h \in Handle : InCode(t, h) => InCode(t, h)'
                \/ \E h \in Handle : /\ snd'[t].m.source = h /\ InCode(t, h)'
                                     /\ session'[h] = session[h] + 1 /\ snd'[t].m.session = session'[h]
      BY <1>0, <1>5 DEF PopMessage, InCode, ThreadType, NoSend, NoMessage, Quiet, Order, ThreadOrder, Stage
    <2> QED BY <2>1, <2>2, <2>3, <2>4, <2>5, KeepSenders
  <1>6. ASSUME NEW t \in Thread, CallbackEnd(t) PROVE Senders'
    <2>1. \A u \in Thread \ {t} : SameThread(u)
      BY <1>0, <1>6 DEF CallbackEnd, ThreadType, SameThread
    <2>2. left' = left \/ \E op \in Ops : Use(op)
      BY <1>6 DEF CallbackEnd, Ops
    <2>3. \A h \in Handle : Shrinks(queue[h], queue'[h])
      BY <1>6 DEF CallbackEnd, Shrinks
    <2>4. \A h \in Handle : session'[h] = session[h] \/ (InCode(t, h) /\ session'[h] = session[h] + 1)
      BY <1>6 DEF CallbackEnd
    <2>5. NoForward /\ ~Use("forward") /\ (\A h \in Handle : forward[h] = NoHandle) /\ ~Use("lock") =>
             /\ \A h \in Handle : forward'[h] = NoHandle
             /\ \/ snd'[t].st \notin {"grab", "push"} \/ ~Numbered(snd'[t].m)
                \/ /\ snd[t].st \in {"grab", "push"} /\ snd'[t].m = snd[t].m
                   /\ session' = session /\ \A h \in Handle : InCode(t, h) => InCode(t, h)'
                \/ \E h \in Handle : /\ snd'[t].m.source = h /\ InCode(t, h)'
                                     /\ session'[h] = session[h] + 1 /\ snd'[t].m.session = session'[h]
      <3>1. snd[t].st = "none" /\ cur[t] \in Handle /\ forward' = [forward EXCEPT ![cur[t]] = NoHandle]
        BY <1>0, <1>6 DEF CallbackEnd, Quiet, Shape, ThreadShape
      <3>2. forward[cur[t]] = NoHandle => snd' = snd
        BY <1>6 DEF CallbackEnd
      <3> QED BY <1>0, <3>1, <3>2 DEF ContextType
    <2> QED BY <2>1, <2>2, <2>3, <2>4, <2>5, KeepSenders
  <1>7. ASSUME NEW t \in Thread, DispatchRelease(t) PROVE Senders'
    <2>1. \A u \in Thread \ {t} : SameThread(u)
      BY <1>0, <1>7 DEF DispatchRelease, ThreadType, SameThread
    <2>2. left' = left \/ \E op \in Ops : Use(op)
      BY <1>7 DEF DispatchRelease, Ops
    <2>3. \A h \in Handle : Shrinks(queue[h], queue'[h])
      BY <1>7 DEF DispatchRelease, Shrinks
    <2>4. \A h \in Handle : session'[h] = session[h] \/ (InCode(t, h) /\ session'[h] = session[h] + 1)
      BY <1>7 DEF DispatchRelease
    <2>5. NoForward /\ ~Use("forward") /\ (\A h \in Handle : forward[h] = NoHandle) /\ ~Use("lock") =>
             /\ \A h \in Handle : forward'[h] = NoHandle
             /\ \/ snd'[t].st \notin {"grab", "push"} \/ ~Numbered(snd'[t].m)
                \/ /\ snd[t].st \in {"grab", "push"} /\ snd'[t].m = snd[t].m
                   /\ session' = session /\ \A h \in Handle : InCode(t, h) => InCode(t, h)'
                \/ \E h \in Handle : /\ snd'[t].m.source = h /\ InCode(t, h)'
                                     /\ session'[h] = session[h] + 1 /\ snd'[t].m.session = session'[h]
      BY <1>0, <1>7 DEF DispatchRelease, InCode, ThreadType, NoSend, NoMessage, Quiet, Order, ThreadOrder, Stage
    <2> QED BY <2>1, <2>2, <2>3, <2>4, <2>5, KeepSenders
  <1>8. ASSUME NEW t \in Thread, PushGlobal(t) PROVE Senders'
    <2>1. \A u \in Thread \ {t} : SameThread(u)
      BY <1>0, <1>8 DEF PushGlobal, ThreadType, SameThread
    <2>2. left' = left \/ \E op \in Ops : Use(op)
      BY <1>8 DEF PushGlobal, Ops
    <2>3. \A h \in Handle : Shrinks(queue[h], queue'[h])
      BY <1>8 DEF PushGlobal, Shrinks, MqPushGlobal
    <2>4. \A h \in Handle : session'[h] = session[h] \/ (InCode(t, h) /\ session'[h] = session[h] + 1)
      BY <1>8 DEF PushGlobal
    <2>5. NoForward /\ ~Use("forward") /\ (\A h \in Handle : forward[h] = NoHandle) /\ ~Use("lock") =>
             /\ \A h \in Handle : forward'[h] = NoHandle
             /\ \/ snd'[t].st \notin {"grab", "push"} \/ ~Numbered(snd'[t].m)
                \/ /\ snd[t].st \in {"grab", "push"} /\ snd'[t].m = snd[t].m
                   /\ session' = session /\ \A h \in Handle : InCode(t, h) => InCode(t, h)'
                \/ \E h \in Handle : /\ snd'[t].m.source = h /\ InCode(t, h)'
                                     /\ session'[h] = session[h] + 1 /\ snd'[t].m.session = session'[h]
      BY <1>0, <1>8 DEF PushGlobal, MqPushGlobal, InCode, ThreadType, NoSend, NoMessage, Quiet, Order, ThreadOrder, Stage
    <2> QED BY <2>1, <2>2, <2>3, <2>4, <2>5, KeepSenders
  <1>9. ASSUME NEW t \in Thread, SendGrab(t) PROVE Senders'
    <2>1. \A u \in Thread \ {t} : SameThread(u)
      BY <1>0, <1>9 DEF SendGrab, ThreadType, SameThread
    <2>2. left' = left \/ \E op \in Ops : Use(op)
      BY <1>9 DEF SendGrab, Ops
    <2>3. \A h \in Handle : Shrinks(queue[h], queue'[h])
      BY <1>9 DEF SendGrab, Shrinks
    <2>4. \A h \in Handle : session'[h] = session[h] \/ (InCode(t, h) /\ session'[h] = session[h] + 1)
      BY <1>9 DEF SendGrab
    <2>5. NoForward /\ ~Use("forward") /\ (\A h \in Handle : forward[h] = NoHandle) /\ ~Use("lock") =>
             /\ \A h \in Handle : forward'[h] = NoHandle
             /\ \/ snd'[t].st \notin {"grab", "push"} \/ ~Numbered(snd'[t].m)
                \/ /\ snd[t].st \in {"grab", "push"} /\ snd'[t].m = snd[t].m
                   /\ session' = session /\ \A h \in Handle : InCode(t, h) => InCode(t, h)'
                \/ \E h \in Handle : /\ snd'[t].m.source = h /\ InCode(t, h)'
                                     /\ session'[h] = session[h] + 1 /\ snd'[t].m.session = session'[h]
      <3>1. snd[t].st = "grab" /\ UNCHANGED <<session, forward, pc, cur, lau>>
        BY <1>9 DEF SendGrab
      <3>2. snd'[t].st = "none" \/ snd'[t].m = snd[t].m
        BY <1>0, <1>9 DEF SendGrab, ThreadType, NoSend
      <3> QED BY <3>1, <3>2 DEF InCode
    <2> QED BY <2>1, <2>2, <2>3, <2>4, <2>5, KeepSenders
  <1>10. ASSUME NEW t \in Thread, SendPush(t) PROVE Senders'
    BY <1>10, PushSenders
  <1>11. ASSUME NEW t \in Thread, MonitorEndless(t) PROVE Senders'
    <2>1. \A u \in Thread \ {t} : SameThread(u)
      BY <1>0, <1>11 DEF MonitorEndless, ThreadType, SameThread
    <2>2. left' = left \/ \E op \in Ops : Use(op)
      BY <1>11 DEF MonitorEndless, Ops
    <2>3. \A h \in Handle : Shrinks(queue[h], queue'[h])
      BY <1>11 DEF MonitorEndless, Shrinks
    <2>4. \A h \in Handle : session'[h] = session[h] \/ (InCode(t, h) /\ session'[h] = session[h] + 1)
      BY <1>11 DEF MonitorEndless
    <2>5. NoForward /\ ~Use("forward") /\ (\A h \in Handle : forward[h] = NoHandle) /\ ~Use("lock") =>
             /\ \A h \in Handle : forward'[h] = NoHandle
             /\ \/ snd'[t].st \notin {"grab", "push"} \/ ~Numbered(snd'[t].m)
                \/ /\ snd[t].st \in {"grab", "push"} /\ snd'[t].m = snd[t].m
                   /\ session' = session /\ \A h \in Handle : InCode(t, h) => InCode(t, h)'
                \/ \E h \in Handle : /\ snd'[t].m.source = h /\ InCode(t, h)'
                                     /\ session'[h] = session[h] + 1 /\ snd'[t].m.session = session'[h]
      BY <1>0, <1>11 DEF MonitorEndless, InCode, ThreadType, NoSend, NoMessage, Quiet, Order, ThreadOrder, Stage
    <2> QED BY <2>1, <2>2, <2>3, <2>4, <2>5, KeepSenders
  <1>12. ASSUME NEW t \in Thread, ReleaseDec(t) PROVE Senders'
    <2>1. \A u \in Thread \ {t} : SameThread(u)
      BY <1>0, <1>12 DEF ReleaseDec, ThreadType, SameThread
    <2>2. left' = left \/ \E op \in Ops : Use(op)
      BY <1>12 DEF ReleaseDec, Ops
    <2>3. \A h \in Handle : Shrinks(queue[h], queue'[h])
      BY <1>12 DEF ReleaseDec, Shrinks
    <2>4. \A h \in Handle : session'[h] = session[h] \/ (InCode(t, h) /\ session'[h] = session[h] + 1)
      BY <1>12 DEF ReleaseDec
    <2>5. NoForward /\ ~Use("forward") /\ (\A h \in Handle : forward[h] = NoHandle) /\ ~Use("lock") =>
             /\ \A h \in Handle : forward'[h] = NoHandle
             /\ \/ snd'[t].st \notin {"grab", "push"} \/ ~Numbered(snd'[t].m)
                \/ /\ snd[t].st \in {"grab", "push"} /\ snd'[t].m = snd[t].m
                   /\ session' = session /\ \A h \in Handle : InCode(t, h) => InCode(t, h)'
                \/ \E h \in Handle : /\ snd'[t].m.source = h /\ InCode(t, h)'
                                     /\ session'[h] = session[h] + 1 /\ snd'[t].m.session = session'[h]
      BY <1>0, <1>12 DEF ReleaseDec, InCode, ThreadType, NoSend, NoMessage, Quiet, Order, ThreadOrder, Stage
    <2> QED BY <2>1, <2>2, <2>3, <2>4, <2>5, KeepSenders
  <1>13. ASSUME NEW t \in Thread, ReleaseMark(t) PROVE Senders'
    <2>1. \A u \in Thread \ {t} : SameThread(u)
      BY <1>0, <1>13 DEF ReleaseMark, ThreadType, SameThread
    <2>2. left' = left \/ \E op \in Ops : Use(op)
      BY <1>13 DEF ReleaseMark, Ops
    <2>3. \A h \in Handle : Shrinks(queue[h], queue'[h])
      BY <1>13 DEF ReleaseMark, Shrinks
    <2>4. \A h \in Handle : session'[h] = session[h] \/ (InCode(t, h) /\ session'[h] = session[h] + 1)
      BY <1>13 DEF ReleaseMark
    <2>5. NoForward /\ ~Use("forward") /\ (\A h \in Handle : forward[h] = NoHandle) /\ ~Use("lock") =>
             /\ \A h \in Handle : forward'[h] = NoHandle
             /\ \/ snd'[t].st \notin {"grab", "push"} \/ ~Numbered(snd'[t].m)
                \/ /\ snd[t].st \in {"grab", "push"} /\ snd'[t].m = snd[t].m
                   /\ session' = session /\ \A h \in Handle : InCode(t, h) => InCode(t, h)'
                \/ \E h \in Handle : /\ snd'[t].m.source = h /\ InCode(t, h)'
                                     /\ session'[h] = session[h] + 1 /\ snd'[t].m.session = session'[h]
      BY <1>0, <1>13 DEF ReleaseMark, InCode, ThreadType, NoSend, NoMessage, Quiet, Order, ThreadOrder, Stage
    <2> QED BY <2>1, <2>2, <2>3, <2>4, <2>5, KeepSenders
  <1>14. ASSUME NEW t \in Thread, ReleaseFree(t) PROVE Senders'
    <2>1. \A u \in Thread \ {t} : SameThread(u)
      BY <1>0, <1>14 DEF ReleaseFree, ThreadType, SameThread
    <2>2. left' = left \/ \E op \in Ops : Use(op)
      BY <1>14 DEF ReleaseFree, Ops
    <2>3. \A h \in Handle : Shrinks(queue[h], queue'[h])
      BY <1>14 DEF ReleaseFree, Shrinks
    <2>4. \A h \in Handle : session'[h] = session[h] \/ (InCode(t, h) /\ session'[h] = session[h] + 1)
      BY <1>14 DEF ReleaseFree
    <2>5. NoForward /\ ~Use("forward") /\ (\A h \in Handle : forward[h] = NoHandle) /\ ~Use("lock") =>
             /\ \A h \in Handle : forward'[h] = NoHandle
             /\ \/ snd'[t].st \notin {"grab", "push"} \/ ~Numbered(snd'[t].m)
                \/ /\ snd[t].st \in {"grab", "push"} /\ snd'[t].m = snd[t].m
                   /\ session' = session /\ \A h \in Handle : InCode(t, h) => InCode(t, h)'
                \/ \E h \in Handle : /\ snd'[t].m.source = h /\ InCode(t, h)'
                                     /\ session'[h] = session[h] + 1 /\ snd'[t].m.session = session'[h]
      BY <1>0, <1>14 DEF ReleaseFree, InCode, ThreadType, NoSend, NoMessage, Quiet, Order, ThreadOrder, Stage
    <2> QED BY <2>1, <2>2, <2>3, <2>4, <2>5, KeepSenders
  <1>15. ASSUME NEW t \in Thread, InitReturn(t) PROVE Senders'
    <2>1. \A u \in Thread \ {t} : SameThread(u)
      BY <1>0, <1>15 DEF InitReturn, ThreadType, SameThread
    <2>2. left' = left \/ \E op \in Ops : Use(op)
      BY <1>15 DEF InitReturn, Ops
    <2>3. \A h \in Handle : Shrinks(queue[h], queue'[h])
      BY <1>15 DEF InitReturn, Shrinks
    <2>4. \A h \in Handle : session'[h] = session[h] \/ (InCode(t, h) /\ session'[h] = session[h] + 1)
      BY <1>15 DEF InitReturn
    <2>5. NoForward /\ ~Use("forward") /\ (\A h \in Handle : forward[h] = NoHandle) /\ ~Use("lock") =>
             /\ \A h \in Handle : forward'[h] = NoHandle
             /\ \/ snd'[t].st \notin {"grab", "push"} \/ ~Numbered(snd'[t].m)
                \/ /\ snd[t].st \in {"grab", "push"} /\ snd'[t].m = snd[t].m
                   /\ session' = session /\ \A h \in Handle : InCode(t, h) => InCode(t, h)'
                \/ \E h \in Handle : /\ snd'[t].m.source = h /\ InCode(t, h)'
                                     /\ session'[h] = session[h] + 1 /\ snd'[t].m.session = session'[h]
      BY <1>0, <1>15 DEF InitReturn, InCode, ThreadType, NoSend, NoMessage, Quiet, Order, ThreadOrder, Stage
    <2> QED BY <2>1, <2>2, <2>3, <2>4, <2>5, KeepSenders
  <1>16. ASSUME NEW t \in Thread, LaunchInited(t) PROVE Senders'
    <2>1. \A u \in Thread \ {t} : SameThread(u)
      BY <1>0, <1>16 DEF LaunchInited, ThreadType, SameThread
    <2>2. left' = left \/ \E op \in Ops : Use(op)
      BY <1>16 DEF LaunchInited, Ops
    <2>3. \A h \in Handle : Shrinks(queue[h], queue'[h])
      BY <1>16 DEF LaunchInited, Shrinks
    <2>4. \A h \in Handle : session'[h] = session[h] \/ (InCode(t, h) /\ session'[h] = session[h] + 1)
      BY <1>16 DEF LaunchInited
    <2>5. NoForward /\ ~Use("forward") /\ (\A h \in Handle : forward[h] = NoHandle) /\ ~Use("lock") =>
             /\ \A h \in Handle : forward'[h] = NoHandle
             /\ \/ snd'[t].st \notin {"grab", "push"} \/ ~Numbered(snd'[t].m)
                \/ /\ snd[t].st \in {"grab", "push"} /\ snd'[t].m = snd[t].m
                   /\ session' = session /\ \A h \in Handle : InCode(t, h) => InCode(t, h)'
                \/ \E h \in Handle : /\ snd'[t].m.source = h /\ InCode(t, h)'
                                     /\ session'[h] = session[h] + 1 /\ snd'[t].m.session = session'[h]
      BY <1>0, <1>16 DEF LaunchInited, InCode, ThreadType, NoSend, NoMessage, Quiet, Order, ThreadOrder, Stage
    <2> QED BY <2>1, <2>2, <2>3, <2>4, <2>5, KeepSenders
  <1>17. ASSUME NEW t \in Thread, LaunchPush(t) PROVE Senders'
    <2>1. \A u \in Thread \ {t} : SameThread(u)
      BY <1>0, <1>17 DEF LaunchPush, ThreadType, SameThread
    <2>2. left' = left \/ \E op \in Ops : Use(op)
      BY <1>17 DEF LaunchPush, Ops
    <2>3. \A h \in Handle : Shrinks(queue[h], queue'[h])
      BY <1>17 DEF LaunchPush, Shrinks
    <2>4. \A h \in Handle : session'[h] = session[h] \/ (InCode(t, h) /\ session'[h] = session[h] + 1)
      BY <1>17 DEF LaunchPush
    <2>5. NoForward /\ ~Use("forward") /\ (\A h \in Handle : forward[h] = NoHandle) /\ ~Use("lock") =>
             /\ \A h \in Handle : forward'[h] = NoHandle
             /\ \/ snd'[t].st \notin {"grab", "push"} \/ ~Numbered(snd'[t].m)
                \/ /\ snd[t].st \in {"grab", "push"} /\ snd'[t].m = snd[t].m
                   /\ session' = session /\ \A h \in Handle : InCode(t, h) => InCode(t, h)'
                \/ \E h \in Handle : /\ snd'[t].m.source = h /\ InCode(t, h)'
                                     /\ session'[h] = session[h] + 1 /\ snd'[t].m.session = session'[h]
      BY <1>0, <1>17 DEF LaunchPush, InCode, ThreadType, NoSend, NoMessage, Quiet, Order, ThreadOrder, Stage
    <2> QED BY <2>1, <2>2, <2>3, <2>4, <2>5, KeepSenders
  <1>18. ASSUME NEW t \in Thread, LaunchReturn(t) PROVE Senders'
    <2>1. \A u \in Thread \ {t} : SameThread(u)
      BY <1>0, <1>18 DEF LaunchReturn, ThreadType, SameThread
    <2>2. left' = left \/ \E op \in Ops : Use(op)
      BY <1>18 DEF LaunchReturn, Ops
    <2>3. \A h \in Handle : Shrinks(queue[h], queue'[h])
      BY <1>18 DEF LaunchReturn, Shrinks
    <2>4. \A h \in Handle : session'[h] = session[h] \/ (InCode(t, h) /\ session'[h] = session[h] + 1)
      BY <1>18 DEF LaunchReturn
    <2>5. NoForward /\ ~Use("forward") /\ (\A h \in Handle : forward[h] = NoHandle) /\ ~Use("lock") =>
             /\ \A h \in Handle : forward'[h] = NoHandle
             /\ \/ snd'[t].st \notin {"grab", "push"} \/ ~Numbered(snd'[t].m)
                \/ /\ snd[t].st \in {"grab", "push"} /\ snd'[t].m = snd[t].m
                   /\ session' = session /\ \A h \in Handle : InCode(t, h) => InCode(t, h)'
                \/ \E h \in Handle : /\ snd'[t].m.source = h /\ InCode(t, h)'
                                     /\ session'[h] = session[h] + 1 /\ snd'[t].m.session = session'[h]
      BY <1>0, <1>18 DEF LaunchReturn, InCode, ThreadType, NoSend, NoMessage, Quiet, Order, ThreadOrder, Stage
    <2> QED BY <2>1, <2>2, <2>3, <2>4, <2>5, KeepSenders
  <1>19. ASSUME NEW t \in Thread, LaunchRetire(t) PROVE Senders'
    <2>1. \A u \in Thread \ {t} : SameThread(u)
      BY <1>0, <1>19 DEF LaunchRetire, ThreadType, SameThread
    <2>2. left' = left \/ \E op \in Ops : Use(op)
      BY <1>19 DEF LaunchRetire, Ops
    <2>3. \A h \in Handle : Shrinks(queue[h], queue'[h])
      BY <1>19 DEF LaunchRetire, Shrinks, Retire
    <2>4. \A h \in Handle : session'[h] = session[h] \/ (InCode(t, h) /\ session'[h] = session[h] + 1)
      BY <1>19 DEF LaunchRetire
    <2>5. NoForward /\ ~Use("forward") /\ (\A h \in Handle : forward[h] = NoHandle) /\ ~Use("lock") =>
             /\ \A h \in Handle : forward'[h] = NoHandle
             /\ \/ snd'[t].st \notin {"grab", "push"} \/ ~Numbered(snd'[t].m)
                \/ /\ snd[t].st \in {"grab", "push"} /\ snd'[t].m = snd[t].m
                   /\ session' = session /\ \A h \in Handle : InCode(t, h) => InCode(t, h)'
                \/ \E h \in Handle : /\ snd'[t].m.source = h /\ InCode(t, h)'
                                     /\ session'[h] = session[h] + 1 /\ snd'[t].m.session = session'[h]
      BY <1>0, <1>19 DEF LaunchRetire, InCode, ThreadType, NoSend, NoMessage, Quiet, Order, ThreadOrder, Stage
    <2> QED BY <2>1, <2>2, <2>3, <2>4, <2>5, KeepSenders
  <1>20. ASSUME NEW t \in Thread, LaunchDrop(t) PROVE Senders'
    <2>1. \A u \in Thread \ {t} : SameThread(u)
      BY <1>0, <1>20 DEF LaunchDrop, ThreadType, SameThread
    <2>2. left' = left \/ \E op \in Ops : Use(op)
      BY <1>20 DEF LaunchDrop, Ops
    <2>3. \A h \in Handle : Shrinks(queue[h], queue'[h])
      BY <1>0, <1>20 DEF LaunchDrop, MqRelease, Shrinks, QueueType
    <2>4. \A h \in Handle : session'[h] = session[h] \/ (InCode(t, h) /\ session'[h] = session[h] + 1)
      BY <1>20 DEF LaunchDrop
    <2>5. NoForward /\ ~Use("forward") /\ (\A h \in Handle : forward[h] = NoHandle) /\ ~Use("lock") =>
             /\ \A h \in Handle : forward'[h] = NoHandle
             /\ \/ snd'[t].st \notin {"grab", "push"} \/ ~Numbered(snd'[t].m)
                \/ /\ snd[t].st \in {"grab", "push"} /\ snd'[t].m = snd[t].m
                   /\ session' = session /\ \A h \in Handle : InCode(t, h) => InCode(t, h)'
                \/ \E h \in Handle : /\ snd'[t].m.source = h /\ InCode(t, h)'
                                     /\ session'[h] = session[h] + 1 /\ snd'[t].m.session = session'[h]
      BY <1>0, <1>20 DEF LaunchDrop, InCode, ThreadType, NoSend, NoMessage, Quiet, Order, ThreadOrder, Stage
    <2> QED BY <2>1, <2>2, <2>3, <2>4, <2>5, KeepSenders
  <1>21. ASSUME NEW t \in Thread, Request(t) PROVE Senders'
    <2>1. \A u \in Thread \ {t} : SameThread(u)
      BY <1>0, <1>21 DEF Request, ThreadType, SameThread
    <2>2. left' = left \/ \E op \in Ops : Use(op)
      BY <1>21 DEF Request, Ops
    <2>3. \A h \in Handle : Shrinks(queue[h], queue'[h])
      BY <1>21 DEF Request, Shrinks
    <2>4. \A h \in Handle : session'[h] = session[h] \/ (InCode(t, h) /\ session'[h] = session[h] + 1)
      BY <1>0, <1>21, ServiceCode DEF Request, ContextType
    <2>5. NoForward /\ ~Use("forward") /\ (\A h \in Handle : forward[h] = NoHandle) /\ ~Use("lock") =>
             /\ \A h \in Handle : forward'[h] = NoHandle
             /\ \/ snd'[t].st \notin {"grab", "push"} \/ ~Numbered(snd'[t].m)
                \/ /\ snd[t].st \in {"grab", "push"} /\ snd'[t].m = snd[t].m
                   /\ session' = session /\ \A h \in Handle : InCode(t, h) => InCode(t, h)'
                \/ \E h \in Handle : /\ snd'[t].m.source = h /\ InCode(t, h)'
                                     /\ session'[h] = session[h] + 1 /\ snd'[t].m.session = session'[h]
      <3>1. PICK h \in Handle, d \in Known, call \in BOOLEAN :
              /\ InService(t, h)
              /\ session' = [session EXCEPT ![h] = IF call THEN session[h] + 1 ELSE @]
              /\ snd' = [snd EXCEPT ![t] = Sending(d, [kind |-> "request", session |-> IF call THEN session[h] + 1 ELSE 0, source |-> h])]
              /\ UNCHANGED <<forward, pc, cur, lau>>
        BY <1>21 DEF Request
      <3>a. snd'[t].m = [kind |-> "request", session |-> IF call THEN session[h] + 1 ELSE 0, source |-> h]
        BY <1>0, <3>1 DEF Sending, ThreadType
      <3>2. InCode(t, h)'
        BY <3>1, ServiceCode DEF InCode
      <3>3. CASE call
        BY <1>0, <3>1, <3>a, <3>2, <3>3 DEF ContextType
      <3>4. CASE ~call
        <4>1. snd'[t].m.session = 0
          BY <3>a, <3>4
        <4>2. ~Numbered(snd'[t].m)
          BY <4>1 DEF Numbered
        <4> QED BY <3>1, <4>2
      <3> QED BY <3>3, <3>4
    <2> QED BY <2>1, <2>2, <2>3, <2>4, <2>5, KeepSenders
  <1>22. ASSUME NEW t \in Thread, Respond(t) PROVE Senders'
    <2>1. \A u \in Thread \ {t} : SameThread(u)
      BY <1>0, <1>22 DEF Respond, ThreadType, SameThread
    <2>2. left' = left \/ \E op \in Ops : Use(op)
      BY <1>22 DEF Respond, Ops
    <2>3. \A h \in Handle : Shrinks(queue[h], queue'[h])
      BY <1>22 DEF Respond, Shrinks
    <2>4. \A h \in Handle : session'[h] = session[h] \/ (InCode(t, h) /\ session'[h] = session[h] + 1)
      BY <1>22 DEF Respond
    <2>5. NoForward /\ ~Use("forward") /\ (\A h \in Handle : forward[h] = NoHandle) /\ ~Use("lock") =>
             /\ \A h \in Handle : forward'[h] = NoHandle
             /\ \/ snd'[t].st \notin {"grab", "push"} \/ ~Numbered(snd'[t].m)
                \/ /\ snd[t].st \in {"grab", "push"} /\ snd'[t].m = snd[t].m
                   /\ session' = session /\ \A h \in Handle : InCode(t, h) => InCode(t, h)'
                \/ \E h \in Handle : /\ snd'[t].m.source = h /\ InCode(t, h)'
                                     /\ session'[h] = session[h] + 1 /\ snd'[t].m.session = session'[h]
      BY <1>0, <1>22 DEF Respond, Sending, Numbered, InCode, ThreadType, NoSend, NoMessage, Quiet, Order, ThreadOrder, Stage
    <2> QED BY <2>1, <2>2, <2>3, <2>4, <2>5, KeepSenders
  <1>23. ASSUME NEW t \in Thread, TimeoutNow(t) PROVE Senders'
    <2>1. \A u \in Thread \ {t} : SameThread(u)
      BY <1>0, <1>23 DEF TimeoutNow, ThreadType, SameThread
    <2>2. left' = left \/ \E op \in Ops : Use(op)
      BY <1>23 DEF TimeoutNow, Ops
    <2>3. \A h \in Handle : Shrinks(queue[h], queue'[h])
      BY <1>23 DEF TimeoutNow, Shrinks
    <2>4. \A h \in Handle : session'[h] = session[h] \/ (InCode(t, h) /\ session'[h] = session[h] + 1)
      BY <1>0, <1>23, ServiceCode DEF TimeoutNow, ContextType
    <2>5. NoForward /\ ~Use("forward") /\ (\A h \in Handle : forward[h] = NoHandle) /\ ~Use("lock") =>
             /\ \A h \in Handle : forward'[h] = NoHandle
             /\ \/ snd'[t].st \notin {"grab", "push"} \/ ~Numbered(snd'[t].m)
                \/ /\ snd[t].st \in {"grab", "push"} /\ snd'[t].m = snd[t].m
                   /\ session' = session /\ \A h \in Handle : InCode(t, h) => InCode(t, h)'
                \/ \E h \in Handle : /\ snd'[t].m.source = h /\ InCode(t, h)'
                                     /\ session'[h] = session[h] + 1 /\ snd'[t].m.session = session'[h]
      BY <1>0, <1>23 DEF TimeoutNow, Sending, Numbered, TimeoutMessage, InCode, ThreadType, NoSend, NoMessage, Quiet, Order, ThreadOrder, Stage
    <2> QED BY <2>1, <2>2, <2>3, <2>4, <2>5, KeepSenders
  <1>24. ASSUME NEW t \in Thread, TimeoutLater(t) PROVE Senders'
    <2>1. \A u \in Thread \ {t} : SameThread(u)
      BY <1>0, <1>24 DEF TimeoutLater, ThreadType, SameThread
    <2>2. left' = left \/ \E op \in Ops : Use(op)
      BY <1>24 DEF TimeoutLater, Ops
    <2>3. \A h \in Handle : Shrinks(queue[h], queue'[h])
      BY <1>24 DEF TimeoutLater, Shrinks
    <2>4. \A h \in Handle : session'[h] = session[h] \/ (InCode(t, h) /\ session'[h] = session[h] + 1)
      BY <1>0, <1>24, ServiceCode DEF TimeoutLater, ContextType
    <2>5. NoForward /\ ~Use("forward") /\ (\A h \in Handle : forward[h] = NoHandle) /\ ~Use("lock") =>
             /\ \A h \in Handle : forward'[h] = NoHandle
             /\ \/ snd'[t].st \notin {"grab", "push"} \/ ~Numbered(snd'[t].m)
                \/ /\ snd[t].st \in {"grab", "push"} /\ snd'[t].m = snd[t].m
                   /\ session' = session /\ \A h \in Handle : InCode(t, h) => InCode(t, h)'
                \/ \E h \in Handle : /\ snd'[t].m.source = h /\ InCode(t, h)'
                                     /\ session'[h] = session[h] + 1 /\ snd'[t].m.session = session'[h]
      <3>1. snd[t].st = "none"
        BY <1>24, ServiceCode DEF TimeoutLater
      <3> QED BY <1>24, <3>1 DEF TimeoutLater
    <2> QED BY <2>1, <2>2, <2>3, <2>4, <2>5, KeepSenders
  <1>25. ASSUME NEW t \in Thread, Forward(t) PROVE Senders'
    <2>1. \A u \in Thread \ {t} : SameThread(u)
      BY <1>0, <1>25 DEF Forward, ThreadType, SameThread
    <2>2. left' = left \/ \E op \in Ops : Use(op)
      BY <1>25 DEF Forward, Ops
    <2>3. \A h \in Handle : Shrinks(queue[h], queue'[h])
      BY <1>25 DEF Forward, Shrinks
    <2>4. \A h \in Handle : session'[h] = session[h] \/ (InCode(t, h) /\ session'[h] = session[h] + 1)
      BY <1>25 DEF Forward
    <2>5. NoForward /\ ~Use("forward") /\ (\A h \in Handle : forward[h] = NoHandle) /\ ~Use("lock") =>
             /\ \A h \in Handle : forward'[h] = NoHandle
             /\ \/ snd'[t].st \notin {"grab", "push"} \/ ~Numbered(snd'[t].m)
                \/ /\ snd[t].st \in {"grab", "push"} /\ snd'[t].m = snd[t].m
                   /\ session' = session /\ \A h \in Handle : InCode(t, h) => InCode(t, h)'
                \/ \E h \in Handle : /\ snd'[t].m.source = h /\ InCode(t, h)'
                                     /\ session'[h] = session[h] + 1 /\ snd'[t].m.session = session'[h]
      BY <1>25 DEF Forward
    <2> QED BY <2>1, <2>2, <2>3, <2>4, <2>5, KeepSenders
  <1>26. ASSUME NEW t \in Thread, Kill(t) PROVE Senders'
    <2>1. \A u \in Thread \ {t} : SameThread(u)
      BY <1>0, <1>26 DEF Kill, ThreadType, SameThread
    <2>2. left' = left \/ \E op \in Ops : Use(op)
      BY <1>26 DEF Kill, Ops
    <2>3. \A h \in Handle : Shrinks(queue[h], queue'[h])
      BY <1>26 DEF Kill, Shrinks, Retire
    <2>4. \A h \in Handle : session'[h] = session[h] \/ (InCode(t, h) /\ session'[h] = session[h] + 1)
      BY <1>26 DEF Kill
    <2>5. NoForward /\ ~Use("forward") /\ (\A h \in Handle : forward[h] = NoHandle) /\ ~Use("lock") =>
             /\ \A h \in Handle : forward'[h] = NoHandle
             /\ \/ snd'[t].st \notin {"grab", "push"} \/ ~Numbered(snd'[t].m)
                \/ /\ snd[t].st \in {"grab", "push"} /\ snd'[t].m = snd[t].m
                   /\ session' = session /\ \A h \in Handle : InCode(t, h) => InCode(t, h)'
                \/ \E h \in Handle : /\ snd'[t].m.source = h /\ InCode(t, h)'
                                     /\ session'[h] = session[h] + 1 /\ snd'[t].m.session = session'[h]
      <3>1. snd[t].st = "none"
        BY <1>26, ServiceCode DEF Kill
      <3> QED BY <1>26, <3>1 DEF Kill
    <2> QED BY <2>1, <2>2, <2>3, <2>4, <2>5, KeepSenders
  <1>27. ASSUME NEW t \in Thread, BlockCall(t) PROVE Senders'
    <2>1. Use("lock") /\ left \in [Ops -> Nat] /\ Budget
      BY <1>27 DEF BlockCall, OwnerInv, StandingInv, SchedulerInv, TokenInv, RefInv, TypeInv, TypeOK, RestType, Owners
    <2>2. ~NoLock'
      BY <2>1, LeftLess DEF Ops
    <2> QED BY <2>2 DEF Senders
  <1>28. ASSUME NEW t \in Thread, Launch(t) PROVE Senders'
    <2>1. \A u \in Thread \ {t} : SameThread(u)
      BY <1>0, <1>28 DEF Launch, ThreadType, SameThread
    <2>2. left' = left \/ \E op \in Ops : Use(op)
      BY <1>28 DEF Launch, Ops
    <2>3. \A h \in Handle : Shrinks(queue[h], queue'[h])
      BY <1>28 DEF Launch, Shrinks
    <2>4. \A h \in Handle : session'[h] = session[h] \/ (InCode(t, h) /\ session'[h] = session[h] + 1)
      BY <1>28 DEF Launch
    <2>5. NoForward /\ ~Use("forward") /\ (\A h \in Handle : forward[h] = NoHandle) /\ ~Use("lock") =>
             /\ \A h \in Handle : forward'[h] = NoHandle
             /\ \/ snd'[t].st \notin {"grab", "push"} \/ ~Numbered(snd'[t].m)
                \/ /\ snd[t].st \in {"grab", "push"} /\ snd'[t].m = snd[t].m
                   /\ session' = session /\ \A h \in Handle : InCode(t, h) => InCode(t, h)'
                \/ \E h \in Handle : /\ snd'[t].m.source = h /\ InCode(t, h)'
                                     /\ session'[h] = session[h] + 1 /\ snd'[t].m.session = session'[h]
      <3>1. snd[t].st = "none"
        BY <1>28, ServiceCode DEF Launch
      <3> QED BY <1>28, <3>1 DEF Launch
    <2> QED BY <2>1, <2>2, <2>3, <2>4, <2>5, KeepSenders
  <1>29. ASSUME NEW t \in Thread, TimerFire(t) PROVE Senders'
    <2>1. \A u \in Thread \ {t} : SameThread(u)
      BY <1>0, <1>29 DEF TimerFire, ThreadType, SameThread
    <2>2. left' = left \/ \E op \in Ops : Use(op)
      BY <1>29 DEF TimerFire, Ops
    <2>3. \A h \in Handle : Shrinks(queue[h], queue'[h])
      BY <1>29 DEF TimerFire, Shrinks
    <2>4. \A h \in Handle : session'[h] = session[h] \/ (InCode(t, h) /\ session'[h] = session[h] + 1)
      BY <1>29 DEF TimerFire
    <2>5. NoForward /\ ~Use("forward") /\ (\A h \in Handle : forward[h] = NoHandle) /\ ~Use("lock") =>
             /\ \A h \in Handle : forward'[h] = NoHandle
             /\ \/ snd'[t].st \notin {"grab", "push"} \/ ~Numbered(snd'[t].m)
                \/ /\ snd[t].st \in {"grab", "push"} /\ snd'[t].m = snd[t].m
                   /\ session' = session /\ \A h \in Handle : InCode(t, h) => InCode(t, h)'
                \/ \E h \in Handle : /\ snd'[t].m.source = h /\ InCode(t, h)'
                                     /\ session'[h] = session[h] + 1 /\ snd'[t].m.session = session'[h]
      BY <1>0, <1>29 DEF TimerFire, Sending, Numbered, TimeoutMessage, InCode, ThreadType, NoSend, NoMessage, Quiet, Order, ThreadOrder, Stage
    <2> QED BY <2>1, <2>2, <2>3, <2>4, <2>5, KeepSenders
  <1>30. ASSUME NEW t \in Thread, MonitorCheck(t) PROVE Senders'
    <2>1. \A u \in Thread \ {t} : SameThread(u)
      BY <1>0, <1>30 DEF MonitorCheck, ThreadType, SameThread
    <2>2. left' = left \/ \E op \in Ops : Use(op)
      BY <1>30 DEF MonitorCheck, Ops
    <2>3. \A h \in Handle : Shrinks(queue[h], queue'[h])
      BY <1>30 DEF MonitorCheck, Shrinks
    <2>4. \A h \in Handle : session'[h] = session[h] \/ (InCode(t, h) /\ session'[h] = session[h] + 1)
      BY <1>30 DEF MonitorCheck
    <2>5. NoForward /\ ~Use("forward") /\ (\A h \in Handle : forward[h] = NoHandle) /\ ~Use("lock") =>
             /\ \A h \in Handle : forward'[h] = NoHandle
             /\ \/ snd'[t].st \notin {"grab", "push"} \/ ~Numbered(snd'[t].m)
                \/ /\ snd[t].st \in {"grab", "push"} /\ snd'[t].m = snd[t].m
                   /\ session' = session /\ \A h \in Handle : InCode(t, h) => InCode(t, h)'
                \/ \E h \in Handle : /\ snd'[t].m.source = h /\ InCode(t, h)'
                                     /\ session'[h] = session[h] + 1 /\ snd'[t].m.session = session'[h]
      BY <1>0, <1>30 DEF MonitorCheck, InCode, ThreadType, NoSend, NoMessage, Quiet, Order, ThreadOrder, Stage
    <2> QED BY <2>1, <2>2, <2>3, <2>4, <2>5, KeepSenders
  <1>31. ASSUME UNCHANGED <<ctxVars, mqVars, threadVars, left>> PROVE Senders'
    BY <1>31 DEF Senders, NoLock, NoForward, Sent, InOrder, Newest, Numbered, InCode
  <1>32. ASSUME NEW t \in Thread, Crash(t) PROVE UNCHANGED <<ctxVars, mqVars, threadVars, left>>
    BY <1>32 DEF Crash, UseFreedQueue, UseFreedContext, AssertForcePush, AssertLock
  <1>33. CASE \E t \in Thread : Progress(t)
    BY <1>33, <1>1, <1>2, <1>3, <1>4, <1>5, <1>6, <1>7, <1>8, <1>9, <1>10, <1>11, <1>12, <1>13, <1>14, <1>15, <1>16, <1>17, <1>18, <1>19, <1>20 DEF Progress
  <1>34. CASE \E t \in Thread : Operation(t)
    BY <1>34, <1>21, <1>22, <1>23, <1>24, <1>25, <1>26, <1>27, <1>28, <1>29, <1>30 DEF Operation
  <1> QED
    BY <1>31, <1>32, <1>33, <1>34 DEF Next

(* Requests of one service to another are dispatched in the order in which *)
(* they were sent: skynet_mq_push appends, and a service has sent its      *)
(* previous request when it sends the next one.                            *)
THEOREM SentInOrder == Spec => []FifoPerSender
  <1>1. Init => Senders
    BY DEF Init, Senders, Sent, InOrder, Newest, Numbered, TimeoutMessage, NoSend
  <1>2. Senders => FifoPerSender
    BY DEF Senders, InOrder, FifoPerSender
  <1>3. OwnerInv /\ Senders /\ [Next]_vars => Senders'
    BY StepSenders
  <1> QED BY <1>1, <1>2, <1>3, OwnersRight, PTL DEF Spec

-----------------------------------------------------------------------------
(* The scheduler implements the mailboxes of module ActorMailbox.          *)

MailboxStep == [\E h \in Handle : Actor!Step(h)]_(Actor!vars)

(* The worker that has grabbed a service, or runs its callback, is the     *)
(* only one that has its queue.                                            *)
LEMMA OnlyWorker ==
    ASSUME TokenInv, NEW h \in Handle, NEW t \in Thread, Pops(t, h) \/ Calls(t, h)
    PROVE  \A u \in Thread : Works(u, h) => u = t
  <1>1. ref[h] > 0 /\ Works(t, h)
    BY HeldPositive DEF TokenInv, RefInv, Pops, Calls, Works
  <1>2. OneToken(h)
    BY <1>1 DEF TokenInv, Tokens, TokenAt
  <1> QED BY <1>1, <1>2 DEF OneToken

(* The message a service works on is the one that its worker has popped.   *)
LEMMA RunningIs ==
    TokenInv => \A t \in Thread, h \in Handle : Calls(t, h) => RunningMessage[h] = msg[t]
  <1> SUFFICES ASSUME TokenInv, NEW t \in Thread, NEW h \in Handle, Calls(t, h)
               PROVE  RunningMessage[h] = msg[t]
    OBVIOUS
  <1>1. \A u \in Thread : Calls(u, h) => u = t
    BY OnlyWorker DEF Calls, Works
  <1>2. (CHOOSE u \in Thread : Calls(u, h)) = t
    BY <1>1
  <1> QED BY <1>2 DEF RunningMessage

LEMMA RunningIsNext ==
    TokenInv' => (\A t \in Thread, h \in Handle : Calls(t, h) => RunningMessage[h] = msg[t])'
  BY RunningIs, PTL

(* A service that no worker runs works on nothing.                         *)
LEMMA RunningNone ==
    \A h \in Handle : (\A t \in Thread : ~Calls(t, h)) => RunningMessage[h] = NoMessage
  BY DEF RunningMessage

LEMMA RunningNoneNext ==
    (\A h \in Handle : (\A t \in Thread : ~Calls(t, h)) => RunningMessage[h] = NoMessage)'
  BY RunningNone, PTL

(* The running messages after a step of thread t.                          *)
LEMMA RunningAfter ==
    ASSUME TokenInv, TokenInv', NEW t \in Thread, NEW h \in Handle,
           \A u \in Thread \ {t} : SameThread(u) /\ msg'[u] = msg[u],
           Calls(t, h)' <=> Calls(t, h), Calls(t, h) => msg'[t] = msg[t]
    PROVE  RunningMessage'[h] = RunningMessage[h]
  <1>1. \A u \in Thread : (Calls(u, h)' <=> Calls(u, h)) /\ (Calls(u, h) => msg'[u] = msg[u])
    BY DEF Calls, SameThread
  <1>2. CASE \E u \in Thread : Calls(u, h)
    <2>1. PICK u \in Thread : Calls(u, h)
      BY <1>2
    <2>2. Calls(u, h)' /\ msg'[u] = msg[u]
      BY <1>1, <2>1
    <2>3. RunningMessage'[h] = msg'[u]
      BY <2>2, RunningIsNext
    <2> QED BY <2>1, <2>2, <2>3, RunningIs
  <1>3. CASE \A u \in Thread : ~Calls(u, h)
    <2>1. RunningMessage'[h] = NoMessage
      BY <1>1, <1>3, RunningNoneNext
    <2> QED BY <1>3, <2>1, RunningNone
  <1> QED BY <1>2, <1>3

(* A step of thread t that does not take up or end a message.              *)
LEMMA SameRunning ==
    ASSUME TokenInv, TokenInv', NEW t \in Thread,
           \A u \in Thread \ {t} : SameThread(u) /\ msg'[u] = msg[u],
           \A h \in Handle : (Calls(t, h)' <=> Calls(t, h)) /\ (Calls(t, h) => msg'[t] = msg[t])
    PROVE  RunningMessage' = RunningMessage
  <1>1. \A h \in Handle : RunningMessage'[h] = RunningMessage[h]
    BY RunningAfter
  <1> QED BY <1>1 DEF RunningMessage

(* The claimed services after a step of thread t.                          *)
LEMMA ClaimedAfter ==
    ASSUME NEW t \in Thread, \A u \in Thread \ {t} : SameThread(u), NEW h \in Handle,
           Pops(t, h)' <=> Pops(t, h)
    PROVE  h \in Claimed' <=> h \in Claimed
  <1>1. \A u \in Thread : Pops(u, h)' <=> Pops(u, h)
    BY DEF Pops, SameThread
  <1> QED BY <1>1 DEF Claimed

LEMMA SameClaimed ==
    ASSUME NEW t \in Thread, \A u \in Thread \ {t} : SameThread(u),
           \A h \in Handle : Pops(t, h)' <=> Pops(t, h)
    PROVE  Claimed' = Claimed
  <1>1. \A h \in Handle : h \in Claimed' <=> h \in Claimed
    BY ClaimedAfter
  <1> QED BY <1>1 DEF Claimed

LEMMA SameState ==
    ASSUME UNCHANGED <<inited, qfreed>>, \A h \in Handle : ctx'[h] = "none" <=> ctx[h] = "none"
    PROVE  MailboxState' = MailboxState
  <1>1. \A h \in Handle : MailboxState'[h] = MailboxState[h]
    BY DEF MailboxState
  <1> QED BY <1>1 DEF MailboxState

(* A step of thread t that neither takes up nor ends a message leaves      *)
(* those that the mailboxes show of the threads alone.                     *)
LEMMA SameThreads ==
    ASSUME TokenInv, TokenInv', NEW t \in Thread,
           \A u \in Thread \ {t} : SameThread(u) /\ msg'[u] = msg[u],
           \A h \in Handle : /\ Pops(t, h)' <=> Pops(t, h)
                             /\ Calls(t, h)' <=> Calls(t, h)
                             /\ Calls(t, h) => msg'[t] = msg[t]
    PROVE  UNCHANGED <<Claimed, RunningMessage>>
  BY SameRunning, SameClaimed

(* skynet_mq_release of a retired service's queue discards its mailbox, or *)
(* puts the queue back.                                                    *)
LEMMA ReleaseMailbox ==
    ASSUME StandingInv, NEW h \in Handle, h \notin qfreed, MqRelease(h), ctx[h] # "none",
           UNCHANGED <<slot, ctx, inited, Claimed, RunningMessage>>
    PROVE  MailboxStep
  <1> USE DEF StandingInv, SchedulerInv, TokenInv, RefInv, TypeInv, TypeOK
  <1>1. CASE ~release[h]
    <2>1. UNCHANGED mqVars
      BY <1>1 DEF MqRelease
    <2>2. MailboxState' = MailboxState
      BY <2>1, SameState DEF mqVars
    <2> QED BY <2>1, <2>2 DEF mqVars, MailboxStep, Actor!vars
  <1>2. CASE release[h]
    <2>1. queue' = [queue EXCEPT ![h] = <<>>] /\ qfreed' = qfreed \cup {h} /\ lockSession' = lockSession
      BY <1>2 DEF MqRelease
    <2>2. ref[h] = 0
      BY <1>2 DEF Deletion, DeletedOnce
    <2>3. h \notin slot /\ \A t \in Thread : ~Pops(t, h) /\ ~Calls(t, h)
      BY <2>2, HeldPositive DEF Pops, Calls
    <2>4. h \notin Claimed /\ RunningMessage[h] = NoMessage
      BY <2>3, RunningNone DEF Claimed
    <2>5. MailboxState[h] \in {"starting", "ready"}
      BY DEF MailboxState
    <2>6. MailboxState' = [MailboxState EXCEPT ![h] = "gone"]
      <3>1. \A x \in Handle : MailboxState'[x] = IF x = h THEN "gone" ELSE MailboxState[x]
        BY <2>1 DEF MailboxState
      <3> QED BY <3>1 DEF MailboxState
    <2>7. Actor!Discard(h)
      BY <2>1, <2>3, <2>4, <2>5, <2>6 DEF Actor!Discard
    <2> QED BY <2>7 DEF MailboxStep, Actor!Step
  <1> QED BY <1>1, <1>2

(* skynet_handle_retire retires a service.                                 *)
LEMMA RetireMailbox ==
    ASSUME StandingInv, NEW h \in Handle, Retire(h),
           UNCHANGED <<queue, lockSession, qfreed, inited, Claimed, RunningMessage>>
    PROVE  MailboxStep
  <1>1. slot' = slot \ {h} /\ \A x \in Handle : ctx'[x] = "none" <=> ctx[x] = "none"
    BY RetireEffect DEF StandingInv, SchedulerInv, TokenInv
  <1>2. MailboxState' = MailboxState
    BY <1>1, SameState
  <1>3. CASE h \in slot
    <2>1. Actor!RetireService(h)
      BY <1>1, <1>2, <1>3 DEF Actor!RetireService
    <2> QED BY <2>1 DEF MailboxStep, Actor!Step
  <1>4. CASE h \notin slot
    <2>1. slot' = slot
      BY <1>1, <1>4
    <2> QED BY <1>2, <2>1 DEF MailboxStep, Actor!vars
  <1> QED BY <1>3, <1>4

(* Every step of the scheduler is a step of the mailboxes, or none.        *)
LEMMA StepMailbox == StandingInv /\ StandingInv' /\ [Next]_vars => MailboxStep
  <1> SUFFICES ASSUME StandingInv, StandingInv', [Next]_vars PROVE MailboxStep
    OBVIOUS
  <1>0. TokenInv /\ TokenInv'
    BY DEF StandingInv, SchedulerInv
  <1>a. /\ ContextType /\ QueueType /\ ThreadType /\ Shape /\ Order
        /\ RefCount /\ Deletion /\ Fresh /\ Tokens /\ Wakeups /\ Standing
    BY DEF StandingInv, SchedulerInv, TokenInv, RefInv, TypeInv, TypeOK
  <1> USE DEF vars, ctxVars, mqVars, threadVars
  <1>1. ASSUME NEW t \in Thread, GlobalPop(t) PROVE MailboxStep
    <2>1. \A u \in Thread \ {t} : SameThread(u) /\ msg'[u] = msg[u]
      BY <1>a, <1>1 DEF GlobalPop, ThreadType, SameThread
    <2>2. UNCHANGED <<Claimed, RunningMessage>>
      <3>1. \A h \in Handle : /\ Pops(t, h)' <=> Pops(t, h)
                              /\ Calls(t, h)' <=> Calls(t, h)
                              /\ Calls(t, h) => msg'[t] = msg[t]
        BY <1>a, <1>1 DEF GlobalPop, Pops, Calls, ThreadType
      <3> QED BY <1>0, <2>1, <3>1, SameThreads
    <2>3. \A h \in Handle : ctx'[h] = "none" <=> ctx[h] = "none"
      BY <1>1 DEF GlobalPop
    <2>4. UNCHANGED <<slot, inited, queue, lockSession, qfreed>>
      BY <1>1 DEF GlobalPop
    <2>5. MailboxState' = MailboxState
      BY <2>3, <2>4, SameState
    <2> QED BY <2>2, <2>4, <2>5 DEF MailboxStep, Actor!vars
  <1>2. ASSUME NEW t \in Thread, Grab(t) PROVE MailboxStep
    <2>1. \A u \in Thread \ {t} : SameThread(u) /\ msg'[u] = msg[u]
      BY <1>a, <1>2 DEF Grab, ThreadType, SameThread
    <2>2. CASE cur[t] \notin slot
      <3>1. \A h \in Handle : /\ Pops(t, h)' <=> Pops(t, h)
                              /\ Calls(t, h)' <=> Calls(t, h)
                              /\ Calls(t, h) => msg'[t] = msg[t]
        BY <1>a, <1>2, <2>2 DEF Grab, Pops, Calls, ThreadType
      <3>2. UNCHANGED <<Claimed, RunningMessage>>
        BY <1>0, <2>1, <3>1, SameThreads
      <3>3. MailboxState' = MailboxState
        BY <1>2, SameState DEF Grab
      <3> QED BY <1>2, <3>2, <3>3 DEF Grab, MailboxStep, Actor!vars
    <2>3. CASE cur[t] \in slot
      <3>1. PICK h \in Handle : h = cur[t]
        BY <1>a, <1>2 DEF Grab, Shape, ThreadShape
      <3>2. /\ pc[t] = "grab" /\ h \in slot /\ pc' = [pc EXCEPT ![t] = "mqpop"]
            /\ UNCHANGED <<slot, ctx, inited, mqVars, cur, msg>>
        BY <1>2, <2>3, <3>1 DEF Grab
      <3>3. ref[h] > 0 /\ Works(t, h)
        BY <1>a, <3>1, <3>2, HeldPositive DEF Works
      <3>4. lockSession[h] = 0 /\ \A u \in Thread : ~Pops(u, h) /\ ~Calls(u, h)
        BY <1>a, <3>2, <3>3 DEF Tokens, TokenAt, OneToken, Locked, Works, Pops, Calls
      <3>5. h \notin Claimed /\ RunningMessage[h] = NoMessage
        BY <3>4, RunningNone DEF Claimed
      <3>6. RunningMessage' = RunningMessage
        <4>1. \A x \in Handle : (Calls(t, x)' <=> Calls(t, x)) /\ (Calls(t, x) => msg'[t] = msg[t])
          BY <1>a, <3>2 DEF Calls, ThreadType
        <4> QED BY <1>0, <2>1, <4>1, SameRunning
      <3>7. Claimed' = Claimed \cup {h}
        <4>1. ASSUME NEW x \in Handle PROVE x \in Claimed' <=> x \in Claimed \/ x = h
          <5>1. CASE x = h
            <6>1. Pops(t, h)'
              BY <1>a, <3>1, <3>2 DEF Pops, ThreadType
            <6> QED BY <5>1, <6>1 DEF Claimed
          <5>2. CASE x # h
            <6>1. Pops(t, x)' <=> Pops(t, x)
              BY <1>a, <3>1, <3>2, <5>2 DEF Pops, ThreadType
            <6> QED BY <2>1, <5>2, <6>1, ClaimedAfter
          <5> QED BY <5>1, <5>2
        <4> QED BY <4>1 DEF Claimed
      <3>8. MailboxState' = MailboxState
        BY <3>2, SameState
      <3>9. Actor!Claim(h)
        BY <3>2, <3>4, <3>5, <3>6, <3>7, <3>8 DEF Actor!Claim
      <3> QED BY <3>9 DEF MailboxStep, Actor!Step
    <2> QED BY <2>2, <2>3
  <1>3. ASSUME NEW t \in Thread, DropQueue(t) PROVE MailboxStep
    <2>1. \A u \in Thread \ {t} : SameThread(u) /\ msg'[u] = msg[u]
      BY <1>a, <1>3 DEF DropQueue, ThreadType, SameThread
    <2>2. UNCHANGED <<Claimed, RunningMessage>>
      <3>1. \A h \in Handle : /\ Pops(t, h)' <=> Pops(t, h)
                              /\ Calls(t, h)' <=> Calls(t, h)
                              /\ Calls(t, h) => msg'[t] = msg[t]
        BY <1>a, <1>3 DEF DropQueue, Pops, Calls, ThreadType, NoLaunch
      <3> QED BY <1>0, <2>1, <3>1, SameThreads
    <2>3. PICK h \in Handle : h = cur[t]
      BY <1>a, <1>3 DEF DropQueue, Shape, ThreadShape
    <2>4. h \notin qfreed /\ MqRelease(h) /\ UNCHANGED <<slot, ctx, inited>>
      BY <1>3, <2>3 DEF DropQueue
    <2>5. ctx[h] # "none"
      BY <1>a, <1>3, <2>3 DEF DropQueue, Fresh, Unused, Involves
    <2> QED BY <2>2, <2>4, <2>5, ReleaseMailbox
  <1>4. ASSUME NEW t \in Thread, PopEmpty(t) PROVE MailboxStep
    <2>1. \A u \in Thread \ {t} : SameThread(u) /\ msg'[u] = msg[u]
      BY <1>a, <1>4 DEF PopEmpty, ThreadType, SameThread
    <2>2. PICK h \in Handle : h = cur[t]
      BY <1>a, <1>4 DEF PopEmpty, Shape, ThreadShape
    <2>3. Pops(t, h)
      BY <1>4, <2>2 DEF PopEmpty, Pops
    <2>4. /\ queue[h] = <<>> /\ pc' = [pc EXCEPT ![t] = "idle"]
          /\ UNCHANGED <<slot, ctx, inited, queue, lockSession, qfreed, msg>>
      BY <1>4, <2>2 DEF PopEmpty
    <2>5. RunningMessage' = RunningMessage
      <3>1. \A x \in Handle : (Calls(t, x)' <=> Calls(t, x)) /\ (Calls(t, x) => msg'[t] = msg[t])
        BY <1>a, <2>3, <2>4 DEF Pops, Calls, ThreadType
      <3> QED BY <1>0, <2>1, <3>1, SameRunning
    <2>6. Claimed' = Claimed \ {h}
      <3>1. ASSUME NEW x \in Handle PROVE x \in Claimed' <=> x \in Claimed /\ x # h
        <4>1. CASE x = h
          <5>1. \A u \in Thread : ~Pops(u, h)'
            BY <1>0, <1>a, <2>1, <2>4, <2>3, OnlyWorker DEF Pops, Works, SameThread, ThreadType
          <5> QED BY <4>1, <5>1 DEF Claimed
        <4>2. CASE x # h
          <5>1. Pops(t, x)' <=> Pops(t, x)
            BY <1>a, <2>3, <2>4, <4>2 DEF Pops, ThreadType
          <5> QED BY <2>1, <4>2, <5>1, ClaimedAfter
        <4> QED BY <4>1, <4>2
      <3> QED BY <3>1 DEF Claimed
    <2>7. MailboxState' = MailboxState
      BY <2>4, SameState
    <2>8. Actor!Idle(h)
      BY <2>3, <2>4, <2>5, <2>6, <2>7 DEF Actor!Idle, Claimed
    <2> QED BY <2>8 DEF MailboxStep, Actor!Step
  <1>5. ASSUME NEW t \in Thread, PopMessage(t) PROVE MailboxStep
    <2>1. \A u \in Thread \ {t} : SameThread(u) /\ msg'[u] = msg[u]
      BY <1>a, <1>5 DEF PopMessage, ThreadType, SameThread
    <2>2. PICK h \in Handle : h = cur[t]
      BY <1>a, <1>5 DEF PopMessage, Shape, ThreadShape
    <2>3. Pops(t, h) /\ h \in inited /\ h \notin qfreed
      BY <1>a, <1>5, <2>2 DEF PopMessage, Pops, Standing, Carried
    <2>4. /\ queue[h] # <<>> /\ queue' = [queue EXCEPT ![h] = Tail(@)]
          /\ msg' = [msg EXCEPT ![t] = Head(queue[h])] /\ pc' = [pc EXCEPT ![t] = "cb"]
          /\ UNCHANGED <<slot, ctx, inited, lockSession, qfreed, cur>>
      BY <1>5, <2>2 DEF PopMessage
    <2>5. RunningMessage' = [RunningMessage EXCEPT ![h] = Head(queue[h])]
      <3>1. ASSUME NEW x \in Handle PROVE RunningMessage'[x] = IF x = h THEN Head(queue[h]) ELSE RunningMessage[x]
        <4>1. CASE x = h
          <5>1. Calls(t, h)' /\ msg'[t] = Head(queue[h])
            BY <1>a, <2>3, <2>4 DEF Pops, Calls, ThreadType
          <5> QED BY <1>0, <4>1, <5>1, RunningIsNext
        <4>2. CASE x # h
          <5>1. (Calls(t, x)' <=> Calls(t, x)) /\ (Calls(t, x) => msg'[t] = msg[t])
            BY <1>a, <2>3, <2>4, <4>2 DEF Pops, Calls, ThreadType
          <5> QED BY <1>0, <2>1, <4>2, <5>1, RunningAfter
        <4> QED BY <4>1, <4>2
      <3> QED BY <3>1 DEF RunningMessage
    <2>6. Claimed' = Claimed \ {h}
      <3>1. ASSUME NEW x \in Handle PROVE x \in Claimed' <=> x \in Claimed /\ x # h
        <4>1. CASE x = h
          <5>1. \A u \in Thread : ~Pops(u, h)'
            BY <1>0, <1>a, <2>1, <2>4, <2>3, OnlyWorker DEF Pops, Works, SameThread, ThreadType
          <5> QED BY <4>1, <5>1 DEF Claimed
        <4>2. CASE x # h
          <5>1. Pops(t, x)' <=> Pops(t, x)
            BY <1>a, <2>3, <2>4, <4>2 DEF Pops, ThreadType
          <5> QED BY <2>1, <4>2, <5>1, ClaimedAfter
        <4> QED BY <4>1, <4>2
      <3> QED BY <3>1 DEF Claimed
    <2>7. MailboxState' = MailboxState /\ MailboxState[h] = "ready"
      BY <2>3, <2>4, SameState DEF MailboxState
    <2>8. Actor!Begin(h)
      BY <2>3, <2>4, <2>5, <2>6, <2>7 DEF Actor!Begin, Claimed
    <2> QED BY <2>8 DEF MailboxStep, Actor!Step
  <1>6. ASSUME NEW t \in Thread, CallbackEnd(t) PROVE MailboxStep
    <2>1. \A u \in Thread \ {t} : SameThread(u) /\ msg'[u] = msg[u]
      BY <1>a, <1>6 DEF CallbackEnd, ThreadType, SameThread
    <2>2. PICK h \in Handle : h = cur[t]
      BY <1>a, <1>6 DEF CallbackEnd, Shape, ThreadShape
    <2>3. Calls(t, h) /\ RunningMessage[h] = msg[t] /\ msg[t] # NoMessage
      <3>1. Calls(t, h) /\ msg[t] \in Message
        BY <1>a, <1>6, <2>2 DEF CallbackEnd, Calls, Shape, ThreadShape
      <3> QED BY <1>0, <3>1, RunningIs DEF Message, NoMessage
    <2>4. /\ pc' = [pc EXCEPT ![t] = "done"]
          /\ UNCHANGED <<slot, ctx, inited, mqVars, cur>>
      BY <1>6 DEF CallbackEnd
    <2>5. RunningMessage' = [RunningMessage EXCEPT ![h] = NoMessage]
      <3>1. ASSUME NEW x \in Handle PROVE RunningMessage'[x] = IF x = h THEN NoMessage ELSE RunningMessage[x]
        <4>1. CASE x = h
          <5>1. \A u \in Thread : ~Calls(u, h)'
            BY <1>0, <1>a, <2>1, <2>3, <2>4, OnlyWorker DEF Calls, Works, SameThread, ThreadType
          <5> QED BY <4>1, <5>1, RunningNoneNext
        <4>2. CASE x # h
          <5>1. (Calls(t, x)' <=> Calls(t, x)) /\ (Calls(t, x) => msg'[t] = msg[t])
            BY <1>a, <2>3, <2>4, <4>2 DEF Calls, ThreadType
          <5> QED BY <1>0, <2>1, <4>2, <5>1, RunningAfter
        <4> QED BY <4>1, <4>2
      <3> QED BY <3>1 DEF RunningMessage
    <2>6. Claimed' = Claimed
      <3>1. \A x \in Handle : Pops(t, x)' <=> Pops(t, x)
        BY <1>a, <2>3, <2>4 DEF Calls, Pops, ThreadType
      <3> QED BY <2>1, <3>1, SameClaimed
    <2>7. MailboxState' = MailboxState
      BY <2>4, SameState
    <2>8. Actor!End(h)
      BY <2>3, <2>4, <2>5, <2>6, <2>7 DEF Actor!End
    <2> QED BY <2>8 DEF MailboxStep, Actor!Step
  <1>7. ASSUME NEW t \in Thread, DispatchRelease(t) PROVE MailboxStep
    <2>1. \A u \in Thread \ {t} : SameThread(u) /\ msg'[u] = msg[u]
      BY <1>a, <1>7 DEF DispatchRelease, ThreadType, SameThread
    <2>2. UNCHANGED <<Claimed, RunningMessage>>
      <3>1. \A h \in Handle : /\ Pops(t, h)' <=> Pops(t, h)
                              /\ Calls(t, h)' <=> Calls(t, h)
                              /\ Calls(t, h) => msg'[t] = msg[t]
        BY <1>a, <1>7 DEF DispatchRelease, Pops, Calls, ThreadType
      <3> QED BY <1>0, <2>1, <3>1, SameThreads
    <2>3. \A h \in Handle : ctx'[h] = "none" <=> ctx[h] = "none"
      BY <1>7 DEF DispatchRelease
    <2>4. UNCHANGED <<slot, inited, queue, lockSession, qfreed>>
      BY <1>7 DEF DispatchRelease
    <2>5. MailboxState' = MailboxState
      BY <2>3, <2>4, SameState
    <2> QED BY <2>2, <2>4, <2>5 DEF MailboxStep, Actor!vars
  <1>8. ASSUME NEW t \in Thread, PushGlobal(t) PROVE MailboxStep
    <2>1. \A u \in Thread \ {t} : SameThread(u) /\ msg'[u] = msg[u]
      BY <1>a, <1>8 DEF PushGlobal, ThreadType, SameThread
    <2>2. UNCHANGED <<Claimed, RunningMessage>>
      <3>1. \A h \in Handle : /\ Pops(t, h)' <=> Pops(t, h)
                              /\ Calls(t, h)' <=> Calls(t, h)
                              /\ Calls(t, h) => msg'[t] = msg[t]
        BY <1>a, <1>8 DEF PushGlobal, Pops, Calls, ThreadType
      <3> QED BY <1>0, <2>1, <3>1, SameThreads
    <2>3. \A h \in Handle : ctx'[h] = "none" <=> ctx[h] = "none"
      BY <1>8 DEF PushGlobal
    <2>4. UNCHANGED <<slot, inited, queue, lockSession, qfreed>>
      BY <1>8 DEF PushGlobal, MqPushGlobal
    <2>5. MailboxState' = MailboxState
      BY <2>3, <2>4, SameState
    <2> QED BY <2>2, <2>4, <2>5 DEF MailboxStep, Actor!vars
  <1>9. ASSUME NEW t \in Thread, SendGrab(t) PROVE MailboxStep
    <2>1. \A u \in Thread \ {t} : SameThread(u) /\ msg'[u] = msg[u]
      BY <1>a, <1>9 DEF SendGrab, ThreadType, SameThread
    <2>2. UNCHANGED <<Claimed, RunningMessage>>
      <3>1. \A h \in Handle : /\ Pops(t, h)' <=> Pops(t, h)
                              /\ Calls(t, h)' <=> Calls(t, h)
                              /\ Calls(t, h) => msg'[t] = msg[t]
        BY <1>a, <1>9 DEF SendGrab, Pops, Calls, ThreadType
      <3> QED BY <1>0, <2>1, <3>1, SameThreads
    <2>3. \A h \in Handle : ctx'[h] = "none" <=> ctx[h] = "none"
      BY <1>9 DEF SendGrab
    <2>4. UNCHANGED <<slot, inited, queue, lockSession, qfreed>>
      BY <1>9 DEF SendGrab
    <2>5. MailboxState' = MailboxState
      BY <2>3, <2>4, SameState
    <2> QED BY <2>2, <2>4, <2>5 DEF MailboxStep, Actor!vars
  <1>10. ASSUME NEW t \in Thread, SendPush(t) PROVE MailboxStep
    <2>1. \A u \in Thread \ {t} : SameThread(u) /\ msg'[u] = msg[u]
      BY <1>a, <1>10 DEF SendPush, ThreadType, SameThread
    <2>2. UNCHANGED <<Claimed, RunningMessage>>
      <3>1. \A h \in Handle : /\ Pops(t, h)' <=> Pops(t, h)
                              /\ Calls(t, h)' <=> Calls(t, h)
                              /\ Calls(t, h) => msg'[t] = msg[t]
        BY <1>a, <1>10 DEF SendPush, Pops, Calls, ThreadType
      <3> QED BY <1>0, <2>1, <3>1, SameThreads
    <2>3. PICK d \in Handle : d = snd[t].des
      BY <1>a, <1>10 DEF SendPush, Shape, ThreadShape
    <2>4. PICK m \in Message : m = snd[t].m
      BY <1>a, <1>10 DEF SendPush, Shape, ThreadShape
    <2>5. snd[t].st = "push" /\ d \notin qfreed /\ MqPush(d, m) /\ UNCHANGED <<slot, ctx, inited, qfreed>>
      BY <1>10, <2>3, <2>4 DEF SendPush, MqPush
    <2>6. MailboxState' = MailboxState /\ MailboxState[d] \in {"starting", "ready"}
      <3>1. ref[d] > 0
        BY <1>a, <2>3, <2>5, HeldPositive
      <3>2. ctx[d] # "none"
        BY <1>a, <3>1 DEF Fresh, Unused
      <3> QED BY <2>5, <3>2, SameState DEF MailboxState
    <2>7. CASE Unlocks(d, m)
      <3>1. /\ queue' = [queue EXCEPT ![d] = <<m>> \o queue[d]]
            /\ lockSession' = [lockSession EXCEPT ![d] = 0]
        BY <2>5, <2>7 DEF MqPush, PushHead
      <3>2. queue[d] \in Seq(Message) /\ queue'[d] = <<m>> \o queue[d]
        BY <1>a, <3>1 DEF QueueType
      <3>3. queue'[d] # <<>> /\ Head(queue'[d]) = m /\ Tail(queue'[d]) = queue[d]
        BY <3>2
      <3>4. queue' = [queue EXCEPT ![d] = queue'[d]]
        BY <3>1, <3>2
      <3>5. Actor!Awaited(d, m)
        BY <2>7 DEF Unlocks, Actor!Awaited
      <3>6. Actor!Answer(d)
        BY <2>2, <2>5, <2>6, <3>1, <3>3, <3>4, <3>5 DEF Actor!Answer
      <3> QED BY <3>6 DEF MailboxStep, Actor!Step
    <2>8. CASE ~Unlocks(d, m)
      <3>1. queue' = [queue EXCEPT ![d] = Append(queue[d], m)] /\ lockSession' = lockSession
        BY <2>5, <2>8 DEF MqPush, PushTail
      <3>2. queue[d] \in Seq(Message) /\ queue'[d] = Append(queue[d], m)
        BY <1>a, <3>1 DEF QueueType
      <3>3. Len(queue'[d]) = Len(queue[d]) + 1 /\ queue'[d][Len(queue[d]) + 1] = m
        BY <3>2
      <3>4. ~Actor!Awaited(d, m)
        BY <2>8 DEF Unlocks, Actor!Awaited
      <3>5. Actor!Deliver(d)
        BY <2>2, <2>5, <2>6, <3>1, <3>3, <3>4 DEF Actor!Deliver
      <3> QED BY <3>5 DEF MailboxStep, Actor!Step
    <2> QED BY <2>7, <2>8
  <1>11. ASSUME NEW t \in Thread, MonitorEndless(t) PROVE MailboxStep
    <2>1. \A u \in Thread \ {t} : SameThread(u) /\ msg'[u] = msg[u]
      BY <1>a, <1>11 DEF MonitorEndless, ThreadType, SameThread
    <2>2. UNCHANGED <<Claimed, RunningMessage>>
      <3>1. \A h \in Handle : /\ Pops(t, h)' <=> Pops(t, h)
                              /\ Calls(t, h)' <=> Calls(t, h)
                              /\ Calls(t, h) => msg'[t] = msg[t]
        BY <1>a, <1>11 DEF MonitorEndless, Pops, Calls, ThreadType
      <3> QED BY <1>0, <2>1, <3>1, SameThreads
    <2>3. \A h \in Handle : ctx'[h] = "none" <=> ctx[h] = "none"
      BY <1>11 DEF MonitorEndless
    <2>4. UNCHANGED <<slot, inited, queue, lockSession, qfreed>>
      BY <1>11 DEF MonitorEndless
    <2>5. MailboxState' = MailboxState
      BY <2>3, <2>4, SameState
    <2> QED BY <2>2, <2>4, <2>5 DEF MailboxStep, Actor!vars
  <1>12. ASSUME NEW t \in Thread, ReleaseDec(t) PROVE MailboxStep
    <2>1. \A u \in Thread \ {t} : SameThread(u) /\ msg'[u] = msg[u]
      BY <1>a, <1>12 DEF ReleaseDec, ThreadType, SameThread
    <2>2. UNCHANGED <<Claimed, RunningMessage>>
      <3>1. \A h \in Handle : /\ Pops(t, h)' <=> Pops(t, h)
                              /\ Calls(t, h)' <=> Calls(t, h)
                              /\ Calls(t, h) => msg'[t] = msg[t]
        BY <1>a, <1>12 DEF ReleaseDec, Pops, Calls, ThreadType
      <3> QED BY <1>0, <2>1, <3>1, SameThreads
    <2>3. \A h \in Handle : ctx'[h] = "none" <=> ctx[h] = "none"
      BY <1>12 DEF ReleaseDec
    <2>4. UNCHANGED <<slot, inited, queue, lockSession, qfreed>>
      BY <1>12 DEF ReleaseDec
    <2>5. MailboxState' = MailboxState
      BY <2>3, <2>4, SameState
    <2> QED BY <2>2, <2>4, <2>5 DEF MailboxStep, Actor!vars
  <1>13. ASSUME NEW t \in Thread, ReleaseMark(t) PROVE MailboxStep
    <2>1. \A u \in Thread \ {t} : SameThread(u) /\ msg'[u] = msg[u]
      BY <1>a, <1>13 DEF ReleaseMark, ThreadType, SameThread
    <2>2. UNCHANGED <<Claimed, RunningMessage>>
      <3>1. \A h \in Handle : /\ Pops(t, h)' <=> Pops(t, h)
                              /\ Calls(t, h)' <=> Calls(t, h)
                              /\ Calls(t, h) => msg'[t] = msg[t]
        BY <1>a, <1>13 DEF ReleaseMark, Pops, Calls, ThreadType
      <3> QED BY <1>0, <2>1, <3>1, SameThreads
    <2>3. \A h \in Handle : ctx'[h] = "none" <=> ctx[h] = "none"
      BY <1>13 DEF ReleaseMark
    <2>4. UNCHANGED <<slot, inited, queue, lockSession, qfreed>>
      BY <1>13 DEF ReleaseMark
    <2>5. MailboxState' = MailboxState
      BY <2>3, <2>4, SameState
    <2> QED BY <2>2, <2>4, <2>5 DEF MailboxStep, Actor!vars
  <1>14. ASSUME NEW t \in Thread, ReleaseFree(t) PROVE MailboxStep
    <2>1. \A u \in Thread \ {t} : SameThread(u) /\ msg'[u] = msg[u]
      BY <1>a, <1>14 DEF ReleaseFree, ThreadType, SameThread
    <2>2. UNCHANGED <<Claimed, RunningMessage>>
      <3>1. \A h \in Handle : /\ Pops(t, h)' <=> Pops(t, h)
                              /\ Calls(t, h)' <=> Calls(t, h)
                              /\ Calls(t, h) => msg'[t] = msg[t]
        BY <1>a, <1>14 DEF ReleaseFree, Pops, Calls, ThreadType
      <3> QED BY <1>0, <2>1, <3>1, SameThreads
    <2>3. \A h \in Handle : ctx'[h] = "none" <=> ctx[h] = "none"
      <3>1. rel[t].h \in Handle /\ ctx[rel[t].h] = "live"
        BY <1>a, <1>14 DEF ReleaseFree, Shape, ThreadShape, Deletion, DeletedOnce, Deletes
      <3> QED BY <1>a, <1>14, <3>1 DEF ReleaseFree, ContextType
    <2>4. UNCHANGED <<slot, inited, queue, lockSession, qfreed>>
      BY <1>14 DEF ReleaseFree
    <2>5. MailboxState' = MailboxState
      BY <2>3, <2>4, SameState
    <2> QED BY <2>2, <2>4, <2>5 DEF MailboxStep, Actor!vars
  <1>15. ASSUME NEW t \in Thread, InitReturn(t) PROVE MailboxStep
    <2>1. \A u \in Thread \ {t} : SameThread(u) /\ msg'[u] = msg[u]
      BY <1>a, <1>15 DEF InitReturn, ThreadType, SameThread
    <2>2. UNCHANGED <<Claimed, RunningMessage>>
      <3>1. \A h \in Handle : /\ Pops(t, h)' <=> Pops(t, h)
                              /\ Calls(t, h)' <=> Calls(t, h)
                              /\ Calls(t, h) => msg'[t] = msg[t]
        BY <1>a, <1>15 DEF InitReturn, Pops, Calls, ThreadType
      <3> QED BY <1>0, <2>1, <3>1, SameThreads
    <2>3. \A h \in Handle : ctx'[h] = "none" <=> ctx[h] = "none"
      BY <1>15 DEF InitReturn
    <2>4. UNCHANGED <<slot, inited, queue, lockSession, qfreed>>
      BY <1>15 DEF InitReturn
    <2>5. MailboxState' = MailboxState
      BY <2>3, <2>4, SameState
    <2> QED BY <2>2, <2>4, <2>5 DEF MailboxStep, Actor!vars
  <1>16. ASSUME NEW t \in Thread, LaunchInited(t) PROVE MailboxStep
    <2>1. \A u \in Thread \ {t} : SameThread(u) /\ msg'[u] = msg[u]
      BY <1>a, <1>16 DEF LaunchInited, ThreadType, SameThread
    <2>2. UNCHANGED <<Claimed, RunningMessage>>
      <3>1. \A h \in Handle : /\ Pops(t, h)' <=> Pops(t, h)
                              /\ Calls(t, h)' <=> Calls(t, h)
                              /\ Calls(t, h) => msg'[t] = msg[t]
        BY <1>a, <1>16 DEF LaunchInited, Pops, Calls, ThreadType
      <3> QED BY <1>0, <2>1, <3>1, SameThreads
    <2>3. PICK h \in Handle : h = lau[t].h
      BY <1>a, <1>16 DEF LaunchInited, Shape, ThreadShape
    <2>4. /\ lau[t].st = "ok" /\ ctx[h] # "freed" /\ inited' = inited \cup {h}
          /\ UNCHANGED <<slot, ctx, mqVars>>
      BY <1>16, <2>3 DEF LaunchInited
    <2>5. CASE h \in inited
      <3>1. inited' = inited
        BY <2>4, <2>5
      <3>2. MailboxState' = MailboxState
        BY <2>4, <3>1, SameState
      <3> QED BY <2>2, <2>4, <3>2 DEF MailboxStep, Actor!vars
    <2>6. CASE h \notin inited
      <3>1. ctx[h] # "none" /\ h \notin qfreed
        BY <1>a, <2>3, <2>4 DEF Fresh, Unused, Involves, Standing, FreedLater
      <3>2. MailboxState' = [MailboxState EXCEPT ![h] = "ready"] /\ MailboxState[h] = "starting"
        <4>1. \A x \in Handle : MailboxState'[x] = IF x = h THEN "ready" ELSE MailboxState[x]
          BY <2>4, <3>1 DEF MailboxState
        <4> QED BY <2>6, <3>1, <4>1 DEF MailboxState
      <3>3. Actor!Ready(h)
        BY <2>2, <2>4, <3>2 DEF Actor!Ready
      <3> QED BY <3>3 DEF MailboxStep, Actor!Step
    <2> QED BY <2>5, <2>6
  <1>17. ASSUME NEW t \in Thread, LaunchPush(t) PROVE MailboxStep
    <2>1. \A u \in Thread \ {t} : SameThread(u) /\ msg'[u] = msg[u]
      BY <1>a, <1>17 DEF LaunchPush, ThreadType, SameThread
    <2>2. UNCHANGED <<Claimed, RunningMessage>>
      <3>1. \A h \in Handle : /\ Pops(t, h)' <=> Pops(t, h)
                              /\ Calls(t, h)' <=> Calls(t, h)
                              /\ Calls(t, h) => msg'[t] = msg[t]
        BY <1>a, <1>17 DEF LaunchPush, Pops, Calls, ThreadType
      <3> QED BY <1>0, <2>1, <3>1, SameThreads
    <2>3. \A h \in Handle : ctx'[h] = "none" <=> ctx[h] = "none"
      BY <1>17 DEF LaunchPush
    <2>4. UNCHANGED <<slot, inited, queue, lockSession, qfreed>>
      BY <1>17 DEF LaunchPush
    <2>5. MailboxState' = MailboxState
      BY <2>3, <2>4, SameState
    <2> QED BY <2>2, <2>4, <2>5 DEF MailboxStep, Actor!vars
  <1>18. ASSUME NEW t \in Thread, LaunchReturn(t) PROVE MailboxStep
    <2>1. \A u \in Thread \ {t} : SameThread(u) /\ msg'[u] = msg[u]
      BY <1>a, <1>18 DEF LaunchReturn, ThreadType, SameThread
    <2>2. UNCHANGED <<Claimed, RunningMessage>>
      <3>1. \A h \in Handle : /\ Pops(t, h)' <=> Pops(t, h)
                              /\ Calls(t, h)' <=> Calls(t, h)
                              /\ Calls(t, h) => msg'[t] = msg[t]
        BY <1>a, <1>18 DEF LaunchReturn, Pops, Calls, ThreadType
      <3> QED BY <1>0, <2>1, <3>1, SameThreads
    <2>3. \A h \in Handle : ctx'[h] = "none" <=> ctx[h] = "none"
      BY <1>18 DEF LaunchReturn
    <2>4. UNCHANGED <<slot, inited, queue, lockSession, qfreed>>
      BY <1>18 DEF LaunchReturn
    <2>5. MailboxState' = MailboxState
      BY <2>3, <2>4, SameState
    <2> QED BY <2>2, <2>4, <2>5 DEF MailboxStep, Actor!vars
  <1>19. ASSUME NEW t \in Thread, LaunchRetire(t) PROVE MailboxStep
    <2>1. \A u \in Thread \ {t} : SameThread(u) /\ msg'[u] = msg[u]
      BY <1>a, <1>19 DEF LaunchRetire, ThreadType, SameThread
    <2>2. UNCHANGED <<Claimed, RunningMessage>>
      <3>1. \A h \in Handle : /\ Pops(t, h)' <=> Pops(t, h)
                              /\ Calls(t, h)' <=> Calls(t, h)
                              /\ Calls(t, h) => msg'[t] = msg[t]
        BY <1>a, <1>19 DEF LaunchRetire, Pops, Calls, ThreadType
      <3> QED BY <1>0, <2>1, <3>1, SameThreads
    <2>3. PICK h \in Handle : h = lau[t].h
      BY <1>a, <1>19 DEF LaunchRetire, Shape, ThreadShape
    <2>4. Retire(h) /\ UNCHANGED <<queue, lockSession, qfreed, inited>>
      BY <1>19, <2>3 DEF LaunchRetire
    <2> QED BY <2>2, <2>4, RetireMailbox
  <1>20. ASSUME NEW t \in Thread, LaunchDrop(t) PROVE MailboxStep
    <2>1. \A u \in Thread \ {t} : SameThread(u) /\ msg'[u] = msg[u]
      BY <1>a, <1>20 DEF LaunchDrop, ThreadType, SameThread
    <2>2. UNCHANGED <<Claimed, RunningMessage>>
      <3>1. \A h \in Handle : /\ Pops(t, h)' <=> Pops(t, h)
                              /\ Calls(t, h)' <=> Calls(t, h)
                              /\ Calls(t, h) => msg'[t] = msg[t]
        BY <1>a, <1>20 DEF LaunchDrop, Pops, Calls, ThreadType, NoLaunch
      <3> QED BY <1>0, <2>1, <3>1, SameThreads
    <2>3. PICK h \in Handle : h = lau[t].h
      BY <1>a, <1>20 DEF LaunchDrop, Shape, ThreadShape
    <2>4. h \notin qfreed /\ MqRelease(h) /\ UNCHANGED <<slot, ctx, inited>>
      BY <1>20, <2>3 DEF LaunchDrop
    <2>5. ctx[h] # "none"
      BY <1>a, <1>20, <2>3 DEF LaunchDrop, Fresh, Unused, Involves
    <2> QED BY <2>2, <2>4, <2>5, ReleaseMailbox
  <1>21. ASSUME NEW t \in Thread, Request(t) PROVE MailboxStep
    <2>1. \A u \in Thread \ {t} : SameThread(u) /\ msg'[u] = msg[u]
      BY <1>a, <1>21 DEF Request, ThreadType, SameThread
    <2>2. UNCHANGED <<Claimed, RunningMessage>>
      <3>1. \A h \in Handle : /\ Pops(t, h)' <=> Pops(t, h)
                              /\ Calls(t, h)' <=> Calls(t, h)
                              /\ Calls(t, h) => msg'[t] = msg[t]
        BY <1>a, <1>21 DEF Request, Pops, Calls, ThreadType
      <3> QED BY <1>0, <2>1, <3>1, SameThreads
    <2>3. \A h \in Handle : ctx'[h] = "none" <=> ctx[h] = "none"
      BY <1>21 DEF Request
    <2>4. UNCHANGED <<slot, inited, queue, lockSession, qfreed>>
      BY <1>21 DEF Request
    <2>5. MailboxState' = MailboxState
      BY <2>3, <2>4, SameState
    <2> QED BY <2>2, <2>4, <2>5 DEF MailboxStep, Actor!vars
  <1>22. ASSUME NEW t \in Thread, Respond(t) PROVE MailboxStep
    <2>1. \A u \in Thread \ {t} : SameThread(u) /\ msg'[u] = msg[u]
      BY <1>a, <1>22 DEF Respond, ThreadType, SameThread
    <2>2. UNCHANGED <<Claimed, RunningMessage>>
      <3>1. \A h \in Handle : /\ Pops(t, h)' <=> Pops(t, h)
                              /\ Calls(t, h)' <=> Calls(t, h)
                              /\ Calls(t, h) => msg'[t] = msg[t]
        BY <1>a, <1>22 DEF Respond, Pops, Calls, ThreadType
      <3> QED BY <1>0, <2>1, <3>1, SameThreads
    <2>3. \A h \in Handle : ctx'[h] = "none" <=> ctx[h] = "none"
      BY <1>22 DEF Respond
    <2>4. UNCHANGED <<slot, inited, queue, lockSession, qfreed>>
      BY <1>22 DEF Respond
    <2>5. MailboxState' = MailboxState
      BY <2>3, <2>4, SameState
    <2> QED BY <2>2, <2>4, <2>5 DEF MailboxStep, Actor!vars
  <1>23. ASSUME NEW t \in Thread, TimeoutNow(t) PROVE MailboxStep
    <2>1. \A u \in Thread \ {t} : SameThread(u) /\ msg'[u] = msg[u]
      BY <1>a, <1>23 DEF TimeoutNow, ThreadType, SameThread
    <2>2. UNCHANGED <<Claimed, RunningMessage>>
      <3>1. \A h \in Handle : /\ Pops(t, h)' <=> Pops(t, h)
                              /\ Calls(t, h)' <=> Calls(t, h)
                              /\ Calls(t, h) => msg'[t] = msg[t]
        BY <1>a, <1>23 DEF TimeoutNow, Pops, Calls, ThreadType
      <3> QED BY <1>0, <2>1, <3>1, SameThreads
    <2>3. \A h \in Handle : ctx'[h] = "none" <=> ctx[h] = "none"
      BY <1>23 DEF TimeoutNow
    <2>4. UNCHANGED <<slot, inited, queue, lockSession, qfreed>>
      BY <1>23 DEF TimeoutNow
    <2>5. MailboxState' = MailboxState
      BY <2>3, <2>4, SameState
    <2> QED BY <2>2, <2>4, <2>5 DEF MailboxStep, Actor!vars
  <1>24. ASSUME NEW t \in Thread, TimeoutLater(t) PROVE MailboxStep
    <2>1. \A u \in Thread \ {t} : SameThread(u) /\ msg'[u] = msg[u]
      BY <1>a, <1>24 DEF TimeoutLater, ThreadType, SameThread
    <2>2. UNCHANGED <<Claimed, RunningMessage>>
      <3>1. \A h \in Handle : /\ Pops(t, h)' <=> Pops(t, h)
                              /\ Calls(t, h)' <=> Calls(t, h)
                              /\ Calls(t, h) => msg'[t] = msg[t]
        BY <1>a, <1>24 DEF TimeoutLater, Pops, Calls, ThreadType
      <3> QED BY <1>0, <2>1, <3>1, SameThreads
    <2>3. \A h \in Handle : ctx'[h] = "none" <=> ctx[h] = "none"
      BY <1>24 DEF TimeoutLater
    <2>4. UNCHANGED <<slot, inited, queue, lockSession, qfreed>>
      BY <1>24 DEF TimeoutLater
    <2>5. MailboxState' = MailboxState
      BY <2>3, <2>4, SameState
    <2> QED BY <2>2, <2>4, <2>5 DEF MailboxStep, Actor!vars
  <1>25. ASSUME NEW t \in Thread, Forward(t) PROVE MailboxStep
    <2>1. \A u \in Thread \ {t} : SameThread(u) /\ msg'[u] = msg[u]
      BY <1>a, <1>25 DEF Forward, ThreadType, SameThread
    <2>2. UNCHANGED <<Claimed, RunningMessage>>
      <3>1. \A h \in Handle : /\ Pops(t, h)' <=> Pops(t, h)
                              /\ Calls(t, h)' <=> Calls(t, h)
                              /\ Calls(t, h) => msg'[t] = msg[t]
        BY <1>a, <1>25 DEF Forward, Pops, Calls, ThreadType
      <3> QED BY <1>0, <2>1, <3>1, SameThreads
    <2>3. \A h \in Handle : ctx'[h] = "none" <=> ctx[h] = "none"
      BY <1>25 DEF Forward
    <2>4. UNCHANGED <<slot, inited, queue, lockSession, qfreed>>
      BY <1>25 DEF Forward
    <2>5. MailboxState' = MailboxState
      BY <2>3, <2>4, SameState
    <2> QED BY <2>2, <2>4, <2>5 DEF MailboxStep, Actor!vars
  <1>26. ASSUME NEW t \in Thread, Kill(t) PROVE MailboxStep
    <2>1. \A u \in Thread \ {t} : SameThread(u) /\ msg'[u] = msg[u]
      BY <1>a, <1>26 DEF Kill, ThreadType, SameThread
    <2>2. UNCHANGED <<Claimed, RunningMessage>>
      <3>1. \A h \in Handle : /\ Pops(t, h)' <=> Pops(t, h)
                              /\ Calls(t, h)' <=> Calls(t, h)
                              /\ Calls(t, h) => msg'[t] = msg[t]
        BY <1>a, <1>26 DEF Kill, Pops, Calls, ThreadType
      <3> QED BY <1>0, <2>1, <3>1, SameThreads
    <2>3. PICK h \in Handle : Retire(h)
      BY <1>26 DEF Kill, Known
    <2>4. UNCHANGED <<queue, lockSession, qfreed, inited>>
      BY <1>26 DEF Kill
    <2> QED BY <2>2, <2>3, <2>4, RetireMailbox
  <1>27. ASSUME NEW t \in Thread, BlockCall(t) PROVE MailboxStep
    <2>1. \A u \in Thread \ {t} : SameThread(u) /\ msg'[u] = msg[u]
      BY <1>a, <1>27 DEF BlockCall, ThreadType, SameThread
    <2>2. UNCHANGED <<Claimed, RunningMessage>>
      <3>1. \A h \in Handle : /\ Pops(t, h)' <=> Pops(t, h)
                              /\ Calls(t, h)' <=> Calls(t, h)
                              /\ Calls(t, h) => msg'[t] = msg[t]
        BY <1>a, <1>27 DEF BlockCall, Pops, Calls, ThreadType
      <3> QED BY <1>0, <2>1, <3>1, SameThreads
    <2>3. PICK h \in Handle :
            /\ InService(t, h) /\ h \in inited /\ lockSession[h] = 0
            /\ lockSession' = [lockSession EXCEPT ![h] = session[h] + 1]
            /\ UNCHANGED <<slot, ctx, inited, queue, qfreed>>
      BY <1>27 DEF BlockCall
    <2>4. Calls(t, h)
      <3>1. InCode(t, h)
        BY <2>3, ServiceCode
      <3>2. ref[h] > 0
        BY <1>a, <3>1, HeldPositive DEF InCode
      <3> QED BY <1>a, <2>3, <3>1, <3>2 DEF InCode, Calls, Tokens, TokenAt
    <2>5. RunningMessage[h] # NoMessage
      <3>1. RunningMessage[h] = msg[t] /\ msg[t] \in Message
        BY <1>0, <1>a, <2>4, RunningIs DEF Calls, Shape, ThreadShape
      <3> QED BY <3>1 DEF Message, NoMessage
    <2>6. session[h] + 1 \in Nat \ {0} /\ lockSession'[h] = session[h] + 1
      BY <1>a, <2>3 DEF ContextType, QueueType
    <2>7. MailboxState' = MailboxState
      BY <2>3, SameState
    <2>8. Actor!Wait(h)
      BY <2>2, <2>3, <2>5, <2>6, <2>7 DEF Actor!Wait
    <2> QED BY <2>8 DEF MailboxStep, Actor!Step
  <1>28. ASSUME NEW t \in Thread, Launch(t) PROVE MailboxStep
    <2>1. \A u \in Thread \ {t} : SameThread(u) /\ msg'[u] = msg[u]
      BY <1>a, <1>28 DEF Launch, ThreadType, SameThread
    <2>2. UNCHANGED <<Claimed, RunningMessage>>
      <3>1. \A h \in Handle : /\ Pops(t, h)' <=> Pops(t, h)
                              /\ Calls(t, h)' <=> Calls(t, h)
                              /\ Calls(t, h) => msg'[t] = msg[t]
        BY <1>a, <1>28 DEF Launch, Pops, Calls, ThreadType
      <3> QED BY <1>0, <2>1, <3>1, SameThreads
    <2>3. PICK n \in Handle :
            /\ ctx[n] = "none" /\ slot' = slot \cup {n} /\ ctx' = [ctx EXCEPT ![n] = "live"]
            /\ UNCHANGED <<inited, queue, lockSession, qfreed>>
      BY <1>28 DEF Launch
    <2>4. n \notin inited /\ n \notin qfreed
      BY <1>a, <2>3 DEF Fresh, Unused, Wakeups, WakeAt
    <2>5. MailboxState' = [MailboxState EXCEPT ![n] = "starting"] /\ MailboxState[n] = "none"
      <3>1. \A x \in Handle : MailboxState'[x] = IF x = n THEN "starting" ELSE MailboxState[x]
        BY <1>a, <2>3, <2>4 DEF MailboxState, ContextType
      <3> QED BY <2>3, <2>4, <3>1 DEF MailboxState
    <2>6. Actor!Create(n)
      BY <2>2, <2>3, <2>5 DEF Actor!Create
    <2> QED BY <2>6 DEF MailboxStep, Actor!Step
  <1>29. ASSUME NEW t \in Thread, TimerFire(t) PROVE MailboxStep
    <2>1. \A u \in Thread \ {t} : SameThread(u) /\ msg'[u] = msg[u]
      BY <1>a, <1>29 DEF TimerFire, ThreadType, SameThread
    <2>2. UNCHANGED <<Claimed, RunningMessage>>
      <3>1. \A h \in Handle : /\ Pops(t, h)' <=> Pops(t, h)
                              /\ Calls(t, h)' <=> Calls(t, h)
                              /\ Calls(t, h) => msg'[t] = msg[t]
        BY <1>a, <1>29 DEF TimerFire, Pops, Calls, ThreadType
      <3> QED BY <1>0, <2>1, <3>1, SameThreads
    <2>3. \A h \in Handle : ctx'[h] = "none" <=> ctx[h] = "none"
      BY <1>29 DEF TimerFire
    <2>4. UNCHANGED <<slot, inited, queue, lockSession, qfreed>>
      BY <1>29 DEF TimerFire
    <2>5. MailboxState' = MailboxState
      BY <2>3, <2>4, SameState
    <2> QED BY <2>2, <2>4, <2>5 DEF MailboxStep, Actor!vars
  <1>30. ASSUME NEW t \in Thread, MonitorCheck(t) PROVE MailboxStep
    <2>1. \A u \in Thread \ {t} : SameThread(u) /\ msg'[u] = msg[u]
      BY <1>a, <1>30 DEF MonitorCheck, ThreadType, SameThread
    <2>2. UNCHANGED <<Claimed, RunningMessage>>
      <3>1. \A h \in Handle : /\ Pops(t, h)' <=> Pops(t, h)
                              /\ Calls(t, h)' <=> Calls(t, h)
                              /\ Calls(t, h) => msg'[t] = msg[t]
        BY <1>a, <1>30 DEF MonitorCheck, Pops, Calls, ThreadType
      <3> QED BY <1>0, <2>1, <3>1, SameThreads
    <2>3. \A h \in Handle : ctx'[h] = "none" <=> ctx[h] = "none"
      BY <1>30 DEF MonitorCheck
    <2>4. UNCHANGED <<slot, inited, queue, lockSession, qfreed>>
      BY <1>30 DEF MonitorCheck
    <2>5. MailboxState' = MailboxState
      BY <2>3, <2>4, SameState
    <2> QED BY <2>2, <2>4, <2>5 DEF MailboxStep, Actor!vars
  <1>31. ASSUME UNCHANGED <<ctxVars, mqVars, threadVars>> PROVE MailboxStep
    BY <1>31 DEF MailboxStep, Actor!vars, MailboxState, Claimed, RunningMessage, Pops, Calls
  <1>32. ASSUME NEW t \in Thread, Crash(t) PROVE UNCHANGED <<ctxVars, mqVars, threadVars>>
    BY <1>32 DEF Crash, UseFreedQueue, UseFreedContext, AssertForcePush, AssertLock
  <1>33. CASE \E t \in Thread : Progress(t)
    BY <1>33, <1>1, <1>2, <1>3, <1>4, <1>5, <1>6, <1>7, <1>8, <1>9, <1>10, <1>11, <1>12, <1>13, <1>14, <1>15, <1>16, <1>17, <1>18, <1>19, <1>20 DEF Progress
  <1>34. CASE \E t \in Thread : Operation(t)
    BY <1>34, <1>21, <1>22, <1>23, <1>24, <1>25, <1>26, <1>27, <1>28, <1>29, <1>30 DEF Operation
  <1> QED
    BY <1>31, <1>32, <1>33, <1>34 DEF Next

(* The initial states.                                                     *)
LEMMA InitMailbox == Init => Actor!Start
  <1> SUFFICES ASSUME Init PROVE Actor!Start OBVIOUS
  <1>1. MailboxState \in [Handle -> {"none", "ready"}] /\ slot = {h \in Handle : MailboxState[h] = "ready"}
    BY ConstantsAssumption DEF Init, MailboxState
  <1>2. queue \in [Handle -> Seq(Message)]
    BY InitType DEF TypeInv, TypeOK, QueueType
  <1>3. Claimed = {}
    BY DEF Init, Claimed, Pops
  <1>4. RunningMessage = [h \in Handle |-> NoMessage]
    BY DEF Init, RunningMessage, Calls
  <1>5. lockSession = [h \in Handle |-> 0]
    BY DEF Init
  <1> QED BY <1>1, <1>2, <1>3, <1>4, <1>5 DEF Actor!Start

(* Through all its steps, with every interleaving of the threads, the      *)
(* scheduler shows a service a mailbox: one message at a time, in order,   *)
(* none during a blockcall, and at most one after it was retired.          *)
THEOREM SchedulerImplementsMailboxes == Spec => ImplementsMailboxes
  <1>1. StandingInv /\ [Next]_vars => StandingInv'
    BY StepStanding
  <1>2. StandingInv /\ StandingInv' /\ [Next]_vars => [\E h \in Handle : Actor!Step(h)]_(Actor!vars)
    BY StepMailbox DEF MailboxStep
  <1> QED BY <1>1, <1>2, InitStanding, InitMailbox, PTL DEF Spec, ImplementsMailboxes, Actor!Mailboxes

=============================================================================
