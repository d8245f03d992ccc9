---------------------------- MODULE DispatchProofs ----------------------------
(***************************************************************************)
(* Theorems about module Dispatch, for any number of services, workers and *)
(* operations.                                                             *)
(***************************************************************************)
EXTENDS MCDispatch, FiniteSetTheorems, TLAPS

-----------------------------------------------------------------------------
(* The records of the model are in the sets that TypeOK names.             *)

(* A handle or none.                                                       *)
LEMMA HandleTypes == NoHandle \in HandleOrNone /\ Handle \subseteq HandleOrNone
  BY DEF HandleOrNone

(* A message or none.                                                      *)
LEMMA MessageTypes ==
    /\ NoMessage \in MessageOrNone /\ Message \subseteq MessageOrNone
    /\ \A s \in Nat, x \in HandleOrNone, k \in {"request", "response"} :
          [kind |-> k, session |-> s, source |-> x] \in Message
    /\ \A x \in Message : x.session \in Nat /\ x.source \in HandleOrNone
  BY DEF HandleOrNone, MessageOrNone, Message, NoMessage

(* The stages of a skynet_context_push.                                    *)
LEMMA SendTypes ==
    /\ NoSend \in SendStage
    /\ \A x \in SendStage : x.des \in HandleOrNone /\ x.m \in MessageOrNone
    /\ \A d \in HandleOrNone, m \in MessageOrNone, st \in {"none", "grab", "push", "endless"} :
          [st |-> st, des |-> d, m |-> m] \in SendStage
  BY DEF HandleOrNone, MessageOrNone, SendStage, NoSend

(* The stages of a skynet_context_release.                                 *)
LEMMA ReleaseTypes ==
    /\ NoRelease \in ReleaseStage
    /\ \A h \in Handle, st \in {"dec", "mark", "free"} : Stage(st, h) \in ReleaseStage
  BY DEF HandleOrNone, ReleaseStage, NoRelease, Stage

(* The stages of a skynet_context_new.                                     *)
LEMMA LaunchTypes ==
    /\ NoLaunch \in LaunchStage
    /\ \A h \in Handle, st \in {"init", "ok", "gone", "inited", "return", "failed", "drop"} :
          Stage(st, h) \in LaunchStage
  BY DEF HandleOrNone, LaunchStage, NoLaunch, Stage

(* The nodes of the timer.                                                 *)
LEMMA TimerTypes ==
    /\ \A n \in TimerNode : n.h \in Handle /\ n.session \in Nat
    /\ \A h \in Handle, s \in Nat : [h |-> h, session |-> s] \in TimerNode
  BY DEF TimerNode

-----------------------------------------------------------------------------
(* What the operators of skynet_mq.c and skynet_handle.c leave well typed. *)

(* skynet_mq_push *)
LEMMA MqPushType ==
    ASSUME NEW h \in Handle, NEW m \in Message, QueueType, MqPush(h, m)
    PROVE  QueueType'
  <1>1. Append(gq, h) \in Seq(Handle)
    BY DEF QueueType
  <1>2. Append(queue[h], m) \in Seq(Message) /\ <<m>> \o queue[h] \in Seq(Message)
    BY DEF QueueType
  <1>3. gq' \in Seq(Handle)
    BY <1>1 DEF MqPush, PushHead, PushTail, GlobalPush, QueueType
  <1>4. queue' \in [Handle -> Seq(Message)]
    BY <1>2 DEF MqPush, PushHead, PushTail, QueueType
  <1>5. inGlobal' \in [Handle -> 0 .. 3]
    BY DEF MqPush, PushHead, PushTail, QueueType, MQ_IN_GLOBAL
  <1>6. lockSession' \in [Handle -> Nat]
    BY DEF MqPush, PushHead, PushTail, QueueType
  <1> QED BY <1>3, <1>4, <1>5, <1>6 DEF MqPush, QueueType

(* skynet_mq_pushglobal *)
LEMMA MqPushGlobalType ==
    ASSUME NEW h \in Handle, QueueType, MqPushGlobal(h)
    PROVE  QueueType'
  <1>1. Append(gq, h) \in Seq(Handle)
    BY DEF QueueType
  <1>2. gq' \in Seq(Handle)
    BY <1>1 DEF MqPushGlobal, GlobalPush, QueueType
  <1>3. inGlobal' \in [Handle -> 0 .. 3]
    <2>1. inGlobal[h] \in 0 .. 3 /\ MQ_IN_GLOBAL \in 0 .. 3 /\ MQ_LOCKED \in 0 .. 3
      BY DEF QueueType, MQ_IN_GLOBAL, MQ_LOCKED
    <2> QED
      BY <2>1 DEF MqPushGlobal, QueueType
  <1> QED BY <1>2, <1>3 DEF MqPushGlobal, QueueType

(* skynet_mq_release *)
LEMMA MqReleaseType ==
    ASSUME NEW h \in Handle, QueueType, MqRelease(h)
    PROVE  QueueType'
  <1>1. Append(gq, h) \in Seq(Handle)
    BY DEF QueueType
  <1>2. gq' \in Seq(Handle)
    BY <1>1 DEF MqRelease, GlobalPush, QueueType
  <1>3. queue' \in [Handle -> Seq(Message)] /\ inGlobal' \in [Handle -> 0 .. 3]
    <2>1. <<>> \in Seq(Message) /\ 0 \in 0 .. 3
      OBVIOUS
    <2>2. CASE release[h]
      BY <2>1, <2>2 DEF MqRelease, QueueType
    <2>3. CASE ~release[h]
      BY <2>3 DEF MqRelease, QueueType, mqVars
    <2> QED BY <2>2, <2>3
  <1>4. qfreed' \subseteq Handle
    BY DEF MqRelease, QueueType, mqVars
  <1>5. UNCHANGED <<lockSession, release>>
    BY DEF MqRelease, mqVars
  <1> QED BY <1>2, <1>3, <1>4, <1>5 DEF QueueType

(* skynet_handle_retire *)
LEMMA RetireType ==
    ASSUME NEW h \in Handle, ContextType, QueueType, Retire(h),
           UNCHANGED <<inited, session, forward, queue, inGlobal, lockSession, qfreed>>
    PROVE  ContextType' /\ QueueType'
  <1>1. ContextType'
    BY DEF Retire, ContextType
  <1>2. Append(gq, h) \in Seq(Handle)
    BY DEF QueueType
  <1>3. gq' \in Seq(Handle)
    BY <1>2 DEF Retire, MarkPush, GlobalPush, QueueType
  <1>4. release' \in [Handle -> BOOLEAN]
    BY DEF Retire, QueueType
  <1> QED BY <1>1, <1>3, <1>4 DEF QueueType

-----------------------------------------------------------------------------
(* The initial states are well typed.                                      *)
LEMMA InitType == Init => TypeInv
  <1> SUFFICES ASSUME Init PROVE TypeInv OBVIOUS
  <1>1. ContextType
    BY ConstantsAssumption, HandleTypes DEF Init, ContextType
  <1>2. QueueType
    <2>1. Cardinality(Boot) \in Nat
      BY FS_CardinalityType, ConstantsAssumption
    <2>2. gq \in [1 .. Cardinality(Boot) -> Boot]
      BY DEF Init
    <2>3. gq \in Seq(Handle)
      BY <2>1, <2>2, ConstantsAssumption
    <2>4. TimeoutMessage(1) \in Message
      BY HandleTypes, MessageTypes DEF TimeoutMessage
    <2> QED
      BY <2>3, <2>4 DEF Init, QueueType, MQ_IN_GLOBAL
  <1>3. ThreadType
    BY HandleTypes, MessageTypes, SendTypes, ReleaseTypes, LaunchTypes DEF Init, ThreadType
  <1>4. RestType
    BY ConstantsAssumption DEF Init, RestType
  <1>5. Shape
    BY DEF Init, Shape, ThreadShape, NoSend, NoRelease, NoLaunch
  <1> QED BY <1>1, <1>2, <1>3, <1>4, <1>5 DEF TypeInv, TypeOK

(* Every step keeps the types.                                             *)
LEMMA StepType == TypeInv /\ [Next]_vars => TypeInv'
  <1> SUFFICES ASSUME TypeInv, [Next]_vars PROVE TypeInv'
    OBVIOUS
  <1> USE DEF TypeInv, TypeOK, vars, ctxVars, mqVars, threadVars
  <1>1. ASSUME NEW t \in Thread, GlobalPop(t) PROVE TypeInv'
    <2>1. Head(gq) \in Handle /\ Tail(gq) \in Seq(Handle)
      BY <1>1 DEF GlobalPop, QueueType
    <2>2. ContextType'
      BY <1>1 DEF GlobalPop, ContextType
    <2>3. QueueType'
      BY <1>1, <2>1 DEF GlobalPop, QueueType
    <2>4. ThreadType'
      BY <1>1, <2>1, HandleTypes DEF GlobalPop, ThreadType
    <2>5. RestType'
      BY <1>1 DEF GlobalPop, RestType
    <2>6. Shape'
      <3> SUFFICES ASSUME NEW u \in Thread PROVE ThreadShape(u)'
        BY DEF Shape
      <3> ThreadShape(u)
        BY DEF Shape
      <3> QED
        BY <1>1, <2>1 DEF GlobalPop, ThreadShape, ThreadType, NoSend, NoRelease,
           NoLaunch, Sending, Stage
    <2> QED BY <2>2, <2>3, <2>4, <2>5, <2>6
  <1>2. ASSUME NEW t \in Thread, Grab(t) PROVE TypeInv'
    <2>1. cur[t] \in Handle
      BY <1>2 DEF Grab, Shape, ThreadShape
    <2>2. ContextType'
      BY <1>2, <2>1 DEF Grab, ContextType
    <2>3. QueueType'
      BY <1>2 DEF Grab, QueueType
    <2>4. ThreadType'
      BY <1>2, <2>1 DEF Grab, ThreadType
    <2>5. RestType'
      BY <1>2 DEF Grab, RestType
    <2>6. Shape'
      <3> SUFFICES ASSUME NEW u \in Thread PROVE ThreadShape(u)'
        BY DEF Shape
      <3> ThreadShape(u)
        BY DEF Shape
      <3> QED
        BY <1>2, <2>1 DEF Grab, ThreadShape, ThreadType, NoSend, NoRelease, NoLaunch,
           Sending, Stage
    <2> QED BY <2>2, <2>3, <2>4, <2>5, <2>6
  <1>3. ASSUME NEW t \in Thread, DropQueue(t) PROVE TypeInv'
    <2>1. cur[t] \in Handle
      BY <1>3 DEF DropQueue, Shape, ThreadShape
    <2>2. ContextType'
      BY <1>3 DEF DropQueue, ContextType
    <2>3. QueueType'
      BY <1>3, <2>1, MqReleaseType DEF DropQueue
    <2>4. ThreadType'
      BY <1>3, <2>1, HandleTypes DEF DropQueue, ThreadType
    <2>5. RestType'
      BY <1>3 DEF DropQueue, RestType
    <2>6. Shape'
      <3> SUFFICES ASSUME NEW u \in Thread PROVE ThreadShape(u)'
        BY DEF Shape
      <3> ThreadShape(u)
        BY DEF Shape
      <3> QED
        BY <1>3, <2>1 DEF DropQueue, ThreadShape, ThreadType, NoSend, NoRelease,
           NoLaunch, Sending, Stage
    <2> QED BY <2>2, <2>3, <2>4, <2>5, <2>6
  <1>4. ASSUME NEW t \in Thread, PopEmpty(t) PROVE TypeInv'
    <2>1. cur[t] \in Handle
      BY <1>4 DEF PopEmpty, Shape, ThreadShape
    <2>2. ContextType'
      BY <1>4 DEF PopEmpty, ContextType
    <2>3. QueueType'
      BY <1>4, <2>1 DEF PopEmpty, QueueType
    <2>4. ThreadType'
      BY <1>4, <2>1, HandleTypes, ReleaseTypes DEF PopEmpty, ThreadType
    <2>5. RestType'
      BY <1>4 DEF PopEmpty, RestType
    <2>6. Shape'
      <3> SUFFICES ASSUME NEW u \in Thread PROVE ThreadShape(u)'
        BY DEF Shape
      <3> ThreadShape(u)
        BY DEF Shape
      <3> QED
        BY <1>4, <2>1 DEF PopEmpty, ThreadShape, ThreadType, NoSend, NoRelease,
           NoLaunch, Sending, Stage
    <2> QED BY <2>2, <2>3, <2>4, <2>5, <2>6
  <1>5. ASSUME NEW t \in Thread, PopMessage(t) PROVE TypeInv'
    <2>1. cur[t] \in Handle
      BY <1>5 DEF PopMessage, Shape, ThreadShape
    <2>2. Head(queue[cur[t]]) \in Message /\ Tail(queue[cur[t]]) \in Seq(Message)
      BY <1>5, <2>1 DEF PopMessage, QueueType
    <2>3. ContextType'
      BY <1>5 DEF PopMessage, ContextType
    <2>4. QueueType'
      BY <1>5, <2>1, <2>2 DEF PopMessage, QueueType
    <2>5. ThreadType'
      BY <1>5, <2>1, <2>2, MessageTypes DEF PopMessage, ThreadType
    <2>6. RestType'
      BY <1>5 DEF PopMessage, RestType
    <2>7. Shape'
      <3> SUFFICES ASSUME NEW u \in Thread PROVE ThreadShape(u)'
        BY DEF Shape
      <3> ThreadShape(u)
        BY DEF Shape
      <3> QED
        BY <1>5, <2>1, <2>2 DEF PopMessage, ThreadShape, ThreadType, NoSend,
           NoRelease, NoLaunch, Sending, Stage
    <2> QED BY <2>3, <2>4, <2>5, <2>6, <2>7
  <1>6. ASSUME NEW t \in Thread, CallbackEnd(t) PROVE TypeInv'
    <2>1. cur[t] \in Handle /\ msg[t] \in Message
      BY <1>6 DEF CallbackEnd, Shape, ThreadShape
    <2>2. Sending(forward[cur[t]], msg[t]) \in SendStage
      BY <1>6, <2>1, MessageTypes, SendTypes DEF CallbackEnd, ContextType, Sending
    <2>3. ContextType'
      BY <1>6, <2>1, <2>2, HandleTypes DEF CallbackEnd, ContextType
    <2>4. QueueType'
      BY <1>6 DEF CallbackEnd, QueueType
    <2>5. ThreadType'
      BY <1>6, <2>1, <2>2, MessageTypes DEF CallbackEnd, ThreadType
    <2>6. RestType'
      BY <1>6 DEF CallbackEnd, RestType
    <2>7. Shape'
      <3> SUFFICES ASSUME NEW u \in Thread PROVE ThreadShape(u)'
        BY DEF Shape
      <3> ThreadShape(u)
        BY DEF Shape
      <3> QED
        BY <1>6, <2>1, <2>2 DEF CallbackEnd, ThreadShape, ThreadType, NoSend,
           NoRelease, NoLaunch, Sending, Stage
    <2> QED BY <2>3, <2>4, <2>5, <2>6, <2>7
  <1>7. ASSUME NEW t \in Thread, DispatchRelease(t) PROVE TypeInv'
    <2>1. cur[t] \in Handle
      BY <1>7 DEF DispatchRelease, Shape, ThreadShape
    <2>2. ContextType'
      BY <1>7 DEF DispatchRelease, ContextType
    <2>3. QueueType'
      BY <1>7 DEF DispatchRelease, QueueType
    <2>4. ThreadType'
      BY <1>7, <2>1, ReleaseTypes DEF DispatchRelease, ThreadType
    <2>5. RestType'
      BY <1>7 DEF DispatchRelease, RestType
    <2>6. Shape'
      <3> SUFFICES ASSUME NEW u \in Thread PROVE ThreadShape(u)'
        BY DEF Shape
      <3> ThreadShape(u)
        BY DEF Shape
      <3> QED
        BY <1>7, <2>1 DEF DispatchRelease, ThreadShape, ThreadType, NoSend, NoRelease,
           NoLaunch, Sending, Stage
    <2> QED BY <2>2, <2>3, <2>4, <2>5, <2>6
  <1>8. ASSUME NEW t \in Thread, PushGlobal(t) PROVE TypeInv'
    <2>1. cur[t] \in Handle
      BY <1>8 DEF PushGlobal, Shape, ThreadShape
    <2>2. ContextType'
      BY <1>8 DEF PushGlobal, ContextType
    <2>3. QueueType'
      BY <1>8, <2>1, MqPushGlobalType DEF PushGlobal
    <2>4. ThreadType'
      BY <1>8, <2>1, HandleTypes DEF PushGlobal, ThreadType
    <2>5. RestType'
      BY <1>8 DEF PushGlobal, RestType
    <2>6. Shape'
      <3> SUFFICES ASSUME NEW u \in Thread PROVE ThreadShape(u)'
        BY DEF Shape
      <3> ThreadShape(u)
        BY DEF Shape
      <3> QED
        BY <1>8, <2>1 DEF PushGlobal, ThreadShape, ThreadType, NoSend, NoRelease,
           NoLaunch, Sending, Stage
    <2> QED BY <2>2, <2>3, <2>4, <2>5, <2>6
  <1>9. ASSUME NEW t \in Thread, SendGrab(t) PROVE TypeInv'
    <2>1. snd[t].m \in Message
      BY <1>9 DEF SendGrab, Shape, ThreadShape
    <2>2. [st |-> "push", des |-> snd[t].des, m |-> snd[t].m] \in SendStage
      BY <1>9, <2>1, SendTypes, MessageTypes DEF SendGrab, ThreadType
    <2>3. ContextType'
      BY <1>9, <2>1, <2>2 DEF SendGrab, ContextType
    <2>4. QueueType'
      BY <1>9 DEF SendGrab, QueueType
    <2>5. ThreadType'
      BY <1>9, <2>1, <2>2, SendTypes DEF SendGrab, ThreadType
    <2>6. RestType'
      BY <1>9 DEF SendGrab, RestType
    <2>7. Shape'
      <3> SUFFICES ASSUME NEW u \in Thread PROVE ThreadShape(u)'
        BY DEF Shape
      <3> ThreadShape(u)
        BY DEF Shape
      <3>2. CASE u # t
        BY <1>9, <3>2 DEF SendGrab, ThreadShape, ThreadType
      <3>3. CASE u = t
        BY <1>9, <3>3, <2>1, <2>2 DEF SendGrab, ThreadShape, ThreadType, ContextType,
           NoSend, NoRelease, NoLaunch, Sending, Stage
      <3> QED BY <3>2, <3>3
    <2> QED BY <2>3, <2>4, <2>5, <2>6, <2>7
  <1>10. ASSUME NEW t \in Thread, SendPush(t) PROVE TypeInv'
    <2>1. snd[t].des \in Handle /\ snd[t].m \in Message
      BY <1>10 DEF SendPush, Shape, ThreadShape
    <2>2. ContextType'
      BY <1>10 DEF SendPush, ContextType
    <2>3. QueueType'
      BY <1>10, <2>1, MqPushType DEF SendPush
    <2>4. ThreadType'
      BY <1>10, <2>1, SendTypes, ReleaseTypes DEF SendPush, ThreadType
    <2>5. RestType'
      BY <1>10 DEF SendPush, RestType
    <2>6. Shape'
      <3> SUFFICES ASSUME NEW u \in Thread PROVE ThreadShape(u)'
        BY DEF Shape
      <3> ThreadShape(u)
        BY DEF Shape
      <3> QED
        BY <1>10, <2>1 DEF SendPush, ThreadShape, ThreadType, NoSend, NoRelease,
           NoLaunch, Sending, Stage
    <2> QED BY <2>2, <2>3, <2>4, <2>5, <2>6
  <1>11. ASSUME NEW t \in Thread, MonitorEndless(t) PROVE TypeInv'
    <2>1. snd[t].des \in slot => Stage("dec", snd[t].des) \in ReleaseStage
      BY <1>11, ReleaseTypes DEF MonitorEndless, ContextType
    <2>2. ContextType'
      BY <1>11, <2>1 DEF MonitorEndless, ContextType
    <2>3. QueueType'
      BY <1>11 DEF MonitorEndless, QueueType
    <2>4. ThreadType'
      BY <1>11, <2>1, SendTypes, ReleaseTypes DEF MonitorEndless, ThreadType,
         ContextType
    <2>5. RestType'
      BY <1>11 DEF MonitorEndless, RestType
    <2>6. Shape'
      <3> SUFFICES ASSUME NEW u \in Thread PROVE ThreadShape(u)'
        BY DEF Shape
      <3> ThreadShape(u)
        BY DEF Shape
      <3>1. snd[t].des \in slot => snd[t].des \in Handle
        BY DEF ContextType
      <3>2. CASE u # t
        BY <1>11, <3>2 DEF MonitorEndless, ThreadShape, ThreadType
      <3>3. CASE u = t
        BY <1>11, <3>3, <3>1, <2>1 DEF MonitorEndless, ThreadShape, ThreadType,
           ContextType, NoSend, NoRelease, NoLaunch, Sending, Stage
      <3> QED BY <3>2, <3>3
    <2> QED BY <2>2, <2>3, <2>4, <2>5, <2>6
  <1>12. ASSUME NEW t \in Thread, ReleaseDec(t) PROVE TypeInv'
    <2>1. rel[t].h \in Handle
      BY <1>12 DEF ReleaseDec, Shape, ThreadShape
    <2>2. ContextType'
      BY <1>12, <2>1 DEF ReleaseDec, ContextType
    <2>3. QueueType'
      BY <1>12 DEF ReleaseDec, QueueType
    <2>4. ThreadType'
      BY <1>12, <2>1, ReleaseTypes DEF ReleaseDec, ThreadType
    <2>5. RestType'
      BY <1>12 DEF ReleaseDec, RestType
    <2>6. Shape'
      <3> SUFFICES ASSUME NEW u \in Thread PROVE ThreadShape(u)'
        BY DEF Shape
      <3> ThreadShape(u)
        BY DEF Shape
      <3> QED
        BY <1>12, <2>1 DEF ReleaseDec, ThreadShape, ThreadType, NoSend, NoRelease,
           NoLaunch, Sending, Stage
    <2> QED BY <2>2, <2>3, <2>4, <2>5, <2>6
  <1>13. ASSUME NEW t \in Thread, ReleaseMark(t) PROVE TypeInv'
    <2>1. rel[t].h \in Handle
      BY <1>13 DEF ReleaseMark, Shape, ThreadShape
    <2>2. Append(gq, rel[t].h) \in Seq(Handle)
      BY <1>13, <2>1 DEF ReleaseMark, QueueType
    <2>3. ContextType'
      BY <1>13 DEF ReleaseMark, ContextType
    <2>4. QueueType'
      BY <1>13, <2>1, <2>2 DEF ReleaseMark, QueueType, MarkPush, GlobalPush
    <2>5. ThreadType'
      BY <1>13, <2>1, <2>2, ReleaseTypes DEF ReleaseMark, ThreadType
    <2>6. RestType'
      BY <1>13 DEF ReleaseMark, RestType
    <2>7. Shape'
      <3> SUFFICES ASSUME NEW u \in Thread PROVE ThreadShape(u)'
        BY DEF Shape
      <3> ThreadShape(u)
        BY DEF Shape
      <3> QED
        BY <1>13, <2>1, <2>2 DEF ReleaseMark, ThreadShape, ThreadType, NoSend,
           NoRelease, NoLaunch, Sending, Stage
    <2> QED BY <2>3, <2>4, <2>5, <2>6, <2>7
  <1>14. ASSUME NEW t \in Thread, ReleaseFree(t) PROVE TypeInv'
    <2>1. rel[t].h \in Handle
      BY <1>14 DEF ReleaseFree, Shape, ThreadShape
    <2>2. ContextType'
      BY <1>14, <2>1 DEF ReleaseFree, ContextType
    <2>3. QueueType'
      BY <1>14, <2>1 DEF ReleaseFree, QueueType
    <2>4. ThreadType'
      BY <1>14, <2>1, ReleaseTypes DEF ReleaseFree, ThreadType
    <2>5. RestType'
      BY <1>14 DEF ReleaseFree, RestType
    <2>6. Shape'
      <3> SUFFICES ASSUME NEW u \in Thread PROVE ThreadShape(u)'
        BY DEF Shape
      <3> ThreadShape(u)
        BY DEF Shape
      <3> QED
        BY <1>14, <2>1 DEF ReleaseFree, ThreadShape, ThreadType, NoSend, NoRelease,
           NoLaunch, Sending, Stage
    <2> QED BY <2>2, <2>3, <2>4, <2>5, <2>6
  <1>15. ASSUME NEW t \in Thread, InitReturn(t) PROVE TypeInv'
    <2>1. PICK ok \in BOOLEAN : InitReturn(t)!(ok)
      BY <1>15 DEF InitReturn
    <2>2. lau[t].h \in Handle
      BY <2>1 DEF Shape, ThreadShape
    <2>3. ContextType'
      BY <2>1, <2>2 DEF ContextType
    <2>4. QueueType'
      BY <2>1 DEF QueueType
    <2>5. ThreadType'
      BY <2>1, <2>2, ReleaseTypes, LaunchTypes DEF ThreadType
    <2>6. RestType'
      BY <2>1 DEF RestType
    <2>7. Shape'
      <3> SUFFICES ASSUME NEW u \in Thread PROVE ThreadShape(u)'
        BY DEF Shape
      <3> ThreadShape(u)
        BY DEF Shape
      <3> QED
        BY <2>1, <2>2 DEF ThreadShape, ThreadType, NoSend, NoRelease, NoLaunch,
           Sending, Stage
    <2> QED BY <2>3, <2>4, <2>5, <2>6, <2>7
  <1>16. ASSUME NEW t \in Thread, LaunchInited(t) PROVE TypeInv'
    <2>1. lau[t].h \in Handle
      BY <1>16 DEF LaunchInited, Shape, ThreadShape
    <2>2. ContextType'
      BY <1>16, <2>1 DEF LaunchInited, ContextType
    <2>3. QueueType'
      BY <1>16 DEF LaunchInited, QueueType
    <2>4. ThreadType'
      BY <1>16, <2>1, LaunchTypes DEF LaunchInited, ThreadType
    <2>5. RestType'
      BY <1>16 DEF LaunchInited, RestType
    <2>6. Shape'
      <3> SUFFICES ASSUME NEW u \in Thread PROVE ThreadShape(u)'
        BY DEF Shape
      <3> ThreadShape(u)
        BY DEF Shape
      <3> QED
        BY <1>16, <2>1 DEF LaunchInited, ThreadShape, ThreadType, NoSend, NoRelease,
           NoLaunch, Sending, Stage
    <2> QED BY <2>2, <2>3, <2>4, <2>5, <2>6
  <1>17. ASSUME NEW t \in Thread, LaunchPush(t) PROVE TypeInv'
    <2>1. lau[t].h \in Handle
      BY <1>17 DEF LaunchPush, Shape, ThreadShape
    <2>2. Append(gq, lau[t].h) \in Seq(Handle)
      BY <1>17, <2>1 DEF LaunchPush, QueueType
    <2>3. ContextType'
      BY <1>17 DEF LaunchPush, ContextType
    <2>4. QueueType'
      BY <1>17, <2>1, <2>2 DEF LaunchPush, QueueType, GlobalPush
    <2>5. ThreadType'
      BY <1>17, <2>1, <2>2, LaunchTypes DEF LaunchPush, ThreadType
    <2>6. RestType'
      BY <1>17 DEF LaunchPush, RestType
    <2>7. Shape'
      <3> SUFFICES ASSUME NEW u \in Thread PROVE ThreadShape(u)'
        BY DEF Shape
      <3> ThreadShape(u)
        BY DEF Shape
      <3> QED
        BY <1>17, <2>1, <2>2 DEF LaunchPush, ThreadShape, ThreadType, NoSend,
           NoRelease, NoLaunch, Sending, Stage
    <2> QED BY <2>3, <2>4, <2>5, <2>6, <2>7
  <1>18. ASSUME NEW t \in Thread, LaunchReturn(t) PROVE TypeInv'
    <2>1. ContextType'
      BY <1>18 DEF LaunchReturn, ContextType
    <2>2. QueueType'
      BY <1>18 DEF LaunchReturn, QueueType
    <2>3. ThreadType'
      BY <1>18, LaunchTypes DEF LaunchReturn, ThreadType
    <2>4. RestType'
      BY <1>18 DEF LaunchReturn, RestType
    <2>5. Shape'
      <3> SUFFICES ASSUME NEW u \in Thread PROVE ThreadShape(u)'
        BY DEF Shape
      <3> ThreadShape(u)
        BY DEF Shape
      <3> QED
        BY <1>18 DEF LaunchReturn, ThreadShape, ThreadType, NoSend, NoRelease,
           NoLaunch, Sending, Stage
    <2> QED BY <2>1, <2>2, <2>3, <2>4, <2>5
  <1>19. ASSUME NEW t \in Thread, LaunchRetire(t) PROVE TypeInv'
    <2>1. lau[t].h \in Handle
      BY <1>19 DEF LaunchRetire, Shape, ThreadShape
    <2>2. ContextType'
      BY <1>19, <2>1, RetireType DEF LaunchRetire
    <2>3. QueueType'
      BY <1>19, <2>1, RetireType DEF LaunchRetire
    <2>4. ThreadType'
      BY <1>19, <2>1, LaunchTypes DEF LaunchRetire, ThreadType
    <2>5. RestType'
      BY <1>19 DEF LaunchRetire, RestType
    <2>6. Shape'
      <3> SUFFICES ASSUME NEW u \in Thread PROVE ThreadShape(u)'
        BY DEF Shape
      <3> ThreadShape(u)
        BY DEF Shape
      <3> QED
        BY <1>19, <2>1 DEF LaunchRetire, ThreadShape, ThreadType, NoSend, NoRelease,
           NoLaunch, Sending, Stage
    <2> QED BY <2>2, <2>3, <2>4, <2>5, <2>6
  <1>20. ASSUME NEW t \in Thread, LaunchDrop(t) PROVE TypeInv'
    <2>1. lau[t].h \in Handle
      BY <1>20 DEF LaunchDrop, Shape, ThreadShape
    <2>2. ContextType'
      BY <1>20 DEF LaunchDrop, ContextType
    <2>3. QueueType'
      BY <1>20, <2>1, MqReleaseType DEF LaunchDrop
    <2>4. ThreadType'
      BY <1>20, <2>1, LaunchTypes DEF LaunchDrop, ThreadType
    <2>5. RestType'
      BY <1>20 DEF LaunchDrop, RestType
    <2>6. Shape'
      <3> SUFFICES ASSUME NEW u \in Thread PROVE ThreadShape(u)'
        BY DEF Shape
      <3> ThreadShape(u)
        BY DEF Shape
      <3> QED
        BY <1>20, <2>1 DEF LaunchDrop, ThreadShape, ThreadType, NoSend, NoRelease,
           NoLaunch, Sending, Stage
    <2> QED BY <2>2, <2>3, <2>4, <2>5, <2>6
  <1>21. ASSUME NEW t \in Thread, Request(t) PROVE TypeInv'
    <2>1. PICK h \in Handle, d \in Known, call \in BOOLEAN : Request(t)!(h,d,call)
      BY <1>21 DEF Request
    <2>2. (IF call THEN session[h] + 1 ELSE 0) \in Nat
      BY <2>1 DEF ContextType
    <2>3. [kind |-> "request", session |-> IF call THEN session[h] + 1 ELSE 0, source
       |-> h] \in Message
      BY <2>1, <2>2, HandleTypes, MessageTypes
    <2>4. Sending(d, [kind |-> "request", session |-> IF call THEN session[h] + 1 ELSE
       0, source |-> h]) \in SendStage
      BY <2>1, <2>2, <2>3, HandleTypes, MessageTypes, SendTypes DEF Sending, Known
    <2>5. ContextType'
      BY <2>1, <2>2, <2>3, <2>4 DEF ContextType
    <2>6. QueueType'
      BY <2>1 DEF QueueType
    <2>7. ThreadType'
      BY <2>1, <2>2, <2>3, <2>4 DEF ThreadType
    <2>8. RestType'
      BY <2>1, <2>2, <2>3, <2>4 DEF RestType, Use, Ops
    <2>9. Shape'
      <3> SUFFICES ASSUME NEW u \in Thread PROVE ThreadShape(u)'
        BY DEF Shape
      <3> ThreadShape(u)
        BY DEF Shape
      <3> QED
        BY <2>1, <2>2, <2>3, <2>4 DEF ThreadShape, ThreadType, NoSend, NoRelease,
           NoLaunch, Sending, Stage
    <2> QED BY <2>5, <2>6, <2>7, <2>8, <2>9
  <1>22. ASSUME NEW t \in Thread, Respond(t) PROVE TypeInv'
    <2>1. PICK h \in Handle : Respond(t)!(h)
      BY <1>22 DEF Respond
    <2>2. pc[t] = "cb"
      BY <2>1, HandleTypes, ConstantsAssumption DEF InService, Running
    <2>3. msg[t] \in Message
      BY <2>1, <2>2 DEF Shape, ThreadShape
    <2>4. msg[t] \in Message /\ msg[t].session \in Nat /\ msg[t].source \in
       HandleOrNone
      BY <2>1, <2>2, <2>3, MessageTypes, <2>2, <2>3
    <2>5. [kind |-> "response", session |-> msg[t].session, source |-> h] \in Message
      BY <2>1, <2>2, <2>3, <2>4, HandleTypes, MessageTypes
    <2>6. Sending(msg[t].source, [kind |-> "response", session |-> msg[t].session,
       source |-> h]) \in SendStage
      BY <2>1, <2>2, <2>3, <2>4, <2>5, MessageTypes, SendTypes DEF Sending
    <2>7. ContextType'
      BY <2>1 DEF ContextType
    <2>8. QueueType'
      BY <2>1 DEF QueueType
    <2>9. ThreadType'
      BY <2>1, <2>2, <2>3, <2>4, <2>5, <2>6 DEF ThreadType
    <2>10. RestType'
      BY <2>1, <2>2, <2>3, <2>4, <2>5, <2>6 DEF RestType, Use, Ops
    <2>11. Shape'
      <3> SUFFICES ASSUME NEW u \in Thread PROVE ThreadShape(u)'
        BY DEF Shape
      <3> ThreadShape(u)
        BY DEF Shape
      <3> QED
        BY <2>1, <2>2, <2>3, <2>4, <2>5, <2>6 DEF ThreadShape, ThreadType, NoSend,
           NoRelease, NoLaunch, Sending, Stage
    <2> QED BY <2>7, <2>8, <2>9, <2>10, <2>11
  <1>23. ASSUME NEW t \in Thread, TimeoutNow(t) PROVE TypeInv'
    <2>1. PICK h \in Handle : TimeoutNow(t)!(h)
      BY <1>23 DEF TimeoutNow
    <2>2. session[h] + 1 \in Nat
      BY <2>1 DEF ContextType
    <2>3. TimeoutMessage(session[h] + 1) \in Message
      BY <2>1, <2>2, HandleTypes, MessageTypes DEF TimeoutMessage
    <2>4. Sending(h, TimeoutMessage(session[h] + 1)) \in SendStage
      BY <2>1, <2>2, <2>3, HandleTypes, MessageTypes, SendTypes DEF Sending
    <2>5. ContextType'
      BY <2>1, <2>2, <2>3, <2>4 DEF ContextType
    <2>6. QueueType'
      BY <2>1 DEF QueueType
    <2>7. ThreadType'
      BY <2>1, <2>2, <2>3, <2>4 DEF ThreadType
    <2>8. RestType'
      BY <2>1, <2>2, <2>3, <2>4 DEF RestType, Use, Ops
    <2>9. Shape'
      <3> SUFFICES ASSUME NEW u \in Thread PROVE ThreadShape(u)'
        BY DEF Shape
      <3> ThreadShape(u)
        BY DEF Shape
      <3> QED
        BY <2>1, <2>2, <2>3, <2>4 DEF ThreadShape, ThreadType, NoSend, NoRelease,
           NoLaunch, Sending, Stage
    <2> QED BY <2>5, <2>6, <2>7, <2>8, <2>9
  <1>24. ASSUME NEW t \in Thread, TimeoutLater(t) PROVE TypeInv'
    <2>1. PICK h \in Handle : TimeoutLater(t)!(h)
      BY <1>24 DEF TimeoutLater
    <2>2. [h |-> h, session |-> session[h] + 1] \in TimerNode
      BY <2>1, TimerTypes DEF ContextType
    <2>3. ContextType'
      BY <2>1, <2>2 DEF ContextType
    <2>4. QueueType'
      BY <2>1 DEF QueueType
    <2>5. ThreadType'
      BY <2>1 DEF ThreadType
    <2>6. RestType'
      BY <2>1, <2>2 DEF RestType, Use, Ops
    <2>7. Shape'
      BY <2>1 DEF Shape, ThreadShape
    <2> QED BY <2>3, <2>4, <2>5, <2>6, <2>7
  <1>25. ASSUME NEW t \in Thread, Forward(t) PROVE TypeInv'
    <2>1. PICK h \in Handle, d \in Known : Forward(t)!(h,d)
      BY <1>25 DEF Forward
    <2>2. ContextType'
      BY <2>1, HandleTypes DEF ContextType, Known
    <2>3. QueueType'
      BY <2>1 DEF QueueType
    <2>4. ThreadType'
      BY <2>1 DEF ThreadType
    <2>5. RestType'
      BY <2>1 DEF RestType, Use, Ops
    <2>6. Shape'
      BY <2>1 DEF Shape, ThreadShape
    <2> QED BY <2>2, <2>3, <2>4, <2>5, <2>6
  <1>26. ASSUME NEW t \in Thread, Kill(t) PROVE TypeInv'
    <2>1. PICK h \in Handle, d \in Known : Kill(t)!(h,d)
      BY <1>26 DEF Kill
    <2>2. d \in Handle
      BY <2>1 DEF Known
    <2>3. ContextType'
      BY <2>1, <2>2, RetireType
    <2>4. QueueType'
      BY <2>1, <2>2, RetireType
    <2>5. ThreadType'
      BY <2>1 DEF ThreadType
    <2>6. RestType'
      BY <2>1, <2>2 DEF RestType, Use, Ops
    <2>7. Shape'
      BY <2>1 DEF Shape, ThreadShape
    <2> QED BY <2>3, <2>4, <2>5, <2>6, <2>7
  <1>27. ASSUME NEW t \in Thread, BlockCall(t) PROVE TypeInv'
    <2>1. PICK h \in Handle, d \in Known : BlockCall(t)!(h,d)
      BY <1>27 DEF BlockCall
    <2>2. session[h] + 1 \in Nat
      BY <2>1 DEF ContextType
    <2>3. [kind |-> "request", session |-> session[h] + 1, source |-> h] \in Message
      BY <2>1, <2>2, HandleTypes, MessageTypes
    <2>4. Sending(d, [kind |-> "request", session |-> session[h] + 1, source |-> h])
       \in SendStage
      BY <2>1, <2>2, <2>3, HandleTypes, MessageTypes, SendTypes DEF Sending, Known
    <2>5. ContextType'
      BY <2>1, <2>2, <2>3, <2>4 DEF ContextType
    <2>6. QueueType'
      BY <2>1, <2>2, <2>3, <2>4 DEF QueueType, MQ_DISPATCHING
    <2>7. ThreadType'
      BY <2>1, <2>2, <2>3, <2>4 DEF ThreadType
    <2>8. RestType'
      BY <2>1, <2>2, <2>3, <2>4 DEF RestType, Use, Ops
    <2>9. Shape'
      <3> SUFFICES ASSUME NEW u \in Thread PROVE ThreadShape(u)'
        BY DEF Shape
      <3> ThreadShape(u)
        BY DEF Shape
      <3> QED
        BY <2>1, <2>2, <2>3, <2>4 DEF ThreadShape, ThreadType, NoSend, NoRelease,
           NoLaunch, Sending, Stage
    <2> QED BY <2>5, <2>6, <2>7, <2>8, <2>9
  <1>28. ASSUME NEW t \in Thread, Launch(t) PROVE TypeInv'
    <2>1. PICK h \in Handle, n \in Handle : Launch(t)!(h,n)
      BY <1>28 DEF Launch
    <2>2. ContextType'
      BY <2>1 DEF ContextType
    <2>3. QueueType'
      BY <2>1 DEF QueueType, MQ_IN_GLOBAL
    <2>4. ThreadType'
      BY <2>1, LaunchTypes DEF ThreadType
    <2>5. RestType'
      BY <2>1 DEF RestType, Use, Ops
    <2>6. Shape'
      <3> SUFFICES ASSUME NEW u \in Thread PROVE ThreadShape(u)'
        BY DEF Shape
      <3> ThreadShape(u)
        BY DEF Shape
      <3> QED
        BY <2>1 DEF ThreadShape, ThreadType, NoSend, NoRelease, NoLaunch, Sending,
           Stage
    <2> QED BY <2>2, <2>3, <2>4, <2>5, <2>6
  <1>29. ASSUME NEW t \in Thread, TimerFire(t) PROVE TypeInv'
    <2>1. PICK n \in timers : TimerFire(t)!(n)
      BY <1>29 DEF TimerFire
    <2>2. n.h \in Handle /\ n.session \in Nat
      BY <2>1, TimerTypes DEF RestType
    <2>3. TimeoutMessage(n.session) \in Message
      BY <2>1, <2>2, HandleTypes, MessageTypes DEF TimeoutMessage
    <2>4. Sending(n.h, TimeoutMessage(n.session)) \in SendStage
      BY <2>1, <2>2, <2>3, HandleTypes, MessageTypes, SendTypes DEF Sending
    <2>5. ContextType'
      BY <2>1 DEF ContextType
    <2>6. QueueType'
      BY <2>1 DEF QueueType
    <2>7. ThreadType'
      BY <2>1, <2>2, <2>3, <2>4 DEF ThreadType
    <2>8. RestType'
      BY <2>1, <2>2, <2>3, <2>4 DEF RestType
    <2>9. Shape'
      <3> SUFFICES ASSUME NEW u \in Thread PROVE ThreadShape(u)'
        BY DEF Shape
      <3> ThreadShape(u)
        BY DEF Shape
      <3> QED
        BY <2>1, <2>2, <2>3, <2>4 DEF ThreadShape, ThreadType, NoSend, NoRelease,
           NoLaunch, Sending, Stage
    <2> QED BY <2>5, <2>6, <2>7, <2>8, <2>9
  <1>30. ASSUME NEW t \in Thread, MonitorCheck(t) PROVE TypeInv'
    <2>1. PICK w \in Worker : MonitorCheck(t)!(w)
      BY <1>30 DEF MonitorCheck
    <2>2. cur[w] \in Handle /\ NoMessage \in MessageOrNone
      BY <2>1, MessageTypes DEF Thread, Shape, ThreadShape
    <2>3. [st |-> "endless", des |-> cur[w], m |-> NoMessage] \in SendStage
      BY <2>1, <2>2, HandleTypes, SendTypes
    <2>4. ContextType'
      BY <2>1 DEF ContextType
    <2>5. QueueType'
      BY <2>1 DEF QueueType
    <2>6. ThreadType'
      BY <2>1, <2>2, <2>3 DEF ThreadType
    <2>7. RestType'
      BY <2>1, <2>2, <2>3 DEF RestType, Use, Ops
    <2>8. Shape'
      <3> SUFFICES ASSUME NEW u \in Thread PROVE ThreadShape(u)'
        BY DEF Shape
      <3> ThreadShape(u)
        BY DEF Shape
      <3> QED
        BY <2>1, <2>2, <2>3 DEF ThreadShape, ThreadType, NoSend, NoRelease, NoLaunch,
           Sending, Stage
    <2> QED BY <2>4, <2>5, <2>6, <2>7, <2>8
  <1>31. ASSUME NEW t \in Thread, UseFreedQueue(t) PROVE TypeInv'
    <2>1. ContextType'
      BY <1>31 DEF UseFreedQueue, ContextType
    <2>2. QueueType'
      BY <1>31 DEF UseFreedQueue, QueueType
    <2>3. ThreadType'
      BY <1>31 DEF UseFreedQueue, ThreadType
    <2>4. RestType'
      BY <1>31 DEF UseFreedQueue, RestType
    <2>5. Shape'
      BY <1>31 DEF UseFreedQueue, Shape, ThreadShape
    <2> QED BY <2>1, <2>2, <2>3, <2>4, <2>5
  <1>32. ASSUME NEW t \in Thread, UseFreedContext(t) PROVE TypeInv'
    <2>1. ContextType'
      BY <1>32 DEF UseFreedContext, ContextType
    <2>2. QueueType'
      BY <1>32 DEF UseFreedContext, QueueType
    <2>3. ThreadType'
      BY <1>32 DEF UseFreedContext, ThreadType
    <2>4. RestType'
      BY <1>32 DEF UseFreedContext, RestType
    <2>5. Shape'
      BY <1>32 DEF UseFreedContext, Shape, ThreadShape
    <2> QED BY <2>1, <2>2, <2>3, <2>4, <2>5
  <1>33. ASSUME NEW t \in Thread, AssertForcePush(t) PROVE TypeInv'
    <2>1. ContextType'
      BY <1>33 DEF AssertForcePush, ContextType
    <2>2. QueueType'
      BY <1>33 DEF AssertForcePush, QueueType
    <2>3. ThreadType'
      BY <1>33 DEF AssertForcePush, ThreadType
    <2>4. RestType'
      BY <1>33 DEF AssertForcePush, RestType
    <2>5. Shape'
      BY <1>33 DEF AssertForcePush, Shape, ThreadShape
    <2> QED BY <2>1, <2>2, <2>3, <2>4, <2>5
  <1>34. ASSUME NEW t \in Thread, AssertLock(t) PROVE TypeInv'
    <2>1. ContextType'
      BY <1>34 DEF AssertLock, ContextType
    <2>2. QueueType'
      BY <1>34 DEF AssertLock, QueueType
    <2>3. ThreadType'
      BY <1>34 DEF AssertLock, ThreadType
    <2>4. RestType'
      BY <1>34 DEF AssertLock, RestType
    <2>5. Shape'
      BY <1>34 DEF AssertLock, Shape, ThreadShape
    <2> QED BY <2>1, <2>2, <2>3, <2>4, <2>5
  <1>35. CASE UNCHANGED vars
    BY <1>35 DEF ContextType, QueueType, ThreadType, RestType, Shape, ThreadShape
  <1> QED BY <1>1, <1>2, <1>3, <1>4, <1>5, <1>6, <1>7, <1>8, <1>9, <1>10, <1>11,
     <1>12, <1>13, <1>14, <1>15, <1>16, <1>17, <1>18, <1>19, <1>20, <1>21, <1>22,
     <1>23, <1>24, <1>25, <1>26, <1>27, <1>28, <1>29, <1>30, <1>31, <1>32, <1>33,
     <1>34, <1>35 DEF Next, Progress, Operation, Crash

(* The state of the scheduler has its type in every reachable state.       *)
THEOREM TypeCorrect == Spec => []TypeOK
  <1>1. TypeInv => TypeOK
    BY DEF TypeInv
  <1> QED
    BY InitType, StepType, <1>1, PTL DEF Spec

-----------------------------------------------------------------------------
(* References.                                                             *)

Bit(b) == IF b THEN 1 ELSE 0

(* How many references to h thread t holds.                                *)
Held(t, h) ==
    Bit(pc[t] \in {"mqpop", "cb", "done"} /\ cur[t] = h)
    + Bit(snd[t].st = "push" /\ snd[t].des = h)
    + Bit(rel[t].st = "dec" /\ rel[t].h = h)
    + Bit(lau[t].st = "init" /\ lau[t].h = h)

SameThread(u) == pc'[u] = pc[u] /\ cur'[u] = cur[u] /\ snd'[u] = snd[u] /\ rel'[u] = rel[u] /\ lau'[u] = lau[u]

LEMMA ThreadFinite == IsFiniteSet(Thread)
  BY ConstantsAssumption, FS_Union DEF Thread

LEMMA CountStep ==
    ASSUME NEW t \in Thread, NEW S \in SUBSET Thread, NEW R \in SUBSET Thread,
           S \ {t} = R \ {t}
    PROVE  /\ Cardinality(S) \in Nat /\ Cardinality(R) \in Nat
           /\ Cardinality(R) = Cardinality(S) + Bit(t \in R) - Bit(t \in S)
  <1>1. IsFiniteSet(S) /\ IsFiniteSet(R)
    BY ThreadFinite, FS_Subset
  <1>2. Cardinality(S) \in Nat /\ Cardinality(R) \in Nat
    BY <1>1, FS_CardinalityType
  <1>3. CASE (t \in S) = (t \in R)
    <2>1. S = R
      BY <1>3
    <2> QED BY <1>2, <2>1 DEF Bit
  <1>4. CASE t \in S /\ t \notin R
    <2>1. R = S \ {t}
      BY <1>4
    <2>2. Cardinality(R) = Cardinality(S) - 1
      BY <1>1, <1>4, <2>1, FS_RemoveElement
    <2> QED BY <1>2, <1>4, <2>2 DEF Bit
  <1>5. CASE t \notin S /\ t \in R
    <2>1. R = S \cup {t}
      BY <1>5
    <2>2. Cardinality(R) = Cardinality(S) + 1
      BY <1>1, <1>5, <2>1, FS_AddElement
    <2> QED BY <1>2, <1>5, <2>2 DEF Bit
  <1> QED BY <1>3, <1>4, <1>5

LEMMA RefCountStep ==
    ASSUME NEW t \in Thread, RefCount, \A u \in Thread \ {t} : SameThread(u),
           \A h \in Handle : ref'[h] = ref[h] + Bit(h \in slot') - Bit(h \in slot)
                                       + Held(t, h)' - Held(t, h)
    PROVE  RefCount'
  <1> SUFFICES ASSUME NEW h \in Handle
               PROVE  ref'[h] = Bit(h \in slot') + Cardinality(Dispatching(h))'
                        + Cardinality(Pushing(h))' + Cardinality(Dropping(h))'
                        + Cardinality(Launching(h))'
    BY DEF RefCount, Bit
  <1>1. ref[h] = Bit(h \in slot) + Cardinality(Dispatching(h)) + Cardinality(Pushing(h))
                 + Cardinality(Dropping(h)) + Cardinality(Launching(h))
    BY DEF RefCount, Bit
  <1>2. /\ Cardinality(Dispatching(h)) \in Nat /\ Cardinality(Dispatching(h))' \in Nat
        /\ Cardinality(Dispatching(h))' = Cardinality(Dispatching(h))
             + Bit(t \in Dispatching(h))' - Bit(t \in Dispatching(h))
    <2>1. Dispatching(h) \ {t} = Dispatching(h)' \ {t}
      BY DEF SameThread, Dispatching
    <2>2. Dispatching(h) \in SUBSET Thread /\ Dispatching(h)' \in SUBSET Thread
      BY DEF Dispatching
    <2> QED BY <2>1, <2>2, CountStep
  <1>3. /\ Cardinality(Pushing(h)) \in Nat /\ Cardinality(Pushing(h))' \in Nat
        /\ Cardinality(Pushing(h))' = Cardinality(Pushing(h))
             + Bit(t \in Pushing(h))' - Bit(t \in Pushing(h))
    <2>1. Pushing(h) \ {t} = Pushing(h)' \ {t}
      BY DEF SameThread, Pushing
    <2>2. Pushing(h) \in SUBSET Thread /\ Pushing(h)' \in SUBSET Thread
      BY DEF Pushing
    <2> QED BY <2>1, <2>2, CountStep
  <1>4. /\ Cardinality(Dropping(h)) \in Nat /\ Cardinality(Dropping(h))' \in Nat
        /\ Cardinality(Dropping(h))' = Cardinality(Dropping(h))
             + Bit(t \in Dropping(h))' - Bit(t \in Dropping(h))
    <2>1. Dropping(h) \ {t} = Dropping(h)' \ {t}
      BY DEF SameThread, Dropping
    <2>2. Dropping(h) \in SUBSET Thread /\ Dropping(h)' \in SUBSET Thread
      BY DEF Dropping
    <2> QED BY <2>1, <2>2, CountStep
  <1>5. /\ Cardinality(Launching(h)) \in Nat /\ Cardinality(Launching(h))' \in Nat
        /\ Cardinality(Launching(h))' = Cardinality(Launching(h))
             + Bit(t \in Launching(h))' - Bit(t \in Launching(h))
    <2>1. Launching(h) \ {t} = Launching(h)' \ {t}
      BY DEF SameThread, Launching
    <2>2. Launching(h) \in SUBSET Thread /\ Launching(h)' \in SUBSET Thread
      BY DEF Launching
    <2> QED BY <2>1, <2>2, CountStep
  <1>6. ref'[h] = ref[h] + Bit(h \in slot') - Bit(h \in slot)
          + (Bit(t \in Dispatching(h)) + Bit(t \in Pushing(h)) + Bit(t \in Dropping(h)) + Bit(t \in Launching(h)))'
          - (Bit(t \in Dispatching(h)) + Bit(t \in Pushing(h)) + Bit(t \in Dropping(h)) + Bit(t \in Launching(h)))
    BY DEF Held, Bit, Dispatching, Pushing, Dropping, Launching
  <1>7. \A b : Bit(b) \in 0 .. 1
    BY DEF Bit
  <1> QED
    BY <1>1, <1>2, <1>3, <1>4, <1>5, <1>6, <1>7, SMTT(40)

(* Who holds a reference keeps the count above 0.                          *)
LEMMA HeldPositive ==
    ASSUME RefCount, NEW h \in Handle
    PROVE  /\ ref[h] \in Nat
           /\ h \in slot => ref[h] > 0
           /\ \A t \in Thread :
                /\ pc[t] \in {"mqpop", "cb", "done"} /\ cur[t] = h => ref[h] > 0
                /\ snd[t].st = "push" /\ snd[t].des = h => ref[h] > 0
                /\ rel[t].st = "dec" /\ rel[t].h = h => ref[h] > 0
                /\ lau[t].st = "init" /\ lau[t].h = h => ref[h] > 0
  <1>1. \A S \in SUBSET Thread : Cardinality(S) \in Nat /\ (S # {} => Cardinality(S) > 0)
    <2> SUFFICES ASSUME NEW S \in SUBSET Thread
                 PROVE  Cardinality(S) \in Nat /\ (S # {} => Cardinality(S) > 0)
      OBVIOUS
    <2>1. IsFiniteSet(S)
      BY ThreadFinite, FS_Subset
    <2> QED BY <2>1, FS_CardinalityType, FS_EmptySet
  <1>2. /\ Dispatching(h) \in SUBSET Thread /\ Pushing(h) \in SUBSET Thread
        /\ Dropping(h) \in SUBSET Thread /\ Launching(h) \in SUBSET Thread
    BY DEF Dispatching, Pushing, Dropping, Launching
  <1>3. ref[h] = (IF h \in slot THEN 1 ELSE 0)
                 + Cardinality(Dispatching(h)) + Cardinality(Pushing(h))
                 + Cardinality(Dropping(h)) + Cardinality(Launching(h))
    BY DEF RefCount
  <1>4. ref[h] \in Nat /\ (h \in slot => ref[h] > 0)
        /\ (Dispatching(h) # {} => ref[h] > 0) /\ (Pushing(h) # {} => ref[h] > 0)
        /\ (Dropping(h) # {} => ref[h] > 0) /\ (Launching(h) # {} => ref[h] > 0)
    BY <1>1, <1>2, <1>3
  <1> QED
    BY <1>4 DEF Dispatching, Pushing, Dropping, Launching

(* The code of a service runs in the callback of a worker.                 *)
LEMMA Serving ==
    ASSUME NEW t \in Thread, NEW h \in Handle, Order, InService(t, h)
    PROVE  pc[t] = "cb" /\ Quiet(t) /\ lau[t].st \in {"none", "init"}
  BY ConstantsAssumption DEF Order, ThreadOrder, InService, Running

(* What the queue operations do to the global queue, and what they leave.  *)
LEMMA GlobalPushEffect ==
    ASSUME NEW h \in Handle, gq \in Seq(Handle), GlobalPush(h), NEW x \in Handle
    PROVE  InGlobalQueue(x)' <=> InGlobalQueue(x) \/ x = h
  <1>1. Len(gq) \in Nat /\ Len(gq') = Len(gq) + 1
    BY DEF GlobalPush
  <1>2. \A i \in 1 .. Len(gq) : gq'[i] = gq[i]
    BY DEF GlobalPush
  <1>3. gq'[Len(gq) + 1] = h
    BY DEF GlobalPush
  <1>4. ASSUME InGlobalQueue(x)' PROVE InGlobalQueue(x) \/ x = h
    BY <1>1, <1>2, <1>3, <1>4 DEF InGlobalQueue
  <1>5. ASSUME InGlobalQueue(x) PROVE InGlobalQueue(x)'
    BY <1>1, <1>2, <1>5 DEF InGlobalQueue
  <1>6. ASSUME x = h PROVE InGlobalQueue(x)'
    BY <1>1, <1>3, <1>6 DEF InGlobalQueue
  <1> QED BY <1>4, <1>5, <1>6

(* skynet_globalmq_pop *)
LEMMA GlobalPopEffect ==
    ASSUME gq \in Seq(Handle), gq # <<>>, gq' = Tail(gq), NEW x \in Handle
    PROVE  /\ InGlobalQueue(x)' => InGlobalQueue(x)
           /\ Head(gq) \in Handle /\ InGlobalQueue(Head(gq))
  <1>1. Len(gq) \in Nat /\ Len(gq) > 0 /\ Len(gq') = Len(gq) - 1
    OBVIOUS
  <1>2. \A i \in 1 .. Len(gq') : gq'[i] = gq[i + 1]
    OBVIOUS
  <1>3. Head(gq) = gq[1] /\ gq[1] \in Handle
    BY <1>1
  <1>4. ASSUME InGlobalQueue(x)' PROVE InGlobalQueue(x)
    BY <1>1, <1>2, <1>4 DEF InGlobalQueue
  <1> QED BY <1>1, <1>3, <1>4 DEF InGlobalQueue

(* skynet_mq_push, skynet_mq_pushglobal, skynet_mq_release                 *)
LEMMA QueueEffect ==
    ASSUME NEW h \in Handle, gq \in Seq(Handle),
           \/ \E m \in Message : MqPush(h, m)
           \/ MqPushGlobal(h) \/ MqRelease(h) \/ MarkPush(h) \/ GlobalPush(h),
           NEW x \in Handle
    PROVE  InGlobalQueue(x)' => InGlobalQueue(x) \/ x = h
  <1>1. GlobalPush(h) \/ gq' = gq
    BY DEF MqPush, PushHead, PushTail, MqPushGlobal, MqRelease, MarkPush
  <1> QED BY <1>1, GlobalPushEffect DEF InGlobalQueue

(* skynet_handle_retire *)
LEMMA RetireEffect ==
    ASSUME RefInv, NEW h \in Handle, Retire(h)
    PROVE  /\ slot' = slot \ {h}
           /\ \A x \in Handle : x # h => ref'[x] = ref[x] /\ ctx'[x] = ctx[x] /\ release'[x] = release[x]
           /\ h \in slot => ref[h] > 0 /\ ref'[h] = ref[h] - 1 /\ ctx[h] = "live"
           /\ h \in slot /\ ref[h] = 1 => ctx'[h] = "freed" /\ release'[h] /\ MarkPush(h)
           /\ h \notin slot \/ ref[h] # 1 => ctx' = ctx /\ release' = release /\ gq' = gq
           /\ h \notin slot => ref' = ref
           /\ \A x \in Handle : InGlobalQueue(x)' => InGlobalQueue(x) \/ (x = h /\ h \in slot)
           /\ \A x \in Handle : release'[x] => release[x] \/ (x = h /\ h \in slot /\ ref[h] = 1)
  <1>1. h \in slot => ref[h] > 0
    BY HeldPositive DEF RefInv
  <1>2. h \in slot => ctx[h] = "live"
    BY <1>1 DEF RefInv, TypeInv, TypeOK, ContextType, Deletion, DeletedOnce, Fresh, Unused
  <1>3. ref \in [Handle -> Int] /\ ctx \in [Handle -> {"none", "live", "freed"}]
        /\ release \in [Handle -> BOOLEAN] /\ gq \in Seq(Handle)
    BY DEF RefInv, TypeInv, TypeOK, ContextType, QueueType
  <1>4. \A x \in Handle : MarkPush(h) => (InGlobalQueue(x)' => InGlobalQueue(x) \/ x = h)
    BY <1>3, QueueEffect
  <1>5. CASE h \in slot /\ ref[h] = 1
    BY <1>1, <1>2, <1>3, <1>4, <1>5 DEF Retire
  <1>6. CASE h \in slot /\ ref[h] # 1
    BY <1>1, <1>2, <1>3, <1>6 DEF Retire, InGlobalQueue
  <1>7. CASE h \notin slot
    BY <1>3, <1>7 DEF Retire, InGlobalQueue
  <1> QED BY <1>5, <1>6, <1>7

-----------------------------------------------------------------------------
(* The initial states.                                                     *)
LEMMA InitRef == Init => RefInv
  <1> SUFFICES ASSUME Init PROVE RefInv OBVIOUS
  <1>1. Order
    BY DEF Init, Order, ThreadOrder, Quiet, NoSend, NoRelease, NoLaunch
  <1>2. RefCount
    <2> SUFFICES ASSUME NEW h \in Handle
                 PROVE  ref[h] = (IF h \in slot THEN 1 ELSE 0)
                          + Cardinality(Dispatching(h)) + Cardinality(Pushing(h))
                          + Cardinality(Dropping(h)) + Cardinality(Launching(h))
      BY DEF RefCount
    <2>1. Dispatching(h) = {} /\ Pushing(h) = {} /\ Dropping(h) = {} /\ Launching(h) = {}
      BY DEF Init, Dispatching, Pushing, Dropping, Launching, NoSend, NoRelease, NoLaunch
    <2> QED BY <2>1, FS_EmptySet DEF Init
  <1>3. Deletion
    BY DEF Init, Deletion, DeletedOnce, Deletes, NoRelease
  <1>4. Fresh
    <2>1. \A i \in 1 .. Len(gq) : gq[i] \in Boot
      BY FS_CardinalityType, ConstantsAssumption DEF Init
    <2> QED
      BY <2>1, ConstantsAssumption DEF Init, Fresh, Unused, InGlobalQueue, Involves, NoSend, NoRelease, NoLaunch
  <1> QED BY InitType, <1>1, <1>2, <1>3, <1>4 DEF RefInv

(* Every step keeps the counts.                                            *)
LEMMA StepRef == RefInv /\ [Next]_vars => RefInv'
  <1> SUFFICES ASSUME RefInv, [Next]_vars PROVE RefInv'
    OBVIOUS
  <1>0. TypeInv'
    BY StepType DEF RefInv
  <1> USE DEF RefInv, TypeInv, TypeOK, vars, ctxVars, mqVars, threadVars
  <1>1. ASSUME NEW t \in Thread, GlobalPop(t) PROVE RefInv'
    <2>1. Head(gq) \in Handle /\ InGlobalQueue(Head(gq))
             /\ \A x \in Handle : InGlobalQueue(x)' => InGlobalQueue(x)
      BY <1>1, GlobalPopEffect DEF GlobalPop, QueueType
    <2>2. \A u \in Thread \ {t} : SameThread(u)
      BY <1>1 DEF GlobalPop, ThreadType, SameThread
    <2>3. Order'
      <3>1. ThreadOrder(t)'
        BY <1>1, <2>1 DEF GlobalPop, Quiet, NoSend, NoRelease, NoLaunch, Sending,
           Stage, Order, ThreadOrder, ThreadType, ContextType
      <3> QED
        BY <2>2, <3>1 DEF Order, ThreadOrder, SameThread, Quiet
    <2>4. RefCount'
      <3>1. \A x \in Handle : ref'[x] = ref[x] + Bit(x \in slot') - Bit(x \in slot)
                                      + Held(t, x)' - Held(t, x)
        BY <1>1, <2>1 DEF GlobalPop, Quiet, NoSend, NoRelease, NoLaunch, Sending,
           Stage, Order, ThreadOrder, Shape, ThreadShape, ThreadType, ContextType,
           Held, Bit
      <3> QED BY <2>2, <3>1, RefCountStep
    <2>5. Deletion'
      BY <1>1, <2>2, <2>4, <2>1, HeldPositive DEF GlobalPop, Quiet, NoSend, NoRelease,
         NoLaunch, Sending, Stage, Deletion, DeletedOnce, Deletes, Fresh, Unused,
         Involves, SameThread, ThreadType, ContextType, QueueType
    <2>6. Fresh'
      <3> SUFFICES ASSUME NEW x \in Handle, ctx'[x] = "none" PROVE Unused(x)'
        BY DEF Fresh
      <3>1. ctx[x] = "none" /\ Unused(x)
        BY <1>1 DEF GlobalPop, Fresh, ContextType
      <3>2. x # Head(gq)
        BY <2>1, <3>1 DEF Unused
      <3>3. ~InGlobalQueue(x)'
        BY <2>1, <3>1, <3>2 DEF Unused
      <3>4. ~Involves(t, x)'
        BY <1>1, <2>1, <3>1, <3>2 DEF GlobalPop, Quiet, NoSend, NoRelease, NoLaunch,
           Sending, Stage, Unused, Involves, ThreadType
      <3>5. \A u \in Thread \ {t} : ~Involves(u, x)'
        BY <2>2, <3>1 DEF Unused, Involves, SameThread
      <3> QED
        BY <1>1, <3>1, <3>3, <3>4, <3>5 DEF GlobalPop, Unused
    <2> QED BY <1>0, <2>3, <2>4, <2>5, <2>6
  <1>2. ASSUME NEW t \in Thread, Grab(t) PROVE RefInv'
    <2>1. \A u \in Thread \ {t} : SameThread(u)
      BY <1>2 DEF Grab, ThreadType, SameThread
    <2>2. Order'
      <3>1. ThreadOrder(t)'
        BY <1>2 DEF Grab, Quiet, NoSend, NoRelease, NoLaunch, Sending, Stage, Order,
           ThreadOrder, ThreadType, ContextType
      <3> QED
        BY <2>1, <3>1 DEF Order, ThreadOrder, SameThread, Quiet
    <2>3. RefCount'
      <3>1. \A x \in Handle : ref'[x] = ref[x] + Bit(x \in slot') - Bit(x \in slot)
                                      + Held(t, x)' - Held(t, x)
        BY <1>2 DEF Grab, Quiet, NoSend, NoRelease, NoLaunch, Sending, Stage, Order,
           ThreadOrder, Shape, ThreadShape, ThreadType, ContextType, Held, Bit
      <3> QED BY <2>1, <3>1, RefCountStep
    <2>4. Deletion'
      BY <1>2, <2>1, <2>3, HeldPositive DEF Grab, Quiet, NoSend, NoRelease, NoLaunch,
         Sending, Stage, Deletion, DeletedOnce, Deletes, Fresh, Unused, Involves,
         SameThread, ThreadType, ContextType, QueueType
    <2>5. Fresh'
      <3> SUFFICES ASSUME NEW x \in Handle, ctx'[x] = "none" PROVE Unused(x)'
        BY DEF Fresh
      <3>1. ctx[x] = "none" /\ Unused(x)
        BY <1>2 DEF Grab, Fresh, ContextType
      <3>4. ~Involves(t, x)'
        BY <1>2, <3>1 DEF Grab, Quiet, NoSend, NoRelease, NoLaunch, Sending, Stage,
           Unused, Involves, ThreadType, ContextType
      <3>5. \A u \in Thread \ {t} : ~Involves(u, x)'
        BY <2>1, <3>1 DEF Unused, Involves, SameThread
      <3> QED
        BY <1>2, <3>1, <3>4, <3>5 DEF Grab, Unused, InGlobalQueue, ContextType,
           QueueType, Involves
    <2> QED BY <1>0, <2>2, <2>3, <2>4, <2>5
  <1>3. ASSUME NEW t \in Thread, DropQueue(t) PROVE RefInv'
    <2>1. cur[t] \in Handle
      BY <1>3 DEF DropQueue, Shape, ThreadShape
    <2>2. \A x \in Handle : InGlobalQueue(x)' => InGlobalQueue(x) \/ x = cur[t]
      BY <1>3, <2>1, QueueEffect DEF DropQueue, QueueType
    <2>3. release' = release
      BY <1>3 DEF DropQueue, MqRelease
    <2>4. \A u \in Thread \ {t} : SameThread(u)
      BY <1>3 DEF DropQueue, ThreadType, SameThread
    <2>5. Order'
      <3>1. ThreadOrder(t)'
        BY <1>3, <2>1 DEF DropQueue, Quiet, NoSend, NoRelease, NoLaunch, Sending,
           Stage, Order, ThreadOrder, ThreadType, ContextType
      <3> QED
        BY <2>4, <3>1 DEF Order, ThreadOrder, SameThread, Quiet
    <2>6. RefCount'
      <3>1. \A x \in Handle : ref'[x] = ref[x] + Bit(x \in slot') - Bit(x \in slot)
                                      + Held(t, x)' - Held(t, x)
        BY <1>3, <2>1, <2>2, <2>3 DEF DropQueue, Quiet, NoSend, NoRelease, NoLaunch,
           Sending, Stage, Order, ThreadOrder, Shape, ThreadShape, ThreadType,
           ContextType, Held, Bit
      <3> QED BY <2>4, <3>1, RefCountStep
    <2>7. Deletion'
      BY <1>3, <2>4, <2>6, <2>1, <2>2, <2>3, HeldPositive DEF DropQueue, Quiet,
         NoSend, NoRelease, NoLaunch, Sending, Stage, Deletion, DeletedOnce, Deletes,
         Fresh, Unused, Involves, SameThread, ThreadType, ContextType, QueueType
    <2>8. Fresh'
      <3> SUFFICES ASSUME NEW x \in Handle, ctx'[x] = "none" PROVE Unused(x)'
        BY DEF Fresh
      <3>1. ctx[x] = "none" /\ Unused(x)
        BY <1>3 DEF DropQueue, Fresh, ContextType
      <3>2. x # cur[t]
        BY <1>3, <3>1 DEF DropQueue, Unused, Involves
      <3>3. ~InGlobalQueue(x)'
        BY <2>1, <2>2, <2>3, <3>1, <3>2 DEF Unused
      <3>4. ~Involves(t, x)'
        BY <1>3, <2>1, <3>1, <3>2 DEF DropQueue, Quiet, NoSend, NoRelease, NoLaunch,
           Sending, Stage, Unused, Involves, ThreadType
      <3>5. \A u \in Thread \ {t} : ~Involves(u, x)'
        BY <2>4, <3>1 DEF Unused, Involves, SameThread
      <3> QED
        BY <1>3, <2>3, <3>1, <3>3, <3>4, <3>5 DEF DropQueue, Unused
    <2> QED BY <1>0, <2>5, <2>6, <2>7, <2>8
  <1>4. ASSUME NEW t \in Thread, PopEmpty(t) PROVE RefInv'
    <2>1. \A u \in Thread \ {t} : SameThread(u)
      BY <1>4 DEF PopEmpty, ThreadType, SameThread
    <2>2. Order'
      <3>1. ThreadOrder(t)'
        BY <1>4 DEF PopEmpty, Quiet, NoSend, NoRelease, NoLaunch, Sending, Stage,
           Order, ThreadOrder, ThreadType, ContextType
      <3> QED
        BY <2>1, <3>1 DEF Order, ThreadOrder, SameThread, Quiet
    <2>3. RefCount'
      <3>1. \A x \in Handle : ref'[x] = ref[x] + Bit(x \in slot') - Bit(x \in slot)
                                      + Held(t, x)' - Held(t, x)
        BY <1>4 DEF PopEmpty, Quiet, NoSend, NoRelease, NoLaunch, Sending, Stage,
           Order, ThreadOrder, Shape, ThreadShape, ThreadType, ContextType, Held, Bit
      <3> QED BY <2>1, <3>1, RefCountStep
    <2>4. Deletion'
      BY <1>4, <2>1, <2>3, HeldPositive DEF PopEmpty, Quiet, NoSend, NoRelease,
         NoLaunch, Sending, Stage, Deletion, DeletedOnce, Deletes, Fresh, Unused,
         Involves, SameThread, ThreadType, ContextType, QueueType
    <2>5. Fresh'
      <3> SUFFICES ASSUME NEW x \in Handle, ctx'[x] = "none" PROVE Unused(x)'
        BY DEF Fresh
      <3>1. ctx[x] = "none" /\ Unused(x)
        BY <1>4 DEF PopEmpty, Fresh, ContextType
      <3>4. ~Involves(t, x)'
        BY <1>4, <3>1 DEF PopEmpty, Quiet, NoSend, NoRelease, NoLaunch, Sending,
           Stage, Unused, Involves, ThreadType, ContextType
      <3>5. \A u \in Thread \ {t} : ~Involves(u, x)'
        BY <2>1, <3>1 DEF Unused, Involves, SameThread
      <3> QED
        BY <1>4, <3>1, <3>4, <3>5 DEF PopEmpty, Unused, InGlobalQueue, ContextType,
           QueueType
    <2> QED BY <1>0, <2>2, <2>3, <2>4, <2>5
  <1>5. ASSUME NEW t \in Thread, PopMessage(t) PROVE RefInv'
    <2>1. \A u \in Thread \ {t} : SameThread(u)
      BY <1>5 DEF PopMessage, ThreadType, SameThread
    <2>2. Order'
      <3>1. ThreadOrder(t)'
        BY <1>5 DEF PopMessage, Quiet, NoSend, NoRelease, NoLaunch, Sending, Stage,
           Order, ThreadOrder, ThreadType, ContextType
      <3> QED
        BY <2>1, <3>1 DEF Order, ThreadOrder, SameThread, Quiet
    <2>3. RefCount'
      <3>1. \A x \in Handle : ref'[x] = ref[x] + Bit(x \in slot') - Bit(x \in slot)
                                      + Held(t, x)' - Held(t, x)
        BY <1>5 DEF PopMessage, Quiet, NoSend, NoRelease, NoLaunch, Sending, Stage,
           Order, ThreadOrder, Shape, ThreadShape, ThreadType, ContextType, Held, Bit
      <3> QED BY <2>1, <3>1, RefCountStep
    <2>4. Deletion'
      BY <1>5, <2>1, <2>3, HeldPositive DEF PopMessage, Quiet, NoSend, NoRelease,
         NoLaunch, Sending, Stage, Deletion, DeletedOnce, Deletes, Fresh, Unused,
         Involves, SameThread, ThreadType, ContextType, QueueType
    <2>5. Fresh'
      <3> SUFFICES ASSUME NEW x \in Handle, ctx'[x] = "none" PROVE Unused(x)'
        BY DEF Fresh
      <3>1. ctx[x] = "none" /\ Unused(x)
        BY <1>5 DEF PopMessage, Fresh, ContextType
      <3>4. ~Involves(t, x)'
        BY <1>5, <3>1 DEF PopMessage, Quiet, NoSend, NoRelease, NoLaunch, Sending,
           Stage, Unused, Involves, ThreadType, ContextType
      <3>5. \A u \in Thread \ {t} : ~Involves(u, x)'
        BY <2>1, <3>1 DEF Unused, Involves, SameThread
      <3> QED
        BY <1>5, <3>1, <3>4, <3>5 DEF PopMessage, Unused, InGlobalQueue, ContextType,
           QueueType
    <2> QED BY <1>0, <2>2, <2>3, <2>4, <2>5
  <1>6. ASSUME NEW t \in Thread, CallbackEnd(t) PROVE RefInv'
    <2>1. \A u \in Thread \ {t} : SameThread(u)
      BY <1>6 DEF CallbackEnd, ThreadType, SameThread
    <2>2. Order'
      <3>1. ThreadOrder(t)'
        BY <1>6 DEF CallbackEnd, Quiet, NoSend, NoRelease, NoLaunch, Sending, Stage,
           Order, ThreadOrder, ThreadType, ContextType
      <3> QED
        BY <2>1, <3>1 DEF Order, ThreadOrder, SameThread, Quiet
    <2>3. RefCount'
      <3>1. \A x \in Handle : ref'[x] = ref[x] + Bit(x \in slot') - Bit(x \in slot)
                                      + Held(t, x)' - Held(t, x)
        BY <1>6 DEF CallbackEnd, Quiet, NoSend, NoRelease, NoLaunch, Sending, Stage,
           Order, ThreadOrder, Shape, ThreadShape, ThreadType, ContextType, Held, Bit
      <3> QED BY <2>1, <3>1, RefCountStep
    <2>4. Deletion'
      BY <1>6, <2>1, <2>3, HeldPositive DEF CallbackEnd, Quiet, NoSend, NoRelease,
         NoLaunch, Sending, Stage, Deletion, DeletedOnce, Deletes, Fresh, Unused,
         Involves, SameThread, ThreadType, ContextType, QueueType
    <2>5. Fresh'
      <3> SUFFICES ASSUME NEW x \in Handle, ctx'[x] = "none" PROVE Unused(x)'
        BY DEF Fresh
      <3>1. ctx[x] = "none" /\ Unused(x)
        BY <1>6 DEF CallbackEnd, Fresh, ContextType
      <3>4. ~Involves(t, x)'
        BY <1>6, <3>1 DEF CallbackEnd, Quiet, NoSend, NoRelease, NoLaunch, Sending,
           Stage, Unused, Involves, ThreadType, ContextType
      <3>5. \A u \in Thread \ {t} : ~Involves(u, x)'
        BY <2>1, <3>1 DEF Unused, Involves, SameThread
      <3> QED
        BY <1>6, <3>1, <3>4, <3>5 DEF CallbackEnd, Unused, InGlobalQueue, ContextType,
           QueueType
    <2> QED BY <1>0, <2>2, <2>3, <2>4, <2>5
  <1>7. ASSUME NEW t \in Thread, DispatchRelease(t) PROVE RefInv'
    <2>1. \A u \in Thread \ {t} : SameThread(u)
      BY <1>7 DEF DispatchRelease, ThreadType, SameThread
    <2>2. Order'
      <3>1. ThreadOrder(t)'
        BY <1>7 DEF DispatchRelease, Quiet, NoSend, NoRelease, NoLaunch, Sending,
           Stage, Order, ThreadOrder, ThreadType, ContextType
      <3> QED
        BY <2>1, <3>1 DEF Order, ThreadOrder, SameThread, Quiet
    <2>3. RefCount'
      <3>1. \A x \in Handle : ref'[x] = ref[x] + Bit(x \in slot') - Bit(x \in slot)
                                      + Held(t, x)' - Held(t, x)
        BY <1>7 DEF DispatchRelease, Quiet, NoSend, NoRelease, NoLaunch, Sending,
           Stage, Order, ThreadOrder, Shape, ThreadShape, ThreadType, ContextType,
           Held, Bit
      <3> QED BY <2>1, <3>1, RefCountStep
    <2>4. Deletion'
      BY <1>7, <2>1, <2>3, HeldPositive DEF DispatchRelease, Quiet, NoSend, NoRelease,
         NoLaunch, Sending, Stage, Deletion, DeletedOnce, Deletes, Fresh, Unused,
         Involves, SameThread, ThreadType, ContextType, QueueType
    <2>5. Fresh'
      <3> SUFFICES ASSUME NEW x \in Handle, ctx'[x] = "none" PROVE Unused(x)'
        BY DEF Fresh
      <3>1. ctx[x] = "none" /\ Unused(x)
        BY <1>7 DEF DispatchRelease, Fresh, ContextType
      <3>4. ~Involves(t, x)'
        BY <1>7, <3>1 DEF DispatchRelease, Quiet, NoSend, NoRelease, NoLaunch,
           Sending, Stage, Unused, Involves, ThreadType, ContextType
      <3>5. \A u \in Thread \ {t} : ~Involves(u, x)'
        BY <2>1, <3>1 DEF Unused, Involves, SameThread
      <3> QED
        BY <1>7, <3>1, <3>4, <3>5 DEF DispatchRelease, Unused, InGlobalQueue,
           ContextType, QueueType
    <2> QED BY <1>0, <2>2, <2>3, <2>4, <2>5
  <1>8. ASSUME NEW t \in Thread, PushGlobal(t) PROVE RefInv'
    <2>1. cur[t] \in Handle
      BY <1>8 DEF PushGlobal, Shape, ThreadShape
    <2>2. \A x \in Handle : InGlobalQueue(x)' => InGlobalQueue(x) \/ x = cur[t]
      BY <1>8, <2>1, QueueEffect DEF PushGlobal, QueueType
    <2>3. release' = release
      BY <1>8 DEF PushGlobal, MqPushGlobal
    <2>4. \A u \in Thread \ {t} : SameThread(u)
      BY <1>8 DEF PushGlobal, ThreadType, SameThread
    <2>5. Order'
      <3>1. ThreadOrder(t)'
        BY <1>8, <2>1 DEF PushGlobal, Quiet, NoSend, NoRelease, NoLaunch, Sending,
           Stage, Order, ThreadOrder, ThreadType, ContextType
      <3> QED
        BY <2>4, <3>1 DEF Order, ThreadOrder, SameThread, Quiet
    <2>6. RefCount'
      <3>1. \A x \in Handle : ref'[x] = ref[x] + Bit(x \in slot') - Bit(x \in slot)
                                      + Held(t, x)' - Held(t, x)
        BY <1>8, <2>1, <2>2, <2>3 DEF PushGlobal, Quiet, NoSend, NoRelease, NoLaunch,
           Sending, Stage, Order, ThreadOrder, Shape, ThreadShape, ThreadType,
           ContextType, Held, Bit
      <3> QED BY <2>4, <3>1, RefCountStep
    <2>7. Deletion'
      BY <1>8, <2>4, <2>6, <2>1, <2>2, <2>3, HeldPositive DEF PushGlobal, Quiet,
         NoSend, NoRelease, NoLaunch, Sending, Stage, Deletion, DeletedOnce, Deletes,
         Fresh, Unused, Involves, SameThread, ThreadType, ContextType, QueueType
    <2>8. Fresh'
      <3> SUFFICES ASSUME NEW x \in Handle, ctx'[x] = "none" PROVE Unused(x)'
        BY DEF Fresh
      <3>1. ctx[x] = "none" /\ Unused(x)
        BY <1>8 DEF PushGlobal, Fresh, ContextType
      <3>2. x # cur[t]
        BY <1>8, <3>1 DEF PushGlobal, Unused, Involves
      <3>3. ~InGlobalQueue(x)'
        BY <2>1, <2>2, <2>3, <3>1, <3>2 DEF Unused
      <3>4. ~Involves(t, x)'
        BY <1>8, <2>1, <3>1, <3>2 DEF PushGlobal, Quiet, NoSend, NoRelease, NoLaunch,
           Sending, Stage, Unused, Involves, ThreadType
      <3>5. \A u \in Thread \ {t} : ~Involves(u, x)'
        BY <2>4, <3>1 DEF Unused, Involves, SameThread
      <3> QED
        BY <1>8, <2>3, <3>1, <3>3, <3>4, <3>5 DEF PushGlobal, Unused
    <2> QED BY <1>0, <2>5, <2>6, <2>7, <2>8
  <1>9. ASSUME NEW t \in Thread, SendGrab(t) PROVE RefInv'
    <2>1. \A u \in Thread \ {t} : SameThread(u)
      BY <1>9 DEF SendGrab, ThreadType, SameThread
    <2>2. Order'
      <3>1. ThreadOrder(t)'
        BY <1>9 DEF SendGrab, Quiet, NoSend, NoRelease, NoLaunch, Sending, Stage,
           Order, ThreadOrder, ThreadType, ContextType
      <3> QED
        BY <2>1, <3>1 DEF Order, ThreadOrder, SameThread, Quiet
    <2>3. RefCount'
      <3>1. \A x \in Handle : ref'[x] = ref[x] + Bit(x \in slot') - Bit(x \in slot)
                                      + Held(t, x)' - Held(t, x)
        BY <1>9 DEF SendGrab, Quiet, NoSend, NoRelease, NoLaunch, Sending, Stage,
           Order, ThreadOrder, Shape, ThreadShape, ThreadType, ContextType, Held, Bit
      <3> QED BY <2>1, <3>1, RefCountStep
    <2>4. Deletion'
      BY <1>9, <2>1, <2>3, HeldPositive DEF SendGrab, Quiet, NoSend, NoRelease,
         NoLaunch, Sending, Stage, Deletion, DeletedOnce, Deletes, Fresh, Unused,
         Involves, SameThread, ThreadType, ContextType, QueueType
    <2>5. Fresh'
      <3> SUFFICES ASSUME NEW x \in Handle, ctx'[x] = "none" PROVE Unused(x)'
        BY DEF Fresh
      <3>1. ctx[x] = "none" /\ Unused(x)
        BY <1>9 DEF SendGrab, Fresh, ContextType
      <3>4. ~Involves(t, x)'
        BY <1>9, <3>1 DEF SendGrab, Quiet, NoSend, NoRelease, NoLaunch, Sending,
           Stage, Unused, Involves, ThreadType, ContextType, Fresh
      <3>5. \A u \in Thread \ {t} : ~Involves(u, x)'
        BY <2>1, <3>1 DEF Unused, Involves, SameThread
      <3> QED
        BY <1>9, <3>1, <3>4, <3>5 DEF SendGrab, Unused, InGlobalQueue, ContextType,
           QueueType
    <2> QED BY <1>0, <2>2, <2>3, <2>4, <2>5
  <1>10. ASSUME NEW t \in Thread, SendPush(t) PROVE RefInv'
    <2>1. snd[t].des \in Handle /\ snd[t].m \in Message
      BY <1>10 DEF SendPush, Shape, ThreadShape
    <2>2. \A x \in Handle : InGlobalQueue(x)' => InGlobalQueue(x) \/ x = snd[t].des
      BY <1>10, <2>1, QueueEffect DEF SendPush, QueueType
    <2>3. release' = release
      BY <1>10 DEF SendPush, MqPush
    <2>4. \A u \in Thread \ {t} : SameThread(u)
      BY <1>10 DEF SendPush, ThreadType, SameThread
    <2>5. Order'
      <3>1. ThreadOrder(t)'
        BY <1>10, <2>1 DEF SendPush, Quiet, NoSend, NoRelease, NoLaunch, Sending,
           Stage, Order, ThreadOrder, ThreadType, ContextType
      <3> QED
        BY <2>4, <3>1 DEF Order, ThreadOrder, SameThread, Quiet
    <2>6. RefCount'
      <3>1. \A x \in Handle : ref'[x] = ref[x] + Bit(x \in slot') - Bit(x \in slot)
                                      + Held(t, x)' - Held(t, x)
        BY <1>10, <2>1, <2>2, <2>3 DEF SendPush, Quiet, NoSend, NoRelease, NoLaunch,
           Sending, Stage, Order, ThreadOrder, Shape, ThreadShape, ThreadType,
           ContextType, Held, Bit
      <3> QED BY <2>4, <3>1, RefCountStep
    <2>7. Deletion'
      BY <1>10, <2>4, <2>6, <2>1, <2>2, <2>3, HeldPositive DEF SendPush, Quiet,
         NoSend, NoRelease, NoLaunch, Sending, Stage, Deletion, DeletedOnce, Deletes,
         Fresh, Unused, Involves, SameThread, ThreadType, ContextType, QueueType
    <2>8. Fresh'
      <3> SUFFICES ASSUME NEW x \in Handle, ctx'[x] = "none" PROVE Unused(x)'
        BY DEF Fresh
      <3>1. ctx[x] = "none" /\ Unused(x)
        BY <1>10 DEF SendPush, Fresh, ContextType
      <3>2. x # snd[t].des
        BY <1>10, <3>1 DEF SendPush, Unused, Involves
      <3>3. ~InGlobalQueue(x)'
        BY <2>1, <2>2, <2>3, <3>1, <3>2 DEF Unused
      <3>4. ~Involves(t, x)'
        BY <1>10, <2>1, <3>1, <3>2 DEF SendPush, Quiet, NoSend, NoRelease, NoLaunch,
           Sending, Stage, Unused, Involves, ThreadType
      <3>5. \A u \in Thread \ {t} : ~Involves(u, x)'
        BY <2>4, <3>1 DEF Unused, Involves, SameThread
      <3> QED
        BY <1>10, <2>3, <3>1, <3>3, <3>4, <3>5 DEF SendPush, Unused
    <2> QED BY <1>0, <2>5, <2>6, <2>7, <2>8
  <1>11. ASSUME NEW t \in Thread, MonitorEndless(t) PROVE RefInv'
    <2>1. \A u \in Thread \ {t} : SameThread(u)
      BY <1>11 DEF MonitorEndless, ThreadType, SameThread
    <2>2. Order'
      <3>1. ThreadOrder(t)'
        BY <1>11 DEF MonitorEndless, Quiet, NoSend, NoRelease, NoLaunch, Sending,
           Stage, Order, ThreadOrder, ThreadType, ContextType
      <3> QED
        BY <2>1, <3>1 DEF Order, ThreadOrder, SameThread, Quiet
    <2>3. RefCount'
      <3>1. \A x \in Handle : ref'[x] = ref[x] + Bit(x \in slot') - Bit(x \in slot)
                                      + Held(t, x)' - Held(t, x)
        BY <1>11 DEF MonitorEndless, Quiet, NoSend, NoRelease, NoLaunch, Sending,
           Stage, Order, ThreadOrder, Shape, ThreadShape, ThreadType, ContextType,
           Held, Bit
      <3> QED BY <2>1, <3>1, RefCountStep
    <2>4. Deletion'
      <3> SUFFICES ASSUME NEW x \in Handle PROVE DeletedOnce(x)'
        BY DEF Deletion
      <3>1. DeletedOnce(x)
        BY DEF Deletion
      <3>2. ref[x] \in Nat /\ (x \in slot => ref[x] > 0)
        BY HeldPositive
      <3>3. \A u \in Thread : Deletes(u, x)' => Deletes(u, x)
        BY <1>11, <2>1 DEF MonitorEndless, Deletes, SameThread, ThreadType, Stage
      <3>4. ref'[x] = ref[x] \/ x \in slot
        BY <1>11 DEF MonitorEndless, ContextType
      <3>5. UNCHANGED <<ctx, release>>
        BY <1>11 DEF MonitorEndless
      <3> QED
        BY <3>1, <3>2, <3>3, <3>4, <3>5 DEF DeletedOnce
    <2>5. Fresh'
      <3> SUFFICES ASSUME NEW x \in Handle, ctx'[x] = "none" PROVE Unused(x)'
        BY DEF Fresh
      <3>1. ctx[x] = "none" /\ Unused(x)
        BY <1>11 DEF MonitorEndless, Fresh, ContextType
      <3>4. ~Involves(t, x)'
        BY <1>11, <3>1 DEF MonitorEndless, Quiet, NoSend, NoRelease, NoLaunch,
           Sending, Stage, Unused, Involves, ThreadType, ContextType, Fresh
      <3>5. \A u \in Thread \ {t} : ~Involves(u, x)'
        BY <2>1, <3>1 DEF Unused, Involves, SameThread
      <3> QED
        BY <1>11, <3>1, <3>4, <3>5 DEF MonitorEndless, Unused, InGlobalQueue,
           ContextType, QueueType
    <2> QED BY <1>0, <2>2, <2>3, <2>4, <2>5
  <1>12. ASSUME NEW t \in Thread, ReleaseDec(t) PROVE RefInv'
    <2>1. \A u \in Thread \ {t} : SameThread(u)
      BY <1>12 DEF ReleaseDec, ThreadType, SameThread
    <2>2. Order'
      <3>1. ThreadOrder(t)'
        BY <1>12 DEF ReleaseDec, Quiet, NoSend, NoRelease, NoLaunch, Sending, Stage,
           Order, ThreadOrder, ThreadType, ContextType
      <3> QED
        BY <2>1, <3>1 DEF Order, ThreadOrder, SameThread, Quiet
    <2>3. RefCount'
      <3>1. \A x \in Handle : ref'[x] = ref[x] + Bit(x \in slot') - Bit(x \in slot)
                                      + Held(t, x)' - Held(t, x)
        BY <1>12 DEF ReleaseDec, Quiet, NoSend, NoRelease, NoLaunch, Sending, Stage,
           Order, ThreadOrder, Shape, ThreadShape, ThreadType, ContextType, Held, Bit
      <3> QED BY <2>1, <3>1, RefCountStep
    <2>4. Deletion'
      BY <1>12, <2>1, <2>3, HeldPositive DEF ReleaseDec, Quiet, NoSend, NoRelease,
         NoLaunch, Sending, Stage, Deletion, DeletedOnce, Deletes, Fresh, Unused,
         Involves, SameThread, ThreadType, ContextType, QueueType
    <2>5. Fresh'
      <3> SUFFICES ASSUME NEW x \in Handle, ctx'[x] = "none" PROVE Unused(x)'
        BY DEF Fresh
      <3>1. ctx[x] = "none" /\ Unused(x)
        BY <1>12 DEF ReleaseDec, Fresh, ContextType
      <3>4. ~Involves(t, x)'
        BY <1>12, <3>1 DEF ReleaseDec, Quiet, NoSend, NoRelease, NoLaunch, Sending,
           Stage, Unused, Involves, ThreadType, ContextType
      <3>5. \A u \in Thread \ {t} : ~Involves(u, x)'
        BY <2>1, <3>1 DEF Unused, Involves, SameThread
      <3> QED
        BY <1>12, <3>1, <3>4, <3>5 DEF ReleaseDec, Unused, InGlobalQueue, ContextType,
           QueueType, Involves
    <2> QED BY <1>0, <2>2, <2>3, <2>4, <2>5
  <1>13. ASSUME NEW t \in Thread, ReleaseMark(t) PROVE RefInv'
    <2>1. rel[t].h \in Handle
      BY <1>13 DEF ReleaseMark, Shape, ThreadShape
    <2>2. \A x \in Handle : InGlobalQueue(x)' => InGlobalQueue(x) \/ x = rel[t].h
      BY <1>13, <2>1, QueueEffect DEF ReleaseMark, QueueType
    <2>3. release' = release
      BY <1>13 DEF ReleaseMark
    <2>4. \A u \in Thread \ {t} : SameThread(u)
      BY <1>13 DEF ReleaseMark, ThreadType, SameThread
    <2>5. Order'
      <3>1. ThreadOrder(t)'
        BY <1>13, <2>1 DEF ReleaseMark, Quiet, NoSend, NoRelease, NoLaunch, Sending,
           Stage, Order, ThreadOrder, ThreadType, ContextType
      <3> QED
        BY <2>4, <3>1 DEF Order, ThreadOrder, SameThread, Quiet
    <2>6. RefCount'
      <3>1. \A x \in Handle : ref'[x] = ref[x] + Bit(x \in slot') - Bit(x \in slot)
                                      + Held(t, x)' - Held(t, x)
        BY <1>13, <2>1, <2>2, <2>3 DEF ReleaseMark, Quiet, NoSend, NoRelease,
           NoLaunch, Sending, Stage, Order, ThreadOrder, Shape, ThreadShape,
           ThreadType, ContextType, Held, Bit
      <3> QED BY <2>4, <3>1, RefCountStep
    <2>7. Deletion'
      BY <1>13, <2>4, <2>6, <2>1, <2>2, <2>3, HeldPositive DEF ReleaseMark, Quiet,
         NoSend, NoRelease, NoLaunch, Sending, Stage, Deletion, DeletedOnce, Deletes,
         Fresh, Unused, Involves, SameThread, ThreadType, ContextType, QueueType
    <2>8. Fresh'
      <3> SUFFICES ASSUME NEW x \in Handle, ctx'[x] = "none" PROVE Unused(x)'
        BY DEF Fresh
      <3>1. ctx[x] = "none" /\ Unused(x)
        BY <1>13 DEF ReleaseMark, Fresh, ContextType
      <3>2. x # rel[t].h
        BY <1>13, <3>1 DEF ReleaseMark, Unused, Involves
      <3>3. ~InGlobalQueue(x)'
        BY <2>1, <2>2, <2>3, <3>1, <3>2 DEF Unused
      <3>4. ~Involves(t, x)'
        BY <1>13, <2>1, <3>1, <3>2 DEF ReleaseMark, Quiet, NoSend, NoRelease,
           NoLaunch, Sending, Stage, Unused, Involves, ThreadType
      <3>5. \A u \in Thread \ {t} : ~Involves(u, x)'
        BY <2>4, <3>1 DEF Unused, Involves, SameThread
      <3> QED
        BY <1>13, <2>3, <3>1, <3>3, <3>4, <3>5 DEF ReleaseMark, Unused
    <2> QED BY <1>0, <2>5, <2>6, <2>7, <2>8
  <1>14. ASSUME NEW t \in Thread, ReleaseFree(t) PROVE RefInv'
    <2>1. \A u \in Thread \ {t} : SameThread(u)
      BY <1>14 DEF ReleaseFree, ThreadType, SameThread
    <2>2. Order'
      <3>1. ThreadOrder(t)'
        BY <1>14 DEF ReleaseFree, Quiet, NoSend, NoRelease, NoLaunch, Sending, Stage,
           Order, ThreadOrder, ThreadType, ContextType
      <3> QED
        BY <2>1, <3>1 DEF Order, ThreadOrder, SameThread, Quiet
    <2>3. RefCount'
      <3>1. \A x \in Handle : ref'[x] = ref[x] + Bit(x \in slot') - Bit(x \in slot)
                                      + Held(t, x)' - Held(t, x)
        BY <1>14 DEF ReleaseFree, Quiet, NoSend, NoRelease, NoLaunch, Sending, Stage,
           Order, ThreadOrder, Shape, ThreadShape, ThreadType, ContextType, Held, Bit
      <3> QED BY <2>1, <3>1, RefCountStep
    <2>4. Deletion'
      BY <1>14, <2>1, <2>3, HeldPositive DEF ReleaseFree, Quiet, NoSend, NoRelease,
         NoLaunch, Sending, Stage, Deletion, DeletedOnce, Deletes, Fresh, Unused,
         Involves, SameThread, ThreadType, ContextType, QueueType
    <2>5. Fresh'
      <3> SUFFICES ASSUME NEW x \in Handle, ctx'[x] = "none" PROVE Unused(x)'
        BY DEF Fresh
      <3>1. ctx[x] = "none" /\ Unused(x)
        BY <1>14 DEF ReleaseFree, Fresh, ContextType
      <3>4. ~Involves(t, x)'
        BY <1>14, <3>1 DEF ReleaseFree, Quiet, NoSend, NoRelease, NoLaunch, Sending,
           Stage, Unused, Involves, ThreadType, ContextType
      <3>5. \A u \in Thread \ {t} : ~Involves(u, x)'
        BY <2>1, <3>1 DEF Unused, Involves, SameThread
      <3> QED
        BY <1>14, <3>1, <3>4, <3>5 DEF ReleaseFree, Unused, InGlobalQueue,
           ContextType, QueueType, Involves
    <2> QED BY <1>0, <2>2, <2>3, <2>4, <2>5
  <1>15. ASSUME NEW t \in Thread, InitReturn(t) PROVE RefInv'
    <2>1. PICK ok \in BOOLEAN : InitReturn(t)!(ok)
      BY <1>15 DEF InitReturn
    <2>2. \A u \in Thread \ {t} : SameThread(u)
      BY <2>1 DEF ThreadType, SameThread
    <2>3. Order'
      <3>1. ThreadOrder(t)'
        BY <2>1 DEF Quiet, NoSend, NoRelease, NoLaunch, Sending, Stage, Order,
           ThreadOrder, ThreadType, ContextType
      <3> QED
        BY <2>2, <3>1 DEF Order, ThreadOrder, SameThread, Quiet
    <2>4. RefCount'
      <3>1. \A x \in Handle : ref'[x] = ref[x] + Bit(x \in slot') - Bit(x \in slot)
                                      + Held(t, x)' - Held(t, x)
        BY <2>1 DEF Quiet, NoSend, NoRelease, NoLaunch, Sending, Stage, Order,
           ThreadOrder, Shape, ThreadShape, ThreadType, ContextType, Held, Bit
      <3> QED BY <2>2, <3>1, RefCountStep
    <2>5. Deletion'
      BY <2>1, <2>2, <2>4, HeldPositive DEF Quiet, NoSend, NoRelease, NoLaunch,
         Sending, Stage, Deletion, DeletedOnce, Deletes, Fresh, Unused, Involves,
         SameThread, ThreadType, ContextType, QueueType
    <2>6. Fresh'
      <3> SUFFICES ASSUME NEW x \in Handle, ctx'[x] = "none" PROVE Unused(x)'
        BY DEF Fresh
      <3>1. ctx[x] = "none" /\ Unused(x)
        BY <2>1 DEF Fresh, ContextType
      <3>4. ~Involves(t, x)'
        BY <2>1, <3>1 DEF Quiet, NoSend, NoRelease, NoLaunch, Sending, Stage, Unused,
           Involves, ThreadType, ContextType
      <3>5. \A u \in Thread \ {t} : ~Involves(u, x)'
        BY <2>2, <3>1 DEF Unused, Involves, SameThread
      <3> QED
        BY <2>1, <3>1, <3>4, <3>5 DEF Unused, InGlobalQueue, ContextType, QueueType,
           Involves
    <2> QED BY <1>0, <2>3, <2>4, <2>5, <2>6
  <1>16. ASSUME NEW t \in Thread, LaunchInited(t) PROVE RefInv'
    <2>1. \A u \in Thread \ {t} : SameThread(u)
      BY <1>16 DEF LaunchInited, ThreadType, SameThread
    <2>2. Order'
      <3>1. ThreadOrder(t)'
        BY <1>16 DEF LaunchInited, Quiet, NoSend, NoRelease, NoLaunch, Sending, Stage,
           Order, ThreadOrder, ThreadType, ContextType
      <3> QED
        BY <2>1, <3>1 DEF Order, ThreadOrder, SameThread, Quiet
    <2>3. RefCount'
      <3>1. \A x \in Handle : ref'[x] = ref[x] + Bit(x \in slot') - Bit(x \in slot)
                                      + Held(t, x)' - Held(t, x)
        BY <1>16 DEF LaunchInited, Quiet, NoSend, NoRelease, NoLaunch, Sending, Stage,
           Order, ThreadOrder, Shape, ThreadShape, ThreadType, ContextType, Held, Bit
      <3> QED BY <2>1, <3>1, RefCountStep
    <2>4. Deletion'
      BY <1>16, <2>1, <2>3, HeldPositive DEF LaunchInited, Quiet, NoSend, NoRelease,
         NoLaunch, Sending, Stage, Deletion, DeletedOnce, Deletes, Fresh, Unused,
         Involves, SameThread, ThreadType, ContextType, QueueType
    <2>5. Fresh'
      <3> SUFFICES ASSUME NEW x \in Handle, ctx'[x] = "none" PROVE Unused(x)'
        BY DEF Fresh
      <3>1. ctx[x] = "none" /\ Unused(x)
        BY <1>16 DEF LaunchInited, Fresh, ContextType
      <3>4. ~Involves(t, x)'
        BY <1>16, <3>1 DEF LaunchInited, Quiet, NoSend, NoRelease, NoLaunch, Sending,
           Stage, Unused, Involves, ThreadType, ContextType
      <3>5. \A u \in Thread \ {t} : ~Involves(u, x)'
        BY <2>1, <3>1 DEF Unused, Involves, SameThread
      <3> QED
        BY <1>16, <3>1, <3>4, <3>5 DEF LaunchInited, Unused, InGlobalQueue,
           ContextType, QueueType, Involves
    <2> QED BY <1>0, <2>2, <2>3, <2>4, <2>5
  <1>17. ASSUME NEW t \in Thread, LaunchPush(t) PROVE RefInv'
    <2>1. lau[t].h \in Handle
      BY <1>17 DEF LaunchPush, Shape, ThreadShape
    <2>2. \A x \in Handle : InGlobalQueue(x)' => InGlobalQueue(x) \/ x = lau[t].h
      BY <1>17, <2>1, QueueEffect DEF LaunchPush, QueueType
    <2>3. release' = release
      BY <1>17 DEF LaunchPush
    <2>4. \A u \in Thread \ {t} : SameThread(u)
      BY <1>17 DEF LaunchPush, ThreadType, SameThread
    <2>5. Order'
      <3>1. ThreadOrder(t)'
        BY <1>17, <2>1 DEF LaunchPush, Quiet, NoSend, NoRelease, NoLaunch, Sending,
           Stage, Order, ThreadOrder, ThreadType, ContextType
      <3> QED
        BY <2>4, <3>1 DEF Order, ThreadOrder, SameThread, Quiet
    <2>6. RefCount'
      <3>1. \A x \in Handle : ref'[x] = ref[x] + Bit(x \in slot') - Bit(x \in slot)
                                      + Held(t, x)' - Held(t, x)
        BY <1>17, <2>1, <2>2, <2>3 DEF LaunchPush, Quiet, NoSend, NoRelease, NoLaunch,
           Sending, Stage, Order, ThreadOrder, Shape, ThreadShape, ThreadType,
           ContextType, Held, Bit
      <3> QED BY <2>4, <3>1, RefCountStep
    <2>7. Deletion'
      BY <1>17, <2>4, <2>6, <2>1, <2>2, <2>3, HeldPositive DEF LaunchPush, Quiet,
         NoSend, NoRelease, NoLaunch, Sending, Stage, Deletion, DeletedOnce, Deletes,
         Fresh, Unused, Involves, SameThread, ThreadType, ContextType, QueueType
    <2>8. Fresh'
      <3> SUFFICES ASSUME NEW x \in Handle, ctx'[x] = "none" PROVE Unused(x)'
        BY DEF Fresh
      <3>1. ctx[x] = "none" /\ Unused(x)
        BY <1>17 DEF LaunchPush, Fresh, ContextType
      <3>2. x # lau[t].h
        BY <1>17, <3>1 DEF LaunchPush, Unused, Involves
      <3>3. ~InGlobalQueue(x)'
        BY <2>1, <2>2, <2>3, <3>1, <3>2 DEF Unused
      <3>4. ~Involves(t, x)'
        BY <1>17, <2>1, <3>1, <3>2 DEF LaunchPush, Quiet, NoSend, NoRelease, NoLaunch,
           Sending, Stage, Unused, Involves, ThreadType
      <3>5. \A u \in Thread \ {t} : ~Involves(u, x)'
        BY <2>4, <3>1 DEF Unused, Involves, SameThread
      <3> QED
        BY <1>17, <2>3, <3>1, <3>3, <3>4, <3>5 DEF LaunchPush, Unused
    <2> QED BY <1>0, <2>5, <2>6, <2>7, <2>8
  <1>18. ASSUME NEW t \in Thread, LaunchReturn(t) PROVE RefInv'
    <2>1. \A u \in Thread \ {t} : SameThread(u)
      BY <1>18 DEF LaunchReturn, ThreadType, SameThread
    <2>2. Order'
      <3>1. ThreadOrder(t)'
        BY <1>18 DEF LaunchReturn, Quiet, NoSend, NoRelease, NoLaunch, Sending, Stage,
           Order, ThreadOrder, ThreadType, ContextType
      <3> QED
        BY <2>1, <3>1 DEF Order, ThreadOrder, SameThread, Quiet
    <2>3. RefCount'
      <3>1. \A x \in Handle : ref'[x] = ref[x] + Bit(x \in slot') - Bit(x \in slot)
                                      + Held(t, x)' - Held(t, x)
        BY <1>18 DEF LaunchReturn, Quiet, NoSend, NoRelease, NoLaunch, Sending, Stage,
           Order, ThreadOrder, Shape, ThreadShape, ThreadType, ContextType, Held, Bit
      <3> QED BY <2>1, <3>1, RefCountStep
    <2>4. Deletion'
      BY <1>18, <2>1, <2>3, HeldPositive DEF LaunchReturn, Quiet, NoSend, NoRelease,
         NoLaunch, Sending, Stage, Deletion, DeletedOnce, Deletes, Fresh, Unused,
         Involves, SameThread, ThreadType, ContextType, QueueType
    <2>5. Fresh'
      <3> SUFFICES ASSUME NEW x \in Handle, ctx'[x] = "none" PROVE Unused(x)'
        BY DEF Fresh
      <3>1. ctx[x] = "none" /\ Unused(x)
        BY <1>18 DEF LaunchReturn, Fresh, ContextType
      <3>4. ~Involves(t, x)'
        BY <1>18, <3>1 DEF LaunchReturn, Quiet, NoSend, NoRelease, NoLaunch, Sending,
           Stage, Unused, Involves, ThreadType, ContextType
      <3>5. \A u \in Thread \ {t} : ~Involves(u, x)'
        BY <2>1, <3>1 DEF Unused, Involves, SameThread
      <3> QED
        BY <1>18, <3>1, <3>4, <3>5 DEF LaunchReturn, Unused, InGlobalQueue,
           ContextType, QueueType
    <2> QED BY <1>0, <2>2, <2>3, <2>4, <2>5
  <1>19. ASSUME NEW t \in Thread, LaunchRetire(t) PROVE RefInv'
    <2>1. lau[t].h \in Handle
      BY <1>19 DEF LaunchRetire, Shape, ThreadShape
    <2>2. \A u \in Thread \ {t} : SameThread(u)
      BY <1>19 DEF LaunchRetire, ThreadType, SameThread
    <2>3. Order'
      <3>1. ThreadOrder(t)'
        BY <1>19, <2>1 DEF LaunchRetire, Quiet, NoSend, NoRelease, NoLaunch, Sending,
           Stage, Order, ThreadOrder, ThreadType, ContextType
      <3> QED
        BY <2>2, <3>1 DEF Order, ThreadOrder, SameThread, Quiet
    <2>4. RefCount'
      <3>1. \A x \in Handle : ref'[x] = ref[x] + Bit(x \in slot') - Bit(x \in slot)
                                      + Held(t, x)' - Held(t, x)
        BY <1>19, <2>1 DEF LaunchRetire, Quiet, NoSend, NoRelease, NoLaunch, Sending,
           Stage, Retire, Order, ThreadOrder, Shape, ThreadShape, ThreadType,
           ContextType, Held, Bit
      <3> QED BY <2>2, <3>1, RefCountStep
    <2>5. Deletion'
      <3> SUFFICES ASSUME NEW x \in Handle PROVE DeletedOnce(x)'
        BY DEF Deletion
      <3>1. DeletedOnce(x)
        BY DEF Deletion
      <3>2. ref[x] \in Nat /\ (x \in slot => ref[x] > 0)
        BY HeldPositive
      <3>3. \A u \in Thread : Deletes(u, x)' => Deletes(u, x)
        BY <1>19, <2>2 DEF LaunchRetire, Deletes, SameThread, ThreadType, Stage
      <3>4. CASE x = lau[t].h
        <4>1. Retire(lau[t].h)
          BY <1>19 DEF LaunchRetire
        <4>2. CASE x \in slot /\ ref[x] = 1
          BY <2>1, <3>1, <3>3, <3>4, <4>1, <4>2, RetireEffect DEF DeletedOnce
        <4>3. CASE x \in slot /\ ref[x] # 1
          BY <2>1, <3>1, <3>2, <3>3, <3>4, <4>1, <4>3, RetireEffect DEF DeletedOnce
        <4>4. CASE x \notin slot
          BY <2>1, <3>1, <3>3, <3>4, <4>1, <4>4, RetireEffect DEF DeletedOnce
        <4> QED BY <4>2, <4>3, <4>4
      <3>5. CASE x # lau[t].h
        BY <1>19, <2>1, <3>1, <3>3, <3>5, RetireEffect DEF LaunchRetire, DeletedOnce
      <3> QED BY <3>4, <3>5
    <2>6. Fresh'
      <3> SUFFICES ASSUME NEW x \in Handle, ctx'[x] = "none" PROVE Unused(x)'
        BY DEF Fresh
      <3>1. ctx[x] = "none" /\ Unused(x)
        BY <1>19, <2>1, RetireEffect DEF LaunchRetire, Fresh, ContextType
      <3>4. ~Involves(t, x)'
        BY <1>19, <2>1, <3>1 DEF LaunchRetire, Quiet, NoSend, NoRelease, NoLaunch,
           Sending, Stage, Unused, Involves, ThreadType, ContextType
      <3>5. \A u \in Thread \ {t} : ~Involves(u, x)'
        BY <2>2, <3>1 DEF Unused, Involves, SameThread
      <3>6. x # lau[t].h
        BY <1>19, <3>1 DEF LaunchRetire, Unused, Involves
      <3>7. Retire(lau[t].h) /\ UNCHANGED inited
        BY <1>19 DEF LaunchRetire
      <3> QED
        BY <2>1, <3>6, <2>1, <3>6, <3>1, <3>4, <3>5, <3>7, RetireEffect DEF Unused
    <2> QED BY <1>0, <2>3, <2>4, <2>5, <2>6
  <1>20. ASSUME NEW t \in Thread, LaunchDrop(t) PROVE RefInv'
    <2>1. lau[t].h \in Handle
      BY <1>20 DEF LaunchDrop, Shape, ThreadShape
    <2>2. \A x \in Handle : InGlobalQueue(x)' => InGlobalQueue(x) \/ x = lau[t].h
      BY <1>20, <2>1, QueueEffect DEF LaunchDrop, QueueType
    <2>3. release' = release
      BY <1>20 DEF LaunchDrop, MqRelease
    <2>4. \A u \in Thread \ {t} : SameThread(u)
      BY <1>20 DEF LaunchDrop, ThreadType, SameThread
    <2>5. Order'
      <3>1. ThreadOrder(t)'
        BY <1>20, <2>1 DEF LaunchDrop, Quiet, NoSend, NoRelease, NoLaunch, Sending,
           Stage, Order, ThreadOrder, ThreadType, ContextType
      <3> QED
        BY <2>4, <3>1 DEF Order, ThreadOrder, SameThread, Quiet
    <2>6. RefCount'
      <3>1. \A x \in Handle : ref'[x] = ref[x] + Bit(x \in slot') - Bit(x \in slot)
                                      + Held(t, x)' - Held(t, x)
        BY <1>20, <2>1, <2>2, <2>3 DEF LaunchDrop, Quiet, NoSend, NoRelease, NoLaunch,
           Sending, Stage, Order, ThreadOrder, Shape, ThreadShape, ThreadType,
           ContextType, Held, Bit
      <3> QED BY <2>4, <3>1, RefCountStep
    <2>7. Deletion'
      BY <1>20, <2>4, <2>6, <2>1, <2>2, <2>3, HeldPositive DEF LaunchDrop, Quiet,
         NoSend, NoRelease, NoLaunch, Sending, Stage, Deletion, DeletedOnce, Deletes,
         Fresh, Unused, Involves, SameThread, ThreadType, ContextType, QueueType
    <2>8. Fresh'
      <3> SUFFICES ASSUME NEW x \in Handle, ctx'[x] = "none" PROVE Unused(x)'
        BY DEF Fresh
      <3>1. ctx[x] = "none" /\ Unused(x)
        BY <1>20 DEF LaunchDrop, Fresh, ContextType
      <3>2. x # lau[t].h
        BY <1>20, <3>1 DEF LaunchDrop, Unused, Involves
      <3>3. ~InGlobalQueue(x)'
        BY <2>1, <2>2, <2>3, <3>1, <3>2 DEF Unused
      <3>4. ~Involves(t, x)'
        BY <1>20, <2>1, <3>1, <3>2 DEF LaunchDrop, Quiet, NoSend, NoRelease, NoLaunch,
           Sending, Stage, Unused, Involves, ThreadType
      <3>5. \A u \in Thread \ {t} : ~Involves(u, x)'
        BY <2>4, <3>1 DEF Unused, Involves, SameThread
      <3> QED
        BY <1>20, <2>3, <3>1, <3>3, <3>4, <3>5 DEF LaunchDrop, Unused
    <2> QED BY <1>0, <2>5, <2>6, <2>7, <2>8
  <1>21. ASSUME NEW t \in Thread, Request(t) PROVE RefInv'
    <2>1. PICK h \in Handle, d \in Known, call \in BOOLEAN : Request(t)!(h,d,call)
      BY <1>21 DEF Request
    <2>2. pc[t] = "cb" /\ Quiet(t) /\ lau[t].st \in {"none", "init"}
      BY <2>1, Serving
    <2>3. d \in Handle /\ ctx[d] # "none"
      BY <2>1 DEF Known
    <2>4. \A u \in Thread \ {t} : SameThread(u)
      BY <2>1 DEF ThreadType, SameThread
    <2>5. Order'
      <3>1. ThreadOrder(t)'
        BY <2>1, <2>2 DEF Quiet, NoSend, NoRelease, NoLaunch, Sending, Stage, Order,
           ThreadOrder, ThreadType, ContextType
      <3> QED
        BY <2>4, <3>1 DEF Order, ThreadOrder, SameThread, Quiet
    <2>6. RefCount'
      <3>1. \A x \in Handle : ref'[x] = ref[x] + Bit(x \in slot') - Bit(x \in slot)
                                      + Held(t, x)' - Held(t, x)
        BY <2>1, <2>2, <2>3 DEF Quiet, NoSend, NoRelease, NoLaunch, Sending, Stage,
           Order, ThreadOrder, Shape, ThreadShape, ThreadType, ContextType, Held, Bit
      <3> QED BY <2>4, <3>1, RefCountStep
    <2>7. Deletion'
      BY <2>1, <2>4, <2>6, <2>2, <2>3, HeldPositive DEF Quiet, NoSend, NoRelease,
         NoLaunch, Sending, Stage, Deletion, DeletedOnce, Deletes, Fresh, Unused,
         Involves, SameThread, ThreadType, ContextType, QueueType
    <2>8. Fresh'
      <3> SUFFICES ASSUME NEW x \in Handle, ctx'[x] = "none" PROVE Unused(x)'
        BY DEF Fresh
      <3>1. ctx[x] = "none" /\ Unused(x)
        BY <2>1 DEF Fresh, ContextType
      <3>4. ~Involves(t, x)'
        BY <2>1, <2>2, <2>3, <3>1 DEF Quiet, NoSend, NoRelease, NoLaunch, Sending,
           Stage, Unused, Involves, ThreadType, ContextType
      <3>5. \A u \in Thread \ {t} : ~Involves(u, x)'
        BY <2>4, <3>1 DEF Unused, Involves, SameThread
      <3> QED
        BY <2>1, <2>2, <2>3, <3>1, <3>4, <3>5 DEF Unused, InGlobalQueue, ContextType,
           QueueType
    <2> QED BY <1>0, <2>5, <2>6, <2>7, <2>8
  <1>22. ASSUME NEW t \in Thread, Respond(t) PROVE RefInv'
    <2>1. PICK h \in Handle : Respond(t)!(h)
      BY <1>22 DEF Respond
    <2>2. pc[t] = "cb" /\ Quiet(t) /\ lau[t].st \in {"none", "init"}
      BY <2>1, Serving
    <2>3. \A u \in Thread \ {t} : SameThread(u)
      BY <2>1 DEF ThreadType, SameThread
    <2>4. Order'
      <3>1. ThreadOrder(t)'
        BY <2>1, <2>2 DEF Quiet, NoSend, NoRelease, NoLaunch, Sending, Stage, Order,
           ThreadOrder, ThreadType, ContextType
      <3> QED
        BY <2>3, <3>1 DEF Order, ThreadOrder, SameThread, Quiet
    <2>5. RefCount'
      <3>1. \A x \in Handle : ref'[x] = ref[x] + Bit(x \in slot') - Bit(x \in slot)
                                      + Held(t, x)' - Held(t, x)
        BY <2>1, <2>2 DEF Quiet, NoSend, NoRelease, NoLaunch, Sending, Stage, Order,
           ThreadOrder, Shape, ThreadShape, ThreadType, ContextType, Held, Bit
      <3> QED BY <2>3, <3>1, RefCountStep
    <2>6. Deletion'
      BY <2>1, <2>3, <2>5, <2>2, HeldPositive DEF Quiet, NoSend, NoRelease, NoLaunch,
         Sending, Stage, Deletion, DeletedOnce, Deletes, Fresh, Unused, Involves,
         SameThread, ThreadType, ContextType, QueueType
    <2>7. Fresh'
      <3> SUFFICES ASSUME NEW x \in Handle, ctx'[x] = "none" PROVE Unused(x)'
        BY DEF Fresh
      <3>1. ctx[x] = "none" /\ Unused(x)
        BY <2>1 DEF Fresh, ContextType
      <3>4. ~Involves(t, x)'
        BY <2>1, <2>2, <3>1 DEF Quiet, NoSend, NoRelease, NoLaunch, Sending, Stage,
           Unused, Involves, ThreadType, ContextType
      <3>5. \A u \in Thread \ {t} : ~Involves(u, x)'
        BY <2>3, <3>1 DEF Unused, Involves, SameThread
      <3> QED
        BY <2>1, <2>2, <3>1, <3>4, <3>5 DEF Unused, InGlobalQueue, ContextType,
           QueueType
    <2> QED BY <1>0, <2>4, <2>5, <2>6, <2>7
  <1>23. ASSUME NEW t \in Thread, TimeoutNow(t) PROVE RefInv'
    <2>1. PICK h \in Handle : TimeoutNow(t)!(h)
      BY <1>23 DEF TimeoutNow
    <2>2. pc[t] = "cb" /\ Quiet(t) /\ lau[t].st \in {"none", "init"}
      BY <2>1, Serving
    <2>3. \A u \in Thread \ {t} : SameThread(u)
      BY <2>1 DEF ThreadType, SameThread
    <2>4. Order'
      <3>1. ThreadOrder(t)'
        BY <2>1, <2>2 DEF Quiet, NoSend, NoRelease, NoLaunch, Sending, Stage, Order,
           ThreadOrder, ThreadType, ContextType
      <3> QED
        BY <2>3, <3>1 DEF Order, ThreadOrder, SameThread, Quiet
    <2>5. RefCount'
      <3>1. \A x \in Handle : ref'[x] = ref[x] + Bit(x \in slot') - Bit(x \in slot)
                                      + Held(t, x)' - Held(t, x)
        BY <2>1, <2>2 DEF Quiet, NoSend, NoRelease, NoLaunch, Sending, Stage, Order,
           ThreadOrder, Shape, ThreadShape, ThreadType, ContextType, Held, Bit
      <3> QED BY <2>3, <3>1, RefCountStep
    <2>6. Deletion'
      BY <2>1, <2>3, <2>5, <2>2, HeldPositive DEF Quiet, NoSend, NoRelease, NoLaunch,
         Sending, Stage, Deletion, DeletedOnce, Deletes, Fresh, Unused, Involves,
         SameThread, ThreadType, ContextType, QueueType
    <2>7. Fresh'
      <3> SUFFICES ASSUME NEW x \in Handle, ctx'[x] = "none" PROVE Unused(x)'
        BY DEF Fresh
      <3>1. ctx[x] = "none" /\ Unused(x)
        BY <2>1 DEF Fresh, ContextType
      <3>4. ~Involves(t, x)'
        BY <2>1, <2>2, <3>1 DEF Quiet, NoSend, NoRelease, NoLaunch, Sending, Stage,
           Unused, Involves, ThreadType, ContextType
      <3>5. \A u \in Thread \ {t} : ~Involves(u, x)'
        BY <2>3, <3>1 DEF Unused, Involves, SameThread
      <3> QED
        BY <2>1, <2>2, <3>1, <3>4, <3>5 DEF Unused, InGlobalQueue, ContextType,
           QueueType
    <2> QED BY <1>0, <2>4, <2>5, <2>6, <2>7
  <1>24. ASSUME NEW t \in Thread, TimeoutLater(t) PROVE RefInv'
    <2>1. PICK h \in Handle : TimeoutLater(t)!(h)
      BY <1>24 DEF TimeoutLater
    <2>2. pc[t] = "cb" /\ Quiet(t) /\ lau[t].st \in {"none", "init"}
      BY <2>1, Serving
    <2>3. \A u \in Thread \ {t} : SameThread(u)
      BY <2>1 DEF ThreadType, SameThread
    <2>4. Order'
      <3>1. ThreadOrder(t)'
        BY <2>1, <2>2 DEF Quiet, NoSend, NoRelease, NoLaunch, Sending, Stage, Order,
           ThreadOrder, ThreadType, ContextType
      <3> QED
        BY <2>3, <3>1 DEF Order, ThreadOrder, SameThread, Quiet
    <2>5. RefCount'
      <3>1. \A x \in Handle : ref'[x] = ref[x] + Bit(x \in slot') - Bit(x \in slot)
                                      + Held(t, x)' - Held(t, x)
        BY <2>1, <2>2 DEF Quiet, NoSend, NoRelease, NoLaunch, Sending, Stage, Order,
           ThreadOrder, Shape, ThreadShape, ThreadType, ContextType, Held, Bit
      <3> QED BY <2>3, <3>1, RefCountStep
    <2>6. Deletion'
      BY <2>1, <2>3, <2>5, <2>2, HeldPositive DEF Quiet, NoSend, NoRelease, NoLaunch,
         Sending, Stage, Deletion, DeletedOnce, Deletes, Fresh, Unused, Involves,
         SameThread, ThreadType, ContextType, QueueType
    <2>7. Fresh'
      <3> SUFFICES ASSUME NEW x \in Handle, ctx'[x] = "none" PROVE Unused(x)'
        BY DEF Fresh
      <3>1. ctx[x] = "none" /\ Unused(x)
        BY <2>1 DEF Fresh, ContextType
      <3>4. ~Involves(t, x)'
        BY <2>1, <2>2, <3>1 DEF Quiet, NoSend, NoRelease, NoLaunch, Sending, Stage,
           Unused, Involves, ThreadType, ContextType
      <3>5. \A u \in Thread \ {t} : ~Involves(u, x)'
        BY <2>3, <3>1 DEF Unused, Involves, SameThread
      <3> QED
        BY <2>1, <2>2, <3>1, <3>4, <3>5 DEF Unused, InGlobalQueue, ContextType,
           QueueType
    <2> QED BY <1>0, <2>4, <2>5, <2>6, <2>7
  <1>25. ASSUME NEW t \in Thread, Forward(t) PROVE RefInv'
    <2>1. PICK h \in Handle, d \in Known : Forward(t)!(h,d)
      BY <1>25 DEF Forward
    <2>2. pc[t] = "cb" /\ Quiet(t) /\ lau[t].st \in {"none", "init"}
      BY <2>1, Serving
    <2>3. d \in Handle /\ ctx[d] # "none"
      BY <2>1 DEF Known
    <2>4. \A u \in Thread \ {t} : SameThread(u)
      BY <2>1 DEF ThreadType, SameThread
    <2>5. Order'
      <3>1. ThreadOrder(t)'
        BY <2>1, <2>2 DEF Quiet, NoSend, NoRelease, NoLaunch, Sending, Stage, Order,
           ThreadOrder, ThreadType, ContextType
      <3> QED
        BY <2>4, <3>1 DEF Order, ThreadOrder, SameThread, Quiet
    <2>6. RefCount'
      <3>1. \A x \in Handle : ref'[x] = ref[x] + Bit(x \in slot') - Bit(x \in slot)
                                      + Held(t, x)' - Held(t, x)
        BY <2>1, <2>2, <2>3 DEF Quiet, NoSend, NoRelease, NoLaunch, Sending, Stage,
           Order, ThreadOrder, Shape, ThreadShape, ThreadType, ContextType, Held, Bit
      <3> QED BY <2>4, <3>1, RefCountStep
    <2>7. Deletion'
      BY <2>1, <2>4, <2>6, <2>2, <2>3, HeldPositive DEF Quiet, NoSend, NoRelease,
         NoLaunch, Sending, Stage, Deletion, DeletedOnce, Deletes, Fresh, Unused,
         Involves, SameThread, ThreadType, ContextType, QueueType
    <2>8. Fresh'
      <3> SUFFICES ASSUME NEW x \in Handle, ctx'[x] = "none" PROVE Unused(x)'
        BY DEF Fresh
      <3>1. ctx[x] = "none" /\ Unused(x)
        BY <2>1 DEF Fresh, ContextType
      <3>4. ~Involves(t, x)'
        BY <2>1, <2>2, <2>3, <3>1 DEF Quiet, NoSend, NoRelease, NoLaunch, Sending,
           Stage, Unused, Involves, ThreadType, ContextType
      <3>5. \A u \in Thread \ {t} : ~Involves(u, x)'
        BY <2>4, <3>1 DEF Unused, Involves, SameThread
      <3> QED
        BY <2>1, <2>2, <2>3, <3>1, <3>4, <3>5 DEF Unused, InGlobalQueue, ContextType,
           QueueType
    <2> QED BY <1>0, <2>5, <2>6, <2>7, <2>8
  <1>26. ASSUME NEW t \in Thread, Kill(t) PROVE RefInv'
    <2>1. PICK h \in Handle, d \in Known : Kill(t)!(h,d)
      BY <1>26 DEF Kill
    <2>2. pc[t] = "cb" /\ Quiet(t) /\ lau[t].st \in {"none", "init"}
      BY <2>1, Serving
    <2>3. d \in Handle /\ ctx[d] # "none"
      BY <2>1 DEF Known
    <2>4. \A u \in Thread \ {t} : SameThread(u)
      BY <2>1 DEF ThreadType, SameThread
    <2>5. Order'
      <3>1. ThreadOrder(t)'
        BY <2>1, <2>2 DEF Quiet, NoSend, NoRelease, NoLaunch, Sending, Stage, Order,
           ThreadOrder, ThreadType, ContextType
      <3> QED
        BY <2>4, <3>1 DEF Order, ThreadOrder, SameThread, Quiet
    <2>6. RefCount'
      <3>1. \A x \in Handle : ref'[x] = ref[x] + Bit(x \in slot') - Bit(x \in slot)
                                      + Held(t, x)' - Held(t, x)
        BY <2>1, <2>2, <2>3 DEF Quiet, NoSend, NoRelease, NoLaunch, Sending, Stage,
           Retire, Order, ThreadOrder, Shape, ThreadShape, ThreadType, ContextType,
           Held, Bit
      <3> QED BY <2>4, <3>1, RefCountStep
    <2>7. Deletion'
      <3> SUFFICES ASSUME NEW x \in Handle PROVE DeletedOnce(x)'
        BY DEF Deletion
      <3>1. DeletedOnce(x)
        BY DEF Deletion
      <3>2. ref[x] \in Nat /\ (x \in slot => ref[x] > 0)
        BY HeldPositive
      <3>3. \A u \in Thread : Deletes(u, x)' => Deletes(u, x)
        BY <2>1, <2>4 DEF Deletes, SameThread, ThreadType, Stage
      <3>4. CASE x = d
        <4>1. Retire(d)
          BY <2>1
        <4>2. CASE x \in slot /\ ref[x] = 1
          BY <2>3, <3>1, <3>3, <3>4, <4>1, <4>2, RetireEffect DEF DeletedOnce
        <4>3. CASE x \in slot /\ ref[x] # 1
          BY <2>3, <3>1, <3>2, <3>3, <3>4, <4>1, <4>3, RetireEffect DEF DeletedOnce
        <4>4. CASE x \notin slot
          BY <2>3, <3>1, <3>3, <3>4, <4>1, <4>4, RetireEffect DEF DeletedOnce
        <4> QED BY <4>2, <4>3, <4>4
      <3>5. CASE x # d
        BY <2>1, <2>3, <3>1, <3>3, <3>5, RetireEffect DEF DeletedOnce
      <3> QED BY <3>4, <3>5
    <2>8. Fresh'
      <3> SUFFICES ASSUME NEW x \in Handle, ctx'[x] = "none" PROVE Unused(x)'
        BY DEF Fresh
      <3>1. ctx[x] = "none" /\ Unused(x)
        BY <2>1, <2>3, RetireEffect DEF Fresh, ContextType
      <3>4. ~Involves(t, x)'
        BY <2>1, <2>2, <2>3, <3>1 DEF Quiet, NoSend, NoRelease, NoLaunch, Sending,
           Stage, Unused, Involves, ThreadType, ContextType
      <3>5. \A u \in Thread \ {t} : ~Involves(u, x)'
        BY <2>4, <3>1 DEF Unused, Involves, SameThread
      <3>7. Retire(d) /\ UNCHANGED inited
        BY <2>1
      <3>6. x # d
        BY <2>3, <3>1
      <3> QED
        BY <2>3, <3>6, <2>2, <2>3, <3>1, <3>4, <3>5, <3>7, RetireEffect DEF Unused
    <2> QED BY <1>0, <2>5, <2>6, <2>7, <2>8
  <1>27. ASSUME NEW t \in Thread, BlockCall(t) PROVE RefInv'
    <2>1. PICK h \in Handle, d \in Known : BlockCall(t)!(h,d)
      BY <1>27 DEF BlockCall
    <2>2. pc[t] = "cb" /\ Quiet(t) /\ lau[t].st \in {"none", "init"}
      BY <2>1, Serving
    <2>3. d \in Handle /\ ctx[d] # "none"
      BY <2>1 DEF Known
    <2>4. \A u \in Thread \ {t} : SameThread(u)
      BY <2>1 DEF ThreadType, SameThread
    <2>5. Order'
      <3>1. ThreadOrder(t)'
        BY <2>1, <2>2 DEF Quiet, NoSend, NoRelease, NoLaunch, Sending, Stage, Order,
           ThreadOrder, ThreadType, ContextType
      <3> QED
        BY <2>4, <3>1 DEF Order, ThreadOrder, SameThread, Quiet
    <2>6. RefCount'
      <3>1. \A x \in Handle : ref'[x] = ref[x] + Bit(x \in slot') - Bit(x \in slot)
                                      + Held(t, x)' - Held(t, x)
        BY <2>1, <2>2, <2>3 DEF Quiet, NoSend, NoRelease, NoLaunch, Sending, Stage,
           Order, ThreadOrder, Shape, ThreadShape, ThreadType, ContextType, Held, Bit
      <3> QED BY <2>4, <3>1, RefCountStep
    <2>7. Deletion'
      BY <2>1, <2>4, <2>6, <2>2, <2>3, HeldPositive DEF Quiet, NoSend, NoRelease,
         NoLaunch, Sending, Stage, Deletion, DeletedOnce, Deletes, Fresh, Unused,
         Involves, SameThread, ThreadType, ContextType, QueueType
    <2>8. Fresh'
      <3> SUFFICES ASSUME NEW x \in Handle, ctx'[x] = "none" PROVE Unused(x)'
        BY DEF Fresh
      <3>1. ctx[x] = "none" /\ Unused(x)
        BY <2>1 DEF Fresh, ContextType
      <3>4. ~Involves(t, x)'
        BY <2>1, <2>2, <2>3, <3>1 DEF Quiet, NoSend, NoRelease, NoLaunch, Sending,
           Stage, Unused, Involves, ThreadType, ContextType
      <3>5. \A u \in Thread \ {t} : ~Involves(u, x)'
        BY <2>4, <3>1 DEF Unused, Involves, SameThread
      <3> QED
        BY <2>1, <2>2, <2>3, <3>1, <3>4, <3>5 DEF Unused, InGlobalQueue, ContextType,
           QueueType
    <2> QED BY <1>0, <2>5, <2>6, <2>7, <2>8
  <1>28. ASSUME NEW t \in Thread, Launch(t) PROVE RefInv'
    <2>1. PICK h \in Handle, n \in Handle : Launch(t)!(h,n)
      BY <1>28 DEF Launch
    <2>2. pc[t] = "cb" /\ Quiet(t) /\ lau[t].st \in {"none", "init"}
      BY <2>1, Serving
    <2>3. \A u \in Thread \ {t} : SameThread(u)
      BY <2>1 DEF ThreadType, SameThread
    <2>4. Order'
      <3>1. ThreadOrder(t)'
        BY <2>1, <2>2 DEF Quiet, NoSend, NoRelease, NoLaunch, Sending, Stage, Order,
           ThreadOrder, ThreadType, ContextType
      <3> QED
        BY <2>3, <3>1 DEF Order, ThreadOrder, SameThread, Quiet
    <2>5. RefCount'
      <3>1. \A x \in Handle : ref'[x] = ref[x] + Bit(x \in slot') - Bit(x \in slot)
                                      + Held(t, x)' - Held(t, x)
        <4> SUFFICES ASSUME NEW x \in Handle
                     PROVE  ref'[x] = ref[x] + Bit(x \in slot') - Bit(x \in slot) + Held(t, x)' - Held(t, x)
          OBVIOUS
        <4>1. Unused(n)
          BY <2>1 DEF Fresh
        <4>2. CASE x # n
          BY <2>1, <2>2, <4>2 DEF Stage, Held, Bit, ThreadType, ContextType
        <4>3. CASE x = n
          <5>1. Held(t, n) = 0
            BY <2>2, <4>1 DEF Unused, Involves, Held, Bit, Quiet
          <5>2. Held(t, n)' = 1
            BY <2>1, <2>2, <4>1 DEF Unused, Involves, Held, Bit, Quiet, Stage, ThreadType
          <5>3. ref[n] = 0 /\ n \notin slot /\ ref'[n] = 2 /\ n \in slot'
            BY <2>1, <4>1 DEF Unused, ContextType
          <5> QED BY <4>3, <5>1, <5>2, <5>3 DEF Bit
        <4> QED BY <4>2, <4>3
      <3> QED BY <2>3, <3>1, RefCountStep
    <2>6. Deletion'
      BY <2>1, <2>3, <2>5, <2>2, HeldPositive DEF Quiet, NoSend, NoRelease, NoLaunch,
         Sending, Stage, Deletion, DeletedOnce, Deletes, Fresh, Unused, Involves,
         SameThread, ThreadType, ContextType, QueueType
    <2>7. Fresh'
      <3> SUFFICES ASSUME NEW x \in Handle, ctx'[x] = "none" PROVE Unused(x)'
        BY DEF Fresh
      <3>1. ctx[x] = "none" /\ Unused(x)
        BY <2>1 DEF Fresh, ContextType
      <3>4. ~Involves(t, x)'
        BY <2>1, <2>2, <3>1 DEF Quiet, NoSend, NoRelease, NoLaunch, Sending, Stage,
           Unused, Involves, ThreadType, ContextType
      <3>5. \A u \in Thread \ {t} : ~Involves(u, x)'
        BY <2>3, <3>1 DEF Unused, Involves, SameThread
      <3> QED
        BY <2>1, <2>2, <3>1, <3>4, <3>5 DEF Unused, InGlobalQueue, ContextType,
           QueueType
    <2> QED BY <1>0, <2>4, <2>5, <2>6, <2>7
  <1>29. ASSUME NEW t \in Thread, TimerFire(t) PROVE RefInv'
    <2>1. PICK n \in timers : TimerFire(t)!(n)
      BY <1>29 DEF TimerFire
    <2>2. t \notin Worker
      BY <2>1, ConstantsAssumption
    <2>3. \A u \in Thread \ {t} : SameThread(u)
      BY <2>1 DEF ThreadType, SameThread
    <2>4. Order'
      <3>1. ThreadOrder(t)'
        BY <2>1, <2>2 DEF Quiet, NoSend, NoRelease, NoLaunch, Sending, Stage, Order,
           ThreadOrder, ThreadType, ContextType
      <3> QED
        BY <2>3, <3>1 DEF Order, ThreadOrder, SameThread, Quiet
    <2>5. RefCount'
      <3>1. \A x \in Handle : ref'[x] = ref[x] + Bit(x \in slot') - Bit(x \in slot)
                                      + Held(t, x)' - Held(t, x)
        BY <2>1, <2>2 DEF Quiet, NoSend, NoRelease, NoLaunch, Sending, Stage, Order,
           ThreadOrder, Shape, ThreadShape, ThreadType, ContextType, Held, Bit
      <3> QED BY <2>3, <3>1, RefCountStep
    <2>6. Deletion'
      BY <2>1, <2>3, <2>5, <2>2, HeldPositive DEF Quiet, NoSend, NoRelease, NoLaunch,
         Sending, Stage, Deletion, DeletedOnce, Deletes, Fresh, Unused, Involves,
         SameThread, ThreadType, ContextType, QueueType
    <2>7. Fresh'
      <3> SUFFICES ASSUME NEW x \in Handle, ctx'[x] = "none" PROVE Unused(x)'
        BY DEF Fresh
      <3>1. ctx[x] = "none" /\ Unused(x)
        BY <2>1 DEF Fresh, ContextType
      <3>4. ~Involves(t, x)'
        BY <2>1, <2>2, <3>1 DEF Quiet, NoSend, NoRelease, NoLaunch, Sending, Stage,
           Unused, Involves, ThreadType, ContextType
      <3>5. \A u \in Thread \ {t} : ~Involves(u, x)'
        BY <2>3, <3>1 DEF Unused, Involves, SameThread
      <3> QED
        BY <2>1, <2>2, <3>1, <3>4, <3>5 DEF Unused, InGlobalQueue, ContextType,
           QueueType
    <2> QED BY <1>0, <2>4, <2>5, <2>6, <2>7
  <1>30. ASSUME NEW t \in Thread, MonitorCheck(t) PROVE RefInv'
    <2>1. PICK w \in Worker : MonitorCheck(t)!(w)
      BY <1>30 DEF MonitorCheck
    <2>2. t \notin Worker
      BY <2>1, ConstantsAssumption
    <2>3. \A u \in Thread \ {t} : SameThread(u)
      BY <2>1 DEF ThreadType, SameThread
    <2>4. Order'
      <3>1. ThreadOrder(t)'
        BY <2>1, <2>2 DEF Quiet, NoSend, NoRelease, NoLaunch, Sending, Stage, Order,
           ThreadOrder, ThreadType, ContextType
      <3> QED
        BY <2>3, <3>1 DEF Order, ThreadOrder, SameThread, Quiet
    <2>5. RefCount'
      <3>1. \A x \in Handle : ref'[x] = ref[x] + Bit(x \in slot') - Bit(x \in slot)
                                      + Held(t, x)' - Held(t, x)
        BY <2>1, <2>2 DEF Quiet, NoSend, NoRelease, NoLaunch, Sending, Stage, Order,
           ThreadOrder, Shape, ThreadShape, ThreadType, ContextType, Held, Bit
      <3> QED BY <2>3, <3>1, RefCountStep
    <2>6. Deletion'
      BY <2>1, <2>3, <2>5, <2>2, HeldPositive DEF Quiet, NoSend, NoRelease, NoLaunch,
         Sending, Stage, Deletion, DeletedOnce, Deletes, Fresh, Unused, Involves,
         SameThread, ThreadType, ContextType, QueueType
    <2>7. Fresh'
      <3> SUFFICES ASSUME NEW x \in Handle, ctx'[x] = "none" PROVE Unused(x)'
        BY DEF Fresh
      <3>1. ctx[x] = "none" /\ Unused(x)
        BY <2>1 DEF Fresh, ContextType
      <3>4. ~Involves(t, x)'
        BY <2>1, <2>2, <3>1 DEF Quiet, NoSend, NoRelease, NoLaunch, Sending, Stage,
           Unused, Involves, ThreadType, ContextType
      <3>5. \A u \in Thread \ {t} : ~Involves(u, x)'
        BY <2>3, <3>1 DEF Unused, Involves, SameThread
      <3> QED
        BY <2>1, <2>2, <3>1, <3>4, <3>5 DEF Unused, InGlobalQueue, ContextType,
           QueueType
    <2> QED BY <1>0, <2>4, <2>5, <2>6, <2>7
  <1>31. ASSUME NEW t \in Thread, UseFreedQueue(t) PROVE RefInv'
    <2>1. \A u \in Thread \ {t} : SameThread(u)
      BY <1>31 DEF UseFreedQueue, ThreadType, SameThread
    <2>2. Order'
      <3>1. ThreadOrder(t)'
        BY <1>31 DEF UseFreedQueue, Quiet, NoSend, NoRelease, NoLaunch, Sending,
           Stage, Order, ThreadOrder, ThreadType, ContextType
      <3> QED
        BY <2>1, <3>1 DEF Order, ThreadOrder, SameThread, Quiet
    <2>3. RefCount'
      <3>1. \A x \in Handle : ref'[x] = ref[x] + Bit(x \in slot') - Bit(x \in slot)
                                      + Held(t, x)' - Held(t, x)
        BY <1>31 DEF UseFreedQueue, Quiet, NoSend, NoRelease, NoLaunch, Sending,
           Stage, Order, ThreadOrder, Shape, ThreadShape, ThreadType, ContextType,
           Held, Bit
      <3> QED BY <2>1, <3>1, RefCountStep
    <2>4. Deletion'
      BY <1>31, <2>1, <2>3, HeldPositive DEF UseFreedQueue, Quiet, NoSend, NoRelease,
         NoLaunch, Sending, Stage, Deletion, DeletedOnce, Deletes, Fresh, Unused,
         Involves, SameThread, ThreadType, ContextType, QueueType
    <2>5. Fresh'
      <3> SUFFICES ASSUME NEW x \in Handle, ctx'[x] = "none" PROVE Unused(x)'
        BY DEF Fresh
      <3>1. ctx[x] = "none" /\ Unused(x)
        BY <1>31 DEF UseFreedQueue, Fresh, ContextType
      <3>4. ~Involves(t, x)'
        BY <1>31, <3>1 DEF UseFreedQueue, Quiet, NoSend, NoRelease, NoLaunch, Sending,
           Stage, Unused, Involves, ThreadType, ContextType
      <3>5. \A u \in Thread \ {t} : ~Involves(u, x)'
        BY <2>1, <3>1 DEF Unused, Involves, SameThread
      <3> QED
        BY <1>31, <3>1, <3>4, <3>5 DEF UseFreedQueue, Unused, InGlobalQueue,
           ContextType, QueueType
    <2> QED BY <1>0, <2>2, <2>3, <2>4, <2>5
  <1>32. ASSUME NEW t \in Thread, UseFreedContext(t) PROVE RefInv'
    <2>1. \A u \in Thread \ {t} : SameThread(u)
      BY <1>32 DEF UseFreedContext, ThreadType, SameThread
    <2>2. Order'
      <3>1. ThreadOrder(t)'
        BY <1>32 DEF UseFreedContext, Quiet, NoSend, NoRelease, NoLaunch, Sending,
           Stage, Order, ThreadOrder, ThreadType, ContextType
      <3> QED
        BY <2>1, <3>1 DEF Order, ThreadOrder, SameThread, Quiet
    <2>3. RefCount'
      <3>1. \A x \in Handle : ref'[x] = ref[x] + Bit(x \in slot') - Bit(x \in slot)
                                      + Held(t, x)' - Held(t, x)
        BY <1>32 DEF UseFreedContext, Quiet, NoSend, NoRelease, NoLaunch, Sending,
           Stage, Order, ThreadOrder, Shape, ThreadShape, ThreadType, ContextType,
           Held, Bit
      <3> QED BY <2>1, <3>1, RefCountStep
    <2>4. Deletion'
      BY <1>32, <2>1, <2>3, HeldPositive DEF UseFreedContext, Quiet, NoSend,
         NoRelease, NoLaunch, Sending, Stage, Deletion, DeletedOnce, Deletes, Fresh,
         Unused, Involves, SameThread, ThreadType, ContextType, QueueType
    <2>5. Fresh'
      <3> SUFFICES ASSUME NEW x \in Handle, ctx'[x] = "none" PROVE Unused(x)'
        BY DEF Fresh
      <3>1. ctx[x] = "none" /\ Unused(x)
        BY <1>32 DEF UseFreedContext, Fresh, ContextType
      <3>4. ~Involves(t, x)'
        BY <1>32, <3>1 DEF UseFreedContext, Quiet, NoSend, NoRelease, NoLaunch,
           Sending, Stage, Unused, Involves, ThreadType, ContextType
      <3>5. \A u \in Thread \ {t} : ~Involves(u, x)'
        BY <2>1, <3>1 DEF Unused, Involves, SameThread
      <3> QED
        BY <1>32, <3>1, <3>4, <3>5 DEF UseFreedContext, Unused, InGlobalQueue,
           ContextType, QueueType
    <2> QED BY <1>0, <2>2, <2>3, <2>4, <2>5
  <1>33. ASSUME NEW t \in Thread, AssertForcePush(t) PROVE RefInv'
    <2>1. \A u \in Thread \ {t} : SameThread(u)
      BY <1>33 DEF AssertForcePush, ThreadType, SameThread
    <2>2. Order'
      <3>1. ThreadOrder(t)'
        BY <1>33 DEF AssertForcePush, Quiet, NoSend, NoRelease, NoLaunch, Sending,
           Stage, Order, ThreadOrder, ThreadType, ContextType
      <3> QED
        BY <2>1, <3>1 DEF Order, ThreadOrder, SameThread, Quiet
    <2>3. RefCount'
      <3>1. \A x \in Handle : ref'[x] = ref[x] + Bit(x \in slot') - Bit(x \in slot)
                                      + Held(t, x)' - Held(t, x)
        BY <1>33 DEF AssertForcePush, Quiet, NoSend, NoRelease, NoLaunch, Sending,
           Stage, Order, ThreadOrder, Shape, ThreadShape, ThreadType, ContextType,
           Held, Bit
      <3> QED BY <2>1, <3>1, RefCountStep
    <2>4. Deletion'
      BY <1>33, <2>1, <2>3, HeldPositive DEF AssertForcePush, Quiet, NoSend,
         NoRelease, NoLaunch, Sending, Stage, Deletion, DeletedOnce, Deletes, Fresh,
         Unused, Involves, SameThread, ThreadType, ContextType, QueueType
    <2>5. Fresh'
      <3> SUFFICES ASSUME NEW x \in Handle, ctx'[x] = "none" PROVE Unused(x)'
        BY DEF Fresh
      <3>1. ctx[x] = "none" /\ Unused(x)
        BY <1>33 DEF AssertForcePush, Fresh, ContextType
      <3>4. ~Involves(t, x)'
        BY <1>33, <3>1 DEF AssertForcePush, Quiet, NoSend, NoRelease, NoLaunch,
           Sending, Stage, Unused, Involves, ThreadType, ContextType
      <3>5. \A u \in Thread \ {t} : ~Involves(u, x)'
        BY <2>1, <3>1 DEF Unused, Involves, SameThread
      <3> QED
        BY <1>33, <3>1, <3>4, <3>5 DEF AssertForcePush, Unused, InGlobalQueue,
           ContextType, QueueType
    <2> QED BY <1>0, <2>2, <2>3, <2>4, <2>5
  <1>34. ASSUME NEW t \in Thread, AssertLock(t) PROVE RefInv'
    <2>1. \A u \in Thread \ {t} : SameThread(u)
      BY <1>34 DEF AssertLock, ThreadType, SameThread
    <2>2. Order'
      <3>1. ThreadOrder(t)'
        BY <1>34 DEF AssertLock, Quiet, NoSend, NoRelease, NoLaunch, Sending, Stage,
           Order, ThreadOrder, ThreadType, ContextType
      <3> QED
        BY <2>1, <3>1 DEF Order, ThreadOrder, SameThread, Quiet
    <2>3. RefCount'
      <3>1. \A x \in Handle : ref'[x] = ref[x] + Bit(x \in slot') - Bit(x \in slot)
                                      + Held(t, x)' - Held(t, x)
        BY <1>34 DEF AssertLock, Quiet, NoSend, NoRelease, NoLaunch, Sending, Stage,
           Order, ThreadOrder, Shape, ThreadShape, ThreadType, ContextType, Held, Bit
      <3> QED BY <2>1, <3>1, RefCountStep
    <2>4. Deletion'
      BY <1>34, <2>1, <2>3, HeldPositive DEF AssertLock, Quiet, NoSend, NoRelease,
         NoLaunch, Sending, Stage, Deletion, DeletedOnce, Deletes, Fresh, Unused,
         Involves, SameThread, ThreadType, ContextType, QueueType
    <2>5. Fresh'
      <3> SUFFICES ASSUME NEW x \in Handle, ctx'[x] = "none" PROVE Unused(x)'
        BY DEF Fresh
      <3>1. ctx[x] = "none" /\ Unused(x)
        BY <1>34 DEF AssertLock, Fresh, ContextType
      <3>4. ~Involves(t, x)'
        BY <1>34, <3>1 DEF AssertLock, Quiet, NoSend, NoRelease, NoLaunch, Sending,
           Stage, Unused, Involves, ThreadType, ContextType
      <3>5. \A u \in Thread \ {t} : ~Involves(u, x)'
        BY <2>1, <3>1 DEF Unused, Involves, SameThread
      <3> QED
        BY <1>34, <3>1, <3>4, <3>5 DEF AssertLock, Unused, InGlobalQueue, ContextType,
           QueueType
    <2> QED BY <1>0, <2>2, <2>3, <2>4, <2>5
  <1>35. CASE UNCHANGED vars
    BY <1>0, <1>35 DEF Order, ThreadOrder, Quiet, RefCount, Dispatching, Pushing, Dropping, Launching,
       Deletion, DeletedOnce, Deletes, Fresh, Unused, Involves, InGlobalQueue
  <1> QED BY <1>1, <1>2, <1>3, <1>4, <1>5, <1>6, <1>7, <1>8, <1>9, <1>10, <1>11,
     <1>12, <1>13, <1>14, <1>15, <1>16, <1>17, <1>18, <1>19, <1>20, <1>21, <1>22,
     <1>23, <1>24, <1>25, <1>26, <1>27, <1>28, <1>29, <1>30, <1>31, <1>32, <1>33,
     <1>34, <1>35 DEF Next, Progress, Operation, Crash

(* Every reference to a context is counted, and each is given up once.     *)
THEOREM References == Spec => []RefCount
  <1>1. RefInv => RefCount
    BY DEF RefInv
  <1> QED BY InitRef, StepRef, <1>1, PTL DEF Spec

(* A context somebody holds is alive, and only one thread deletes it.      *)
THEOREM HeldAlive == Spec => []HeldContextLive
  <1>1. ASSUME RefInv PROVE HeldContextLive
    <2> SUFFICES ASSUME NEW h \in Handle
                 PROVE  /\ h \in slot \/ Dispatching(h) # {} \/ Pushing(h) # {}
                             \/ Dropping(h) # {} \/ Launching(h) # {} => ctx[h] = "live" /\ ~release[h]
                        /\ \A t, u \in Thread : rel[t].st \in {"mark", "free"} /\ rel[t].h = h
                             /\ rel[u].st \in {"mark", "free"} /\ rel[u].h = h => t = u
      BY DEF HeldContextLive
    <2>1. h \in slot \/ Dispatching(h) # {} \/ Pushing(h) # {}
            \/ Dropping(h) # {} \/ Launching(h) # {} => ref[h] > 0
      BY <1>1, HeldPositive DEF RefInv, Dispatching, Pushing, Dropping, Launching
    <2>2. ref[h] > 0 => ctx[h] = "live" /\ ~release[h]
      BY <1>1 DEF RefInv, TypeInv, TypeOK, ContextType, Deletion, DeletedOnce, Fresh, Unused
    <2>3. \A t, u \in Thread : Deletes(t, h) /\ Deletes(u, h) => t = u
      BY <1>1 DEF RefInv, Deletion, DeletedOnce
    <2> QED BY <2>1, <2>2, <2>3 DEF Deletes
  <1> QED BY InitRef, StepRef, <1>1, PTL DEF Spec

-----------------------------------------------------------------------------
(* The code of a service runs on one thread at a time: as long as somebody *)
(* holds a reference to a context, its queue has at most one token.        *)

(* Behind a pop, what remains of a handle in the global queue.             *)
LEMMA SingleTail ==
    ASSUME gq \in Seq(Handle), gq # <<>>, gq' = Tail(gq), NEW x \in Handle, Single(x)
    PROVE  Single(x)' /\ (x = Head(gq) => ~InGlobalQueue(x)')
  <1>1. Len(gq) \in Nat /\ Len(gq) > 0 /\ Len(gq') = Len(gq) - 1
    OBVIOUS
  <1>2. \A i \in 1 .. Len(gq') : gq'[i] = gq[i + 1]
    OBVIOUS
  <1>3. Single(x)'
    <2> SUFFICES ASSUME NEW i \in 1 .. Len(gq'), NEW j \in 1 .. Len(gq'),
                        gq'[i] = x, gq'[j] = x
                 PROVE  i = j
      BY DEF Single
    <2>1. i + 1 \in 1 .. Len(gq) /\ j + 1 \in 1 .. Len(gq)
      BY <1>1
    <2>2. i + 1 = j + 1
      BY <1>2, <2>1 DEF Single
    <2> QED BY <1>1, <2>2
  <1>4. ASSUME x = Head(gq), NEW i \in 1 .. Len(gq'), gq'[i] = x PROVE FALSE
    <2>1. 1 \in 1 .. Len(gq) /\ i + 1 \in 1 .. Len(gq) /\ i + 1 # 1 /\ gq[1] = x /\ gq[i + 1] = x
      BY <1>1, <1>2, <1>4
    <2> QED BY <2>1 DEF Single
  <1> QED BY <1>3, <1>4 DEF InGlobalQueue

(* A push keeps it single, unless it is there already.                     *)
LEMMA SinglePush ==
    ASSUME NEW h \in Handle, gq \in Seq(Handle), GlobalPush(h), NEW x \in Handle, Single(x),
           x # h \/ ~InGlobalQueue(x)
    PROVE  Single(x)'
  <1>1. Len(gq) \in Nat /\ Len(gq') = Len(gq) + 1
    BY DEF GlobalPush
  <1>2. \A i \in 1 .. Len(gq) : gq'[i] = gq[i]
    BY DEF GlobalPush
  <1>3. gq'[Len(gq) + 1] = h
    BY DEF GlobalPush
  <1> SUFFICES ASSUME NEW i \in 1 .. Len(gq'), NEW j \in 1 .. Len(gq'), gq'[i] = x, gq'[j] = x
               PROVE  i = j
    BY DEF Single
  <1>4. CASE i \in 1 .. Len(gq) /\ j \in 1 .. Len(gq)
    BY <1>2, <1>4 DEF Single
  <1>5. ASSUME NEW k \in 1 .. Len(gq), gq'[k] = x PROVE InGlobalQueue(x)
    BY <1>2, <1>5 DEF InGlobalQueue
  <1>6. CASE i = Len(gq) + 1 \/ j = Len(gq) + 1
    <2>1. x = h /\ ~InGlobalQueue(x)
      BY <1>3, <1>6
    <2>2. i \notin 1 .. Len(gq) /\ j \notin 1 .. Len(gq)
      BY <1>5, <2>1
    <2> QED BY <1>1, <2>2
  <1> QED BY <1>1, <1>4, <1>6

(* A step of thread t that gives x no new token.                           *)
LEMMA KeepToken ==
    ASSUME NEW x \in Handle, NEW t \in Thread, TokenAt(x),
           \A u \in Thread \ {t} : SameThread(u),
           InGlobalQueue(x)' => InGlobalQueue(x), Single(x) => Single(x)',
           Works(t, x)' => Works(t, x),
           Works(t, x)' /\ pc[t] \in {"cb", "done", "pushglobal"} => pc'[t] \in {"cb", "done", "pushglobal"},
           Starts(t, x)' => Starts(t, x),
           lau'[t].st = "init" /\ lau'[t].h = x => lau[t].st = "init" /\ lau[t].h = x,
           x \in inited' => x \in inited,
           inGlobal'[x] = inGlobal[x],
           lockSession'[x] = 0 \/ lockSession'[x] = lockSession[x]
    PROVE  TokenAt(x)'
  <1>1. \A u \in Thread : (Works(u, x)' => Works(u, x)) /\ (Starts(u, x)' => Starts(u, x))
    BY DEF SameThread, Works, Starts
  <1>2. OneToken(x)'
    BY <1>1 DEF TokenAt, OneToken
  <1>3. NoToken(x) => NoToken(x)'
    BY <1>1 DEF NoToken
  <1>4. Locked(x) => Locked(x)'
    BY <1>1 DEF Locked, SameThread
  <1>5. \A u \in Thread : lau'[u].st = "init" /\ lau'[u].h = x => x \notin inited'
    BY DEF TokenAt, SameThread
  <1> QED BY <1>2, <1>3, <1>4, <1>5 DEF TokenAt

(* A step of thread t that pushes the queue of x, which nobody has then.   *)
LEMMA PushToken ==
    ASSUME NEW x \in Handle, NEW t \in Thread, TokenAt(x), gq \in Seq(Handle), GlobalPush(x),
           ~InGlobalQueue(x),
           \A u \in Thread \ {t} : SameThread(u) /\ ~Works(u, x) /\ ~Starts(u, x),
           ~Works(t, x)', ~Starts(t, x)',
           inGlobal'[x] \notin {0, MQ_LOCKED}, lockSession'[x] = 0
    PROVE  TokenAt(x)'
  <1>1. \A u \in Thread : ~Works(u, x)' /\ ~Starts(u, x)'
    BY DEF SameThread, Works, Starts
  <1>2. Single(x)'
    BY SinglePush DEF TokenAt, OneToken
  <1>3. OneToken(x)'
    BY <1>1, <1>2 DEF OneToken
  <1>4. \A u \in Thread : lau'[u].st = "init" /\ lau'[u].h = x => x \notin inited'
    BY <1>1 DEF Starts
  <1> QED BY <1>3, <1>4 DEF TokenAt

-----------------------------------------------------------------------------
(* The initial states.                                                     *)
LEMMA InitToken == Init => TokenInv
  <1> SUFFICES ASSUME Init PROVE TokenInv OBVIOUS
  <1>1. ASSUME NEW h \in Handle, ref[h] > 0 PROVE TokenAt(h)
    <2>1. h \in Boot
      BY <1>1 DEF Init
    <2>2. Single(h)
      <3>1. Cardinality(Boot) \in Nat
        BY FS_CardinalityType, ConstantsAssumption
      <3>2. Len(gq) = Cardinality(Boot) /\ \A i, j \in 1 .. Cardinality(Boot) : gq[i] = gq[j] => i = j
        BY <3>1 DEF Init
      <3> QED BY <3>2 DEF Single
    <2>3. \A t \in Thread : ~Works(t, h) /\ ~Starts(t, h)
      BY DEF Init, Works, Starts, NoLaunch
    <2> QED
      BY <1>1, <2>1, <2>2, <2>3 DEF Init, TokenAt, OneToken, Starts, MQ_IN_GLOBAL, MQ_LOCKED
  <1>2. \A h \in Handle : lockSession[h] = 0
    BY DEF Init
  <1> QED BY InitRef, <1>1, <1>2 DEF TokenInv, Tokens

(* Every step keeps the tokens apart.                                      *)
LEMMA StepToken == TokenInv /\ [Next]_vars => TokenInv'
  <1> SUFFICES ASSUME TokenInv, [Next]_vars PROVE TokenInv'
    OBVIOUS
  <1>0. RefInv'
    BY StepRef DEF TokenInv
  <1> USE DEF TokenInv, RefInv, TypeInv, TypeOK, vars, ctxVars, mqVars, threadVars
  <1>1. ASSUME NEW t \in Thread, GlobalPop(t) PROVE TokenInv'
    <2>1. \A u \in Thread \ {t} : SameThread(u)
      BY <1>1 DEF GlobalPop, ThreadType, SameThread
    <2>2. ASSUME NEW y \in Handle, ctx'[y] = "none" PROVE lockSession'[y] = 0
      BY <1>1, <2>2 DEF GlobalPop, Tokens, ContextType, QueueType
    <2>3. ASSUME NEW x \in Handle, ref'[x] > 0 PROVE TokenAt(x)'
      <3>1. ref[x] > 0 /\ gq \in Seq(Handle) /\ gq # <<>> /\ gq' = Tail(gq)
        BY <1>1, <2>3 DEF GlobalPop, QueueType
      <3>2. TokenAt(x)
        BY <3>1 DEF Tokens
      <3>3. Single(x)' /\ (x = Head(gq) => ~InGlobalQueue(x)') /\ (InGlobalQueue(x)' => InGlobalQueue(x))
        BY <3>1, <3>2, SingleTail, GlobalPopEffect DEF TokenAt, OneToken
      <3>4. inited' = inited /\ inGlobal'[x] = inGlobal[x] /\ lockSession'[x] = lockSession[x] /\ lau' = lau
        BY <1>1 DEF GlobalPop
      <3>5. CASE x # Head(gq)
        <4>1. Works(t, x)' => Works(t, x)
          BY <1>1, <3>5 DEF GlobalPop, Works, ThreadType
        <4>2. pc[t] = "idle" /\ Starts(t, x)' = Starts(t, x)
          BY <1>1, <3>4 DEF GlobalPop, Starts
        <4>3. ~Works(t, x)
          BY <4>2 DEF Works
        <4> QED BY <2>1, <3>2, <3>3, <3>4, <4>1, <4>2, <4>3, KeepToken
      <3>6. CASE x = Head(gq)
        <4>1. InGlobalQueue(x)
          BY <3>1, <3>6, GlobalPopEffect
        <4>2. \A u \in Thread : ~Works(u, x) /\ ~Starts(u, x)
          BY <3>2, <4>1 DEF TokenAt, OneToken
        <4>3. inGlobal[x] \notin {0, MQ_LOCKED} /\ lockSession[x] = 0
          BY <3>2, <4>1 DEF TokenAt, NoToken, Locked
        <4>4. \A u \in Thread : ~Starts(u, x)' /\ (Works(u, x)' => u = t)
          BY <2>1, <3>4, <4>2 DEF Starts, Works, SameThread
        <4>5. OneToken(x)'
          BY <3>3, <3>6, <4>4 DEF OneToken
        <4>6. \A u \in Thread : ~(lau'[u].st = "init" /\ lau'[u].h = x)
          BY <4>4 DEF Starts
        <4> QED BY <3>4, <4>3, <4>5, <4>6 DEF TokenAt
      <3> QED BY <3>5, <3>6
    <2> QED BY <1>0, <2>2, <2>3 DEF Tokens
  <1>2. ASSUME NEW t \in Thread, Grab(t) PROVE TokenInv'
    <2>1. \A u \in Thread \ {t} : SameThread(u)
      BY <1>2 DEF Grab, ThreadType, SameThread
    <2>2. ASSUME NEW y \in Handle, ctx'[y] = "none" PROVE lockSession'[y] = 0
      BY <1>2, <2>2 DEF Grab, Tokens, ContextType, QueueType
    <2>3. ASSUME NEW x \in Handle, ref'[x] > 0 PROVE TokenAt(x)'
      <3>1. ref[x] > 0
        BY <1>2, <2>3, HeldPositive DEF Grab, ContextType
      <3>2. (InGlobalQueue(x)' => InGlobalQueue(x)) /\ (Single(x) => Single(x)')
        BY <1>2 DEF Grab, InGlobalQueue, Single
      <3>3. TokenAt(x)
        BY <3>1 DEF Tokens
      <3>4. /\ Works(t, x)' => Works(t, x)
            /\ Works(t, x)' /\ pc[t] \in {"cb", "done", "pushglobal"} => pc'[t] \in {"cb", "done", "pushglobal"}
            /\ Starts(t, x)' => Starts(t, x)
            /\ lau'[t].st = "init" /\ lau'[t].h = x => lau[t].st = "init" /\ lau[t].h = x
        BY <1>2 DEF Grab, Works, Starts, Stage, NoLaunch, ThreadType
      <3>5. inited' = inited /\ inGlobal'[x] = inGlobal[x] /\ lockSession'[x] = lockSession[x]
        BY <1>2 DEF Grab
      <3> QED BY <2>1, <3>2, <3>3, <3>4, <3>5, KeepToken
    <2> QED BY <1>0, <2>2, <2>3 DEF Tokens
  <1>3. ASSUME NEW t \in Thread, DropQueue(t) PROVE TokenInv'
    <2>1. cur[t] \in Handle
      BY <1>3 DEF DropQueue, Shape, ThreadShape
    <2>2. \A u \in Thread \ {t} : SameThread(u)
      BY <1>3 DEF DropQueue, ThreadType, SameThread
    <2>3. ASSUME NEW y \in Handle, ctx'[y] = "none" PROVE lockSession'[y] = 0
      BY <1>3, <2>3, <2>1 DEF DropQueue, Tokens, ContextType, QueueType, MqRelease
    <2>4. ASSUME NEW x \in Handle, ref'[x] > 0 PROVE TokenAt(x)'
      <3>1. ref[x] > 0
        BY <1>3, <2>4 DEF DropQueue
      <3>2. TokenAt(x) /\ gq \in Seq(Handle) /\ ~release[x]
        BY <3>1 DEF Tokens, QueueType, Deletion, DeletedOnce
      <3>3. inited' = inited /\ lockSession' = lockSession
        BY <1>3 DEF DropQueue, MqRelease
      <3>4. CASE x # cur[t]
        <4>1. gq' = gq \/ GlobalPush(cur[t])
          BY <1>3 DEF DropQueue, MqRelease
        <4>2. (InGlobalQueue(x)' => InGlobalQueue(x)) /\ (Single(x) => Single(x)')
          BY <2>1, <3>2, <3>4, <4>1, GlobalPushEffect, SinglePush DEF InGlobalQueue, Single
        <4>3. inGlobal'[x] = inGlobal[x]
          BY <1>3, <2>1, <3>4 DEF DropQueue, MqRelease, QueueType
        <4>4. /\ Works(t, x)' => Works(t, x)
              /\ Works(t, x)' => pc'[t] = pc[t]
              /\ Starts(t, x)' => Starts(t, x)
              /\ lau'[t].st = "init" /\ lau'[t].h = x => lau[t].st = "init" /\ lau[t].h = x
          BY <1>3, <2>1, <3>4 DEF DropQueue, Works, Starts, NoLaunch, ThreadType
        <4> QED BY <2>2, <3>2, <3>3, <4>2, <4>3, <4>4, KeepToken
      <3>5. CASE x = cur[t]
        <4>1. GlobalPush(x) /\ inGlobal' = inGlobal
          BY <1>3, <3>2, <3>5 DEF DropQueue, MqRelease
        <4>2. pc[t] = "mqrelease" /\ Works(t, x)
          BY <1>3, <3>5 DEF DropQueue, Works
        <4>3. \A u \in Thread \ {t} : ~Works(u, x) /\ ~Starts(u, x)
          BY <3>2, <4>2 DEF TokenAt, OneToken
        <4>4. ~InGlobalQueue(x) /\ inGlobal[x] \notin {0, MQ_LOCKED} /\ lockSession[x] = 0
          BY <3>2, <4>2 DEF TokenAt, OneToken, NoToken, Locked
        <4>5. ~Works(t, x)'
          BY <1>3 DEF DropQueue, Works, NoLaunch, ThreadType
        <4>6. ~Starts(t, x)'
          <5>1. ~Starts(t, x)
            BY <3>2, <4>2 DEF TokenAt, OneToken
          <5> QED
            BY <1>3, <5>1 DEF DropQueue, Works, Starts
        <4> QED BY <2>2, <3>2, <3>3, <4>1, <4>3, <4>4, <4>5, <4>6, PushToken
      <3> QED BY <3>4, <3>5
    <2> QED BY <1>0, <2>3, <2>4 DEF Tokens
  <1>4. ASSUME NEW t \in Thread, PopEmpty(t) PROVE TokenInv'
    <2>1. \A u \in Thread \ {t} : SameThread(u)
      BY <1>4 DEF PopEmpty, ThreadType, SameThread
    <2>2. ASSUME NEW y \in Handle, ctx'[y] = "none" PROVE lockSession'[y] = 0
      BY <1>4, <2>2 DEF PopEmpty, Tokens, ContextType, QueueType
    <2>3. ASSUME NEW x \in Handle, ref'[x] > 0 PROVE TokenAt(x)'
      <3>1. ref[x] > 0
        BY <1>4, <2>3 DEF PopEmpty
      <3>2. TokenAt(x) /\ cur[t] \in Handle
        BY <1>4, <3>1 DEF Tokens, PopEmpty, Shape, ThreadShape
      <3>3. inited' = inited /\ lockSession' = lockSession /\ gq' = gq /\ lau' = lau
        BY <1>4 DEF PopEmpty
      <3>4. ~Works(t, x)' /\ (Starts(t, x)' => Starts(t, x))
        BY <1>4, <3>3 DEF PopEmpty, Works, Starts, ThreadType
      <3>5. CASE x # cur[t]
        <4>1. inGlobal'[x] = inGlobal[x]
          BY <1>4, <3>5 DEF PopEmpty, QueueType
        <4>2. (InGlobalQueue(x)' => InGlobalQueue(x)) /\ (Single(x) => Single(x)')
          BY <3>3 DEF InGlobalQueue, Single
        <4> QED BY <2>1, <3>2, <3>3, <3>4, <4>1, <4>2, KeepToken
      <3>6. CASE x = cur[t]
        <4>1. pc[t] = "mqpop" /\ Works(t, x)
          BY <1>4, <3>6 DEF PopEmpty, Works
        <4>2. ~InGlobalQueue(x) /\ lockSession[x] = 0
          BY <3>2, <4>1 DEF TokenAt, OneToken, Locked
        <4>3. \A u \in Thread : ~Starts(u, x) /\ (u # t => ~Works(u, x))
          BY <3>2, <4>1 DEF TokenAt, OneToken
        <4>4. \A u \in Thread : ~Starts(u, x)' /\ ~Works(u, x)'
          BY <2>1, <3>3, <3>4, <4>3 DEF Starts, Works, SameThread
        <4>5. NoToken(x)'
          BY <3>3, <4>2, <4>4 DEF NoToken, InGlobalQueue
        <4>6. Single(x)'
          BY <4>5 DEF NoToken, InGlobalQueue, Single
        <4>7. \A u \in Thread : ~(lau'[u].st = "init" /\ lau'[u].h = x)
          BY <4>4 DEF Starts
        <4> QED BY <3>3, <4>2, <4>4, <4>5, <4>6, <4>7 DEF TokenAt, OneToken, NoToken
      <3> QED BY <3>5, <3>6
    <2> QED BY <1>0, <2>2, <2>3 DEF Tokens
  <1>5. ASSUME NEW t \in Thread, PopMessage(t) PROVE TokenInv'
    <2>1. \A u \in Thread \ {t} : SameThread(u)
      BY <1>5 DEF PopMessage, ThreadType, SameThread
    <2>2. ASSUME NEW y \in Handle, ctx'[y] = "none" PROVE lockSession'[y] = 0
      BY <1>5, <2>2 DEF PopMessage, Tokens, ContextType, QueueType
    <2>3. ASSUME NEW x \in Handle, ref'[x] > 0 PROVE TokenAt(x)'
      <3>1. ref[x] > 0
        BY <1>5, <2>3, HeldPositive DEF PopMessage, ContextType
      <3>2. (InGlobalQueue(x)' => InGlobalQueue(x)) /\ (Single(x) => Single(x)')
        BY <1>5 DEF PopMessage, InGlobalQueue, Single
      <3>3. TokenAt(x)
        BY <3>1 DEF Tokens
      <3>4. /\ Works(t, x)' => Works(t, x)
            /\ Works(t, x)' /\ pc[t] \in {"cb", "done", "pushglobal"} => pc'[t] \in {"cb", "done", "pushglobal"}
            /\ Starts(t, x)' => Starts(t, x)
            /\ lau'[t].st = "init" /\ lau'[t].h = x => lau[t].st = "init" /\ lau[t].h = x
        BY <1>5 DEF PopMessage, Works, Starts, Stage, NoLaunch, ThreadType
      <3>5. inited' = inited /\ inGlobal'[x] = inGlobal[x] /\ lockSession'[x] = lockSession[x]
        BY <1>5 DEF PopMessage
      <3> QED BY <2>1, <3>2, <3>3, <3>4, <3>5, KeepToken
    <2> QED BY <1>0, <2>2, <2>3 DEF Tokens
  <1>6. ASSUME NEW t \in Thread, CallbackEnd(t) PROVE TokenInv'
    <2>1. \A u \in Thread \ {t} : SameThread(u)
      BY <1>6 DEF CallbackEnd, ThreadType, SameThread
    <2>2. ASSUME NEW y \in Handle, ctx'[y] = "none" PROVE lockSession'[y] = 0
      BY <1>6, <2>2 DEF CallbackEnd, Tokens, ContextType, QueueType
    <2>3. ASSUME NEW x \in Handle, ref'[x] > 0 PROVE TokenAt(x)'
      <3>1. ref[x] > 0
        BY <1>6, <2>3, HeldPositive DEF CallbackEnd, ContextType
      <3>2. (InGlobalQueue(x)' => InGlobalQueue(x)) /\ (Single(x) => Single(x)')
        BY <1>6 DEF CallbackEnd, InGlobalQueue, Single
      <3>3. TokenAt(x)
        BY <3>1 DEF Tokens
      <3>4. /\ Works(t, x)' => Works(t, x)
            /\ Works(t, x)' /\ pc[t] \in {"cb", "done", "pushglobal"} => pc'[t] \in {"cb", "done", "pushglobal"}
            /\ Starts(t, x)' => Starts(t, x)
            /\ lau'[t].st = "init" /\ lau'[t].h = x => lau[t].st = "init" /\ lau[t].h = x
        BY <1>6 DEF CallbackEnd, Works, Starts, Stage, NoLaunch, ThreadType
      <3>5. inited' = inited /\ inGlobal'[x] = inGlobal[x] /\ lockSession'[x] = lockSession[x]
        BY <1>6 DEF CallbackEnd
      <3> QED BY <2>1, <3>2, <3>3, <3>4, <3>5, KeepToken
    <2> QED BY <1>0, <2>2, <2>3 DEF Tokens
  <1>7. ASSUME NEW t \in Thread, DispatchRelease(t) PROVE TokenInv'
    <2>1. \A u \in Thread \ {t} : SameThread(u)
      BY <1>7 DEF DispatchRelease, ThreadType, SameThread
    <2>2. ASSUME NEW y \in Handle, ctx'[y] = "none" PROVE lockSession'[y] = 0
      BY <1>7, <2>2 DEF DispatchRelease, Tokens, ContextType, QueueType
    <2>3. ASSUME NEW x \in Handle, ref'[x] > 0 PROVE TokenAt(x)'
      <3>1. ref[x] > 0
        BY <1>7, <2>3, HeldPositive DEF DispatchRelease, ContextType
      <3>2. (InGlobalQueue(x)' => InGlobalQueue(x)) /\ (Single(x) => Single(x)')
        BY <1>7 DEF DispatchRelease, InGlobalQueue, Single
      <3>3. TokenAt(x)
        BY <3>1 DEF Tokens
      <3>4. /\ Works(t, x)' => Works(t, x)
            /\ Works(t, x)' /\ pc[t] \in {"cb", "done", "pushglobal"} => pc'[t] \in {"cb", "done", "pushglobal"}
            /\ Starts(t, x)' => Starts(t, x)
            /\ lau'[t].st = "init" /\ lau'[t].h = x => lau[t].st = "init" /\ lau[t].h = x
        BY <1>7 DEF DispatchRelease, Works, Starts, Stage, NoLaunch, ThreadType
      <3>5. inited' = inited /\ inGlobal'[x] = inGlobal[x] /\ lockSession'[x] = lockSession[x]
        BY <1>7 DEF DispatchRelease
      <3> QED BY <2>1, <3>2, <3>3, <3>4, <3>5, KeepToken
    <2> QED BY <1>0, <2>2, <2>3 DEF Tokens
  <1>8. ASSUME NEW t \in Thread, PushGlobal(t) PROVE TokenInv'
    <2>1. cur[t] \in Handle
      BY <1>8 DEF PushGlobal, Shape, ThreadShape
    <2>2. \A u \in Thread \ {t} : SameThread(u)
      BY <1>8 DEF PushGlobal, ThreadType, SameThread
    <2>3. ASSUME NEW y \in Handle, ctx'[y] = "none" PROVE lockSession'[y] = 0
      BY <1>8, <2>3, <2>1 DEF PushGlobal, Tokens, ContextType, QueueType, MqPushGlobal
    <2>4. ASSUME NEW x \in Handle, ref'[x] > 0 PROVE TokenAt(x)'
      <3>1. ref[x] > 0
        BY <1>8, <2>4 DEF PushGlobal
      <3>2. TokenAt(x) /\ gq \in Seq(Handle)
        BY <3>1 DEF Tokens, QueueType
      <3>3. inited' = inited /\ lockSession' = lockSession /\ lau' = lau
        BY <1>8 DEF PushGlobal, MqPushGlobal
      <3>4. ~Works(t, x)' /\ (Starts(t, x)' => Starts(t, x))
        BY <1>8, <3>3 DEF PushGlobal, Works, Starts, ThreadType
      <3>5. CASE x # cur[t]
        <4>1. inGlobal'[x] = inGlobal[x]
          BY <1>8, <2>1, <3>5 DEF PushGlobal, MqPushGlobal, QueueType
        <4>2. gq' = gq \/ GlobalPush(cur[t])
          BY <1>8 DEF PushGlobal, MqPushGlobal
        <4>3. (InGlobalQueue(x)' => InGlobalQueue(x)) /\ (Single(x) => Single(x)')
          BY <2>1, <3>2, <3>5, <4>2, GlobalPushEffect, SinglePush DEF InGlobalQueue, Single
        <4> QED BY <2>2, <3>2, <3>3, <3>4, <4>1, <4>3, KeepToken
      <3>6. CASE x = cur[t]
        <4>1. Works(t, x)
          BY <1>8, <3>6 DEF PushGlobal, Works
        <4>2. ~InGlobalQueue(x) /\ inGlobal[x] \notin {0, MQ_LOCKED}
          BY <3>2, <4>1 DEF TokenAt, OneToken, NoToken
        <4>3. \A u \in Thread : ~Starts(u, x) /\ (u # t => ~Works(u, x))
          BY <3>2, <4>1 DEF TokenAt, OneToken
        <4>4. CASE lockSession[x] = 0
          <5>1. GlobalPush(x) /\ inGlobal'[x] = MQ_IN_GLOBAL
            BY <1>8, <2>1, <3>6, <4>4 DEF PushGlobal, MqPushGlobal, QueueType
          <5>2. inGlobal'[x] \notin {0, MQ_LOCKED} /\ ~Starts(t, x)'
            BY <5>1, <3>4, <4>3 DEF MQ_IN_GLOBAL, MQ_LOCKED
          <5> QED BY <2>2, <3>2, <3>3, <3>4, <4>2, <4>3, <4>4, <5>1, <5>2, PushToken
        <4>5. CASE lockSession[x] # 0
          <5>1. gq' = gq
            BY <1>8, <3>6, <4>5 DEF PushGlobal, MqPushGlobal
          <5>2. \A u \in Thread : ~Starts(u, x)' /\ ~Works(u, x)'
            BY <2>2, <3>3, <3>4, <4>3 DEF Starts, Works, SameThread
          <5>3. NoToken(x)'
            BY <4>2, <5>1, <5>2 DEF NoToken, InGlobalQueue
          <5>4. Single(x)'
            BY <5>3 DEF NoToken, InGlobalQueue, Single
          <5>5. \A u \in Thread : ~(lau'[u].st = "init" /\ lau'[u].h = x)
            BY <5>2 DEF Starts
          <5> QED BY <5>2, <5>3, <5>4, <5>5 DEF TokenAt, OneToken, NoToken, Locked
        <4> QED BY <4>4, <4>5
      <3> QED BY <3>5, <3>6
    <2> QED BY <1>0, <2>3, <2>4 DEF Tokens
  <1>9. ASSUME NEW t \in Thread, SendGrab(t) PROVE TokenInv'
    <2>1. \A u \in Thread \ {t} : SameThread(u)
      BY <1>9 DEF SendGrab, ThreadType, SameThread
    <2>2. ASSUME NEW y \in Handle, ctx'[y] = "none" PROVE lockSession'[y] = 0
      BY <1>9, <2>2 DEF SendGrab, Tokens, ContextType, QueueType
    <2>3. ASSUME NEW x \in Handle, ref'[x] > 0 PROVE TokenAt(x)'
      <3>1. ref[x] > 0
        BY <1>9, <2>3, HeldPositive DEF SendGrab, ContextType
      <3>2. (InGlobalQueue(x)' => InGlobalQueue(x)) /\ (Single(x) => Single(x)')
        BY <1>9 DEF SendGrab, InGlobalQueue, Single
      <3>3. TokenAt(x)
        BY <3>1 DEF Tokens
      <3>4. /\ Works(t, x)' => Works(t, x)
            /\ Works(t, x)' /\ pc[t] \in {"cb", "done", "pushglobal"} => pc'[t] \in {"cb", "done", "pushglobal"}
            /\ Starts(t, x)' => Starts(t, x)
            /\ lau'[t].st = "init" /\ lau'[t].h = x => lau[t].st = "init" /\ lau[t].h = x
        BY <1>9 DEF SendGrab, Works, Starts, Stage, NoLaunch, ThreadType
      <3>5. inited' = inited /\ inGlobal'[x] = inGlobal[x] /\ lockSession'[x] = lockSession[x]
        BY <1>9 DEF SendGrab
      <3> QED BY <2>1, <3>2, <3>3, <3>4, <3>5, KeepToken
    <2> QED BY <1>0, <2>2, <2>3 DEF Tokens
  <1>10. ASSUME NEW t \in Thread, SendPush(t) PROVE TokenInv'
    <2>1. snd[t].des \in Handle /\ snd[t].m \in Message
      BY <1>10 DEF SendPush, Shape, ThreadShape
    <2>2. \A u \in Thread \ {t} : SameThread(u)
      BY <1>10 DEF SendPush, ThreadType, SameThread
    <2>3. ASSUME NEW y \in Handle, ctx'[y] = "none" PROVE lockSession'[y] = 0
      BY <1>10, <2>3, <2>1 DEF SendPush, Tokens, ContextType, QueueType, MqPush,
         PushHead, PushTail
    <2>4. ASSUME NEW x \in Handle, ref'[x] > 0 PROVE TokenAt(x)'
      <3>1. ref[x] > 0
        BY <1>10, <2>4 DEF SendPush
      <3>2. TokenAt(x) /\ gq \in Seq(Handle)
        BY <3>1 DEF Tokens, QueueType
      <3>3. inited' = inited /\ lau' = lau /\ pc' = pc /\ cur' = cur
        BY <1>10 DEF SendPush
      <3>4. \A u \in Thread : Works(u, x)' = Works(u, x) /\ Starts(u, x)' = Starts(u, x)
        BY <3>3 DEF Works, Starts
      <3>5. MqPush(snd[t].des, snd[t].m)
        BY <1>10 DEF SendPush
      <3>6. CASE gq' = gq /\ inGlobal' = inGlobal
        <4>1. lockSession'[x] = 0 \/ lockSession'[x] = lockSession[x]
          BY <2>1, <3>5 DEF MqPush, PushHead, PushTail, QueueType
        <4>2. (InGlobalQueue(x)' => InGlobalQueue(x)) /\ (Single(x) => Single(x)')
          BY <3>6 DEF InGlobalQueue, Single
        <4> QED BY <2>2, <3>2, <3>3, <3>4, <3>6, <4>1, <4>2, KeepToken
      <3>7. CASE ~(gq' = gq /\ inGlobal' = inGlobal)
        <4>1. /\ GlobalPush(snd[t].des) /\ inGlobal' = [inGlobal EXCEPT ![snd[t].des] = MQ_IN_GLOBAL]
              /\ inGlobal[snd[t].des] \in {0, MQ_LOCKED} /\ lockSession'[snd[t].des] = 0
              /\ snd[t].des # x => lockSession'[x] = lockSession[x]
          BY <2>1, <3>5, <3>7 DEF MqPush, PushHead, PushTail, QueueType
        <4>2. CASE x = snd[t].des
          <5>1. NoToken(x)
            BY <3>2, <4>1, <4>2 DEF TokenAt
          <5>2. inGlobal'[x] \notin {0, MQ_LOCKED}
            BY <4>1, <4>2 DEF QueueType, MQ_IN_GLOBAL, MQ_LOCKED
          <5>3. /\ ~InGlobalQueue(x) /\ ~Works(t, x)' /\ ~Starts(t, x)'
                /\ \A u \in Thread \ {t} : SameThread(u) /\ ~Works(u, x) /\ ~Starts(u, x)
            BY <2>2, <3>4, <5>1 DEF NoToken
          <5> QED BY <3>2, <4>1, <4>2, <5>2, <5>3, PushToken
        <4>3. CASE x # snd[t].des
          <5>1. inGlobal'[x] = inGlobal[x]
            BY <2>1, <4>1, <4>3 DEF QueueType
          <5>2. (InGlobalQueue(x)' => InGlobalQueue(x)) /\ (Single(x) => Single(x)')
            BY <2>1, <3>2, <4>1, <4>3, GlobalPushEffect, SinglePush
          <5> QED BY <2>2, <3>2, <3>3, <3>4, <4>1, <4>3, <5>1, <5>2, KeepToken
        <4> QED BY <4>2, <4>3
      <3> QED BY <3>6, <3>7
    <2> QED BY <1>0, <2>3, <2>4 DEF Tokens
  <1>11. ASSUME NEW t \in Thread, MonitorEndless(t) PROVE TokenInv'
    <2>1. \A u \in Thread \ {t} : SameThread(u)
      BY <1>11 DEF MonitorEndless, ThreadType, SameThread
    <2>2. ASSUME NEW y \in Handle, ctx'[y] = "none" PROVE lockSession'[y] = 0
      BY <1>11, <2>2 DEF MonitorEndless, Tokens, ContextType, QueueType
    <2>3. ASSUME NEW x \in Handle, ref'[x] > 0 PROVE TokenAt(x)'
      <3>1. ref[x] > 0
        BY <1>11, <2>3, HeldPositive DEF MonitorEndless, ContextType
      <3>2. (InGlobalQueue(x)' => InGlobalQueue(x)) /\ (Single(x) => Single(x)')
        BY <1>11 DEF MonitorEndless, InGlobalQueue, Single
      <3>3. TokenAt(x)
        BY <3>1 DEF Tokens
      <3>4. /\ Works(t, x)' => Works(t, x)
            /\ Works(t, x)' /\ pc[t] \in {"cb", "done", "pushglobal"} => pc'[t] \in {"cb", "done", "pushglobal"}
            /\ Starts(t, x)' => Starts(t, x)
            /\ lau'[t].st = "init" /\ lau'[t].h = x => lau[t].st = "init" /\ lau[t].h = x
        BY <1>11 DEF MonitorEndless, Works, Starts, Stage, NoLaunch, ThreadType
      <3>5. inited' = inited /\ inGlobal'[x] = inGlobal[x] /\ lockSession'[x] = lockSession[x]
        BY <1>11 DEF MonitorEndless
      <3> QED BY <2>1, <3>2, <3>3, <3>4, <3>5, KeepToken
    <2> QED BY <1>0, <2>2, <2>3 DEF Tokens
  <1>12. ASSUME NEW t \in Thread, ReleaseDec(t) PROVE TokenInv'
    <2>1. \A u \in Thread \ {t} : SameThread(u)
      BY <1>12 DEF ReleaseDec, ThreadType, SameThread
    <2>2. ASSUME NEW y \in Handle, ctx'[y] = "none" PROVE lockSession'[y] = 0
      BY <1>12, <2>2 DEF ReleaseDec, Tokens, ContextType, QueueType
    <2>3. ASSUME NEW x \in Handle, ref'[x] > 0 PROVE TokenAt(x)'
      <3>1. ref[x] > 0
        BY <1>12, <2>3, HeldPositive DEF ReleaseDec, ContextType
      <3>2. (InGlobalQueue(x)' => InGlobalQueue(x)) /\ (Single(x) => Single(x)')
        BY <1>12 DEF ReleaseDec, InGlobalQueue, Single
      <3>3. TokenAt(x)
        BY <3>1 DEF Tokens
      <3>4. /\ Works(t, x)' => Works(t, x)
            /\ Works(t, x)' /\ pc[t] \in {"cb", "done", "pushglobal"} => pc'[t] \in {"cb", "done", "pushglobal"}
            /\ Starts(t, x)' => Starts(t, x)
            /\ lau'[t].st = "init" /\ lau'[t].h = x => lau[t].st = "init" /\ lau[t].h = x
        BY <1>12 DEF ReleaseDec, Works, Starts, Stage, NoLaunch, ThreadType
      <3>5. inited' = inited /\ inGlobal'[x] = inGlobal[x] /\ lockSession'[x] = lockSession[x]
        BY <1>12 DEF ReleaseDec
      <3> QED BY <2>1, <3>2, <3>3, <3>4, <3>5, KeepToken
    <2> QED BY <1>0, <2>2, <2>3 DEF Tokens
  <1>13. ASSUME NEW t \in Thread, ReleaseMark(t) PROVE TokenInv'
    <2>1. rel[t].h \in Handle
      BY <1>13 DEF ReleaseMark, Shape, ThreadShape
    <2>2. \A u \in Thread \ {t} : SameThread(u)
      BY <1>13 DEF ReleaseMark, ThreadType, SameThread
    <2>3. ASSUME NEW y \in Handle, ctx'[y] = "none" PROVE lockSession'[y] = 0
      BY <1>13, <2>3, <2>1 DEF ReleaseMark, Tokens, ContextType, QueueType
    <2>4. ASSUME NEW x \in Handle, ref'[x] > 0 PROVE TokenAt(x)'
      <3>1. ref[x] > 0 /\ x # rel[t].h
        BY <1>13, <2>4, <2>1 DEF ReleaseMark, Deletion, DeletedOnce, Deletes
      <3>2. (InGlobalQueue(x)' => InGlobalQueue(x)) /\ (Single(x) => Single(x)')
        <4>1. gq' = gq \/ GlobalPush(rel[t].h)
          BY <1>13 DEF ReleaseMark, MarkPush
        <4>2. gq \in Seq(Handle)
          BY DEF QueueType
        <4> QED
          BY <3>1, <4>1, <4>2, GlobalPushEffect, SinglePush, <2>1 DEF InGlobalQueue,
             Single
      <3>3. TokenAt(x)
        BY <3>1 DEF Tokens
      <3>4. /\ Works(t, x)' => Works(t, x)
            /\ Works(t, x)' /\ pc[t] \in {"cb", "done", "pushglobal"} => pc'[t] \in {"cb", "done", "pushglobal"}
            /\ Starts(t, x)' => Starts(t, x)
            /\ lau'[t].st = "init" /\ lau'[t].h = x => lau[t].st = "init" /\ lau[t].h = x
        BY <1>13 DEF ReleaseMark, Works, Starts, Stage, NoLaunch, ThreadType
      <3>5. inited' = inited /\ inGlobal'[x] = inGlobal[x] /\ lockSession'[x] = lockSession[x]
        BY <1>13 DEF ReleaseMark
      <3> QED BY <2>2, <3>2, <3>3, <3>4, <3>5, KeepToken
    <2> QED BY <1>0, <2>3, <2>4 DEF Tokens
  <1>14. ASSUME NEW t \in Thread, ReleaseFree(t) PROVE TokenInv'
    <2>1. \A u \in Thread \ {t} : SameThread(u)
      BY <1>14 DEF ReleaseFree, ThreadType, SameThread
    <2>2. ASSUME NEW y \in Handle, ctx'[y] = "none" PROVE lockSession'[y] = 0
      BY <1>14, <2>2 DEF ReleaseFree, Tokens, ContextType, QueueType
    <2>3. ASSUME NEW x \in Handle, ref'[x] > 0 PROVE TokenAt(x)'
      <3>1. ref[x] > 0
        BY <1>14, <2>3, HeldPositive DEF ReleaseFree, ContextType
      <3>2. (InGlobalQueue(x)' => InGlobalQueue(x)) /\ (Single(x) => Single(x)')
        BY <1>14 DEF ReleaseFree, InGlobalQueue, Single
      <3>3. TokenAt(x)
        BY <3>1 DEF Tokens
      <3>4. /\ Works(t, x)' => Works(t, x)
            /\ Works(t, x)' /\ pc[t] \in {"cb", "done", "pushglobal"} => pc'[t] \in {"cb", "done", "pushglobal"}
            /\ Starts(t, x)' => Starts(t, x)
            /\ lau'[t].st = "init" /\ lau'[t].h = x => lau[t].st = "init" /\ lau[t].h = x
        BY <1>14 DEF ReleaseFree, Works, Starts, Stage, NoLaunch, ThreadType
      <3>5. inited' = inited /\ inGlobal'[x] = inGlobal[x] /\ lockSession'[x] = lockSession[x]
        BY <1>14 DEF ReleaseFree
      <3> QED BY <2>1, <3>2, <3>3, <3>4, <3>5, KeepToken
    <2> QED BY <1>0, <2>2, <2>3 DEF Tokens
  <1>15. ASSUME NEW t \in Thread, InitReturn(t) PROVE TokenInv'
    <2>1. PICK ok \in BOOLEAN : InitReturn(t)!(ok)
      BY <1>15 DEF InitReturn
    <2>2. \A u \in Thread \ {t} : SameThread(u)
      BY <2>1 DEF ThreadType, SameThread
    <2>3. ASSUME NEW y \in Handle, ctx'[y] = "none" PROVE lockSession'[y] = 0
      BY <2>1, <2>3 DEF Tokens, ContextType, QueueType
    <2>4. ASSUME NEW x \in Handle, ref'[x] > 0 PROVE TokenAt(x)'
      <3>1. ref[x] > 0
        BY <2>1, <2>4, HeldPositive DEF ContextType
      <3>2. (InGlobalQueue(x)' => InGlobalQueue(x)) /\ (Single(x) => Single(x)')
        BY <2>1 DEF InGlobalQueue, Single
      <3>3. TokenAt(x)
        BY <3>1 DEF Tokens
      <3>4. /\ Works(t, x)' => Works(t, x)
            /\ Works(t, x)' /\ pc[t] \in {"cb", "done", "pushglobal"} => pc'[t] \in {"cb", "done", "pushglobal"}
            /\ Starts(t, x)' => Starts(t, x)
            /\ lau'[t].st = "init" /\ lau'[t].h = x => lau[t].st = "init" /\ lau[t].h = x
        BY <2>1 DEF Works, Starts, Stage, NoLaunch, ThreadType
      <3>5. inited' = inited /\ inGlobal'[x] = inGlobal[x] /\ lockSession'[x] = lockSession[x]
        BY <2>1
      <3> QED BY <2>2, <3>2, <3>3, <3>4, <3>5, KeepToken
    <2> QED BY <1>0, <2>3, <2>4 DEF Tokens
  <1>16. ASSUME NEW t \in Thread, LaunchInited(t) PROVE TokenInv'
    <2>1. \A u \in Thread \ {t} : SameThread(u)
      BY <1>16 DEF LaunchInited, ThreadType, SameThread
    <2>2. ASSUME NEW y \in Handle, ctx'[y] = "none" PROVE lockSession'[y] = 0
      BY <1>16, <2>2 DEF LaunchInited, Tokens, ContextType, QueueType
    <2>3. ASSUME NEW x \in Handle, ref'[x] > 0 PROVE TokenAt(x)'
      <3>1. ref[x] > 0
        BY <1>16, <2>3 DEF LaunchInited
      <3>2. TokenAt(x) /\ lau[t].h \in Handle
        BY <1>16, <3>1 DEF Tokens, LaunchInited, Shape, ThreadShape
      <3>3. UNCHANGED <<inGlobal, lockSession, gq, pc, cur>> /\ inited' = inited \cup {lau[t].h}
        BY <1>16 DEF LaunchInited
      <3>4. /\ Works(t, x)' => Works(t, x)
            /\ Starts(t, x)' => Starts(t, x)
            /\ ~(lau'[t].st = "init" /\ lau'[t].h = x)
        BY <1>16 DEF LaunchInited, Works, Starts, Stage, ThreadType
      <3>5. (InGlobalQueue(x)' => InGlobalQueue(x)) /\ (Single(x) => Single(x)')
        BY <3>3 DEF InGlobalQueue, Single
      <3>6. CASE x # lau[t].h
        BY <2>1, <3>2, <3>3, <3>4, <3>5, <3>6, KeepToken
      <3>7. CASE x = lau[t].h
        <4>1. Starts(t, x)
          BY <1>16, <3>7 DEF LaunchInited, Starts
        <4>2. \A u \in Thread \ {t} : ~Starts(u, x)
          BY <3>2, <4>1 DEF TokenAt, OneToken
        <4>3. \A u \in Thread : ~(lau'[u].st = "init" /\ lau'[u].h = x)
          BY <2>1, <3>4, <4>2 DEF SameThread, Starts
        <4>4. \A u \in Thread : (Works(u, x)' => Works(u, x)) /\ (Starts(u, x)' => Starts(u, x))
          BY <2>1, <3>4 DEF SameThread, Works, Starts
        <4>5. OneToken(x)'
          BY <3>2, <3>5, <4>4 DEF TokenAt, OneToken
        <4>6. (NoToken(x) => NoToken(x)') /\ (Locked(x) => Locked(x)')
          BY <3>3, <3>5, <4>4 DEF NoToken, Locked
        <4> QED BY <3>2, <3>3, <4>3, <4>5, <4>6 DEF TokenAt
      <3> QED BY <3>6, <3>7
    <2> QED BY <1>0, <2>2, <2>3 DEF Tokens
  <1>17. ASSUME NEW t \in Thread, LaunchPush(t) PROVE TokenInv'
    <2>1. lau[t].h \in Handle
      BY <1>17 DEF LaunchPush, Shape, ThreadShape
    <2>2. \A u \in Thread \ {t} : SameThread(u)
      BY <1>17 DEF LaunchPush, ThreadType, SameThread
    <2>3. ASSUME NEW y \in Handle, ctx'[y] = "none" PROVE lockSession'[y] = 0
      BY <1>17, <2>3, <2>1 DEF LaunchPush, Tokens, ContextType, QueueType
    <2>4. ASSUME NEW x \in Handle, ref'[x] > 0 PROVE TokenAt(x)'
      <3>1. ref[x] > 0
        BY <1>17, <2>4 DEF LaunchPush
      <3>2. TokenAt(x) /\ gq \in Seq(Handle) /\ ~release[x]
        BY <3>1 DEF Tokens, QueueType, Deletion, DeletedOnce
      <3>3. inited' = inited /\ lockSession' = lockSession
        BY <1>17 DEF LaunchPush
      <3>4. CASE x # lau[t].h
        <4>1. gq' = gq \/ GlobalPush(lau[t].h)
          BY <1>17 DEF LaunchPush
        <4>2. (InGlobalQueue(x)' => InGlobalQueue(x)) /\ (Single(x) => Single(x)')
          BY <2>1, <3>2, <3>4, <4>1, GlobalPushEffect, SinglePush DEF InGlobalQueue, Single
        <4>3. inGlobal'[x] = inGlobal[x]
          BY <1>17 DEF LaunchPush
        <4>4. /\ Works(t, x)' => Works(t, x)
              /\ Works(t, x)' => pc'[t] = pc[t]
              /\ Starts(t, x)' => Starts(t, x)
              /\ lau'[t].st = "init" /\ lau'[t].h = x => lau[t].st = "init" /\ lau[t].h = x
          BY <1>17, <2>1, <3>4 DEF LaunchPush, Works, Starts, NoLaunch, Stage, ThreadType
        <4> QED BY <2>2, <3>2, <3>3, <4>2, <4>3, <4>4, KeepToken
      <3>5. CASE x = lau[t].h
        <4>1. GlobalPush(x) /\ inGlobal' = inGlobal
          BY <1>17, <3>2, <3>5 DEF LaunchPush
        <4>2. Starts(t, x)
          BY <1>17, <3>5 DEF LaunchPush, Starts
        <4>3. \A u \in Thread \ {t} : ~Works(u, x) /\ ~Starts(u, x)
          BY <3>2, <4>2 DEF TokenAt, OneToken
        <4>4. ~InGlobalQueue(x) /\ inGlobal[x] \notin {0, MQ_LOCKED} /\ lockSession[x] = 0
          BY <3>2, <4>2 DEF TokenAt, OneToken, NoToken, Locked
        <4>5. ~Starts(t, x)'
          BY <1>17 DEF LaunchPush, Starts, NoLaunch, Stage, ThreadType
        <4>6. ~Works(t, x)'
          <5>1. ~Works(t, x)
            BY <3>2, <4>2 DEF TokenAt, OneToken
          <5> QED
            BY <1>17, <5>1 DEF LaunchPush, Works, Starts
        <4> QED BY <2>2, <3>2, <3>3, <4>1, <4>3, <4>4, <4>5, <4>6, PushToken
      <3> QED BY <3>4, <3>5
    <2> QED BY <1>0, <2>3, <2>4 DEF Tokens
  <1>18. ASSUME NEW t \in Thread, LaunchReturn(t) PROVE TokenInv'
    <2>1. \A u \in Thread \ {t} : SameThread(u)
      BY <1>18 DEF LaunchReturn, ThreadType, SameThread
    <2>2. ASSUME NEW y \in Handle, ctx'[y] = "none" PROVE lockSession'[y] = 0
      BY <1>18, <2>2 DEF LaunchReturn, Tokens, ContextType, QueueType
    <2>3. ASSUME NEW x \in Handle, ref'[x] > 0 PROVE TokenAt(x)'
      <3>1. ref[x] > 0
        BY <1>18, <2>3, HeldPositive DEF LaunchReturn, ContextType
      <3>2. (InGlobalQueue(x)' => InGlobalQueue(x)) /\ (Single(x) => Single(x)')
        BY <1>18 DEF LaunchReturn, InGlobalQueue, Single
      <3>3. TokenAt(x)
        BY <3>1 DEF Tokens
      <3>4. /\ Works(t, x)' => Works(t, x)
            /\ Works(t, x)' /\ pc[t] \in {"cb", "done", "pushglobal"} => pc'[t] \in {"cb", "done", "pushglobal"}
            /\ Starts(t, x)' => Starts(t, x)
            /\ lau'[t].st = "init" /\ lau'[t].h = x => lau[t].st = "init" /\ lau[t].h = x
        BY <1>18 DEF LaunchReturn, Works, Starts, Stage, NoLaunch, ThreadType
      <3>5. inited' = inited /\ inGlobal'[x] = inGlobal[x] /\ lockSession'[x] = lockSession[x]
        BY <1>18 DEF LaunchReturn
      <3> QED BY <2>1, <3>2, <3>3, <3>4, <3>5, KeepToken
    <2> QED BY <1>0, <2>2, <2>3 DEF Tokens
  <1>19. ASSUME NEW t \in Thread, LaunchRetire(t) PROVE TokenInv'
    <2>1. lau[t].h \in Handle
      BY <1>19 DEF LaunchRetire, Shape, ThreadShape
    <2>2. \A u \in Thread \ {t} : SameThread(u)
      BY <1>19 DEF LaunchRetire, ThreadType, SameThread
    <2>3. ASSUME NEW y \in Handle, ctx'[y] = "none" PROVE lockSession'[y] = 0
      BY <1>19, <2>3, <2>1, RetireEffect DEF LaunchRetire, Tokens, ContextType
    <2>4. ASSUME NEW x \in Handle, ref'[x] > 0 PROVE TokenAt(x)'
      <3>1. ref[x] > 0
        BY <1>19, <2>4, HeldPositive, RetireEffect, <2>1 DEF LaunchRetire, ContextType
      <3>2. (InGlobalQueue(x)' => InGlobalQueue(x)) /\ (Single(x) => Single(x)')
        <4>1. Retire(lau[t].h)
          BY <1>19 DEF LaunchRetire
        <4>2. CASE lau[t].h \in slot /\ ref[lau[t].h] = 1
          <5>1. MarkPush(lau[t].h) /\ x # lau[t].h
            BY <2>4, <4>1, <4>2, RetireEffect, <2>1
          <5>2. gq' = gq \/ GlobalPush(lau[t].h)
            BY <5>1 DEF MarkPush
          <5>3. gq \in Seq(Handle)
            BY DEF QueueType
          <5> QED
            BY <5>1, <5>2, <5>3, GlobalPushEffect, SinglePush, <2>1 DEF InGlobalQueue,
               Single
        <4>3. CASE lau[t].h \notin slot \/ ref[lau[t].h] # 1
          BY <4>1, <4>3, RetireEffect, <2>1 DEF InGlobalQueue, Single
        <4> QED BY <4>2, <4>3
      <3>3. TokenAt(x)
        BY <3>1 DEF Tokens
      <3>4. /\ Works(t, x)' => Works(t, x)
            /\ Works(t, x)' /\ pc[t] \in {"cb", "done", "pushglobal"} => pc'[t] \in {"cb", "done", "pushglobal"}
            /\ Starts(t, x)' => Starts(t, x)
            /\ lau'[t].st = "init" /\ lau'[t].h = x => lau[t].st = "init" /\ lau[t].h = x
        BY <1>19 DEF LaunchRetire, Works, Starts, Stage, NoLaunch, ThreadType
      <3>5. inited' = inited /\ inGlobal'[x] = inGlobal[x] /\ lockSession'[x] = lockSession[x]
        BY <1>19 DEF LaunchRetire
      <3> QED BY <2>2, <3>2, <3>3, <3>4, <3>5, KeepToken
    <2> QED BY <1>0, <2>3, <2>4 DEF Tokens
  <1>20. ASSUME NEW t \in Thread, LaunchDrop(t) PROVE TokenInv'
    <2>1. lau[t].h \in Handle
      BY <1>20 DEF LaunchDrop, Shape, ThreadShape
    <2>2. \A u \in Thread \ {t} : SameThread(u)
      BY <1>20 DEF LaunchDrop, ThreadType, SameThread
    <2>3. ASSUME NEW y \in Handle, ctx'[y] = "none" PROVE lockSession'[y] = 0
      BY <1>20, <2>3, <2>1 DEF LaunchDrop, Tokens, ContextType, QueueType, MqRelease
    <2>4. ASSUME NEW x \in Handle, ref'[x] > 0 PROVE TokenAt(x)'
      <3>1. ref[x] > 0
        BY <1>20, <2>4 DEF LaunchDrop
      <3>2. TokenAt(x) /\ gq \in Seq(Handle) /\ ~release[x]
        BY <3>1 DEF Tokens, QueueType, Deletion, DeletedOnce
      <3>3. inited' = inited /\ lockSession' = lockSession
        BY <1>20 DEF LaunchDrop, MqRelease
      <3>4. CASE x # lau[t].h
        <4>1. gq' = gq \/ GlobalPush(lau[t].h)
          BY <1>20 DEF LaunchDrop, MqRelease
        <4>2. (InGlobalQueue(x)' => InGlobalQueue(x)) /\ (Single(x) => Single(x)')
          BY <2>1, <3>2, <3>4, <4>1, GlobalPushEffect, SinglePush DEF InGlobalQueue, Single
        <4>3. inGlobal'[x] = inGlobal[x]
          BY <1>20, <2>1, <3>4 DEF LaunchDrop, MqRelease, QueueType
        <4>4. /\ Works(t, x)' => Works(t, x)
              /\ Works(t, x)' => pc'[t] = pc[t]
              /\ Starts(t, x)' => Starts(t, x)
              /\ lau'[t].st = "init" /\ lau'[t].h = x => lau[t].st = "init" /\ lau[t].h = x
          BY <1>20, <2>1, <3>4 DEF LaunchDrop, Works, Starts, NoLaunch, ThreadType
        <4> QED BY <2>2, <3>2, <3>3, <4>2, <4>3, <4>4, KeepToken
      <3>5. CASE x = lau[t].h
        <4>1. GlobalPush(x) /\ inGlobal' = inGlobal
          BY <1>20, <3>2, <3>5 DEF LaunchDrop, MqRelease
        <4>2. Starts(t, x)
          BY <1>20, <3>5 DEF LaunchDrop, Starts
        <4>3. \A u \in Thread \ {t} : ~Works(u, x) /\ ~Starts(u, x)
          BY <3>2, <4>2 DEF TokenAt, OneToken
        <4>4. ~InGlobalQueue(x) /\ inGlobal[x] \notin {0, MQ_LOCKED} /\ lockSession[x] = 0
          BY <3>2, <4>2 DEF TokenAt, OneToken, NoToken, Locked
        <4>5. ~Starts(t, x)'
          BY <1>20 DEF LaunchDrop, Starts, NoLaunch, ThreadType
        <4>6. ~Works(t, x)'
          <5>1. ~Works(t, x)
            BY <3>2, <4>2 DEF TokenAt, OneToken
          <5> QED
            BY <1>20, <5>1 DEF LaunchDrop, Works, Starts
        <4> QED BY <2>2, <3>2, <3>3, <4>1, <4>3, <4>4, <4>5, <4>6, PushToken
      <3> QED BY <3>4, <3>5
    <2> QED BY <1>0, <2>3, <2>4 DEF Tokens
  <1>21. ASSUME NEW t \in Thread, Request(t) PROVE TokenInv'
    <2>1. PICK h \in Handle, d \in Known, call \in BOOLEAN : Request(t)!(h,d,call)
      BY <1>21 DEF Request
    <2>2. pc[t] = "cb" /\ Quiet(t) /\ lau[t].st \in {"none", "init"}
      BY <2>1, Serving
    <2>3. \A u \in Thread \ {t} : SameThread(u)
      BY <2>1 DEF ThreadType, SameThread
    <2>4. ASSUME NEW y \in Handle, ctx'[y] = "none" PROVE lockSession'[y] = 0
      BY <2>1, <2>4, <2>2 DEF Tokens, ContextType, QueueType
    <2>5. ASSUME NEW x \in Handle, ref'[x] > 0 PROVE TokenAt(x)'
      <3>1. ref[x] > 0
        BY <2>1, <2>5, <2>2, HeldPositive DEF ContextType
      <3>2. (InGlobalQueue(x)' => InGlobalQueue(x)) /\ (Single(x) => Single(x)')
        BY <2>1 DEF InGlobalQueue, Single
      <3>3. TokenAt(x)
        BY <3>1 DEF Tokens
      <3>4. /\ Works(t, x)' => Works(t, x)
            /\ Works(t, x)' /\ pc[t] \in {"cb", "done", "pushglobal"} => pc'[t] \in {"cb", "done", "pushglobal"}
            /\ Starts(t, x)' => Starts(t, x)
            /\ lau'[t].st = "init" /\ lau'[t].h = x => lau[t].st = "init" /\ lau[t].h = x
        BY <2>1 DEF Works, Starts, Stage, NoLaunch, ThreadType
      <3>5. inited' = inited /\ inGlobal'[x] = inGlobal[x] /\ lockSession'[x] = lockSession[x]
        BY <2>1
      <3> QED BY <2>3, <3>2, <3>3, <3>4, <3>5, KeepToken
    <2> QED BY <1>0, <2>4, <2>5 DEF Tokens
  <1>22. ASSUME NEW t \in Thread, Respond(t) PROVE TokenInv'
    <2>1. PICK h \in Handle : Respond(t)!(h)
      BY <1>22 DEF Respond
    <2>2. pc[t] = "cb" /\ Quiet(t) /\ lau[t].st \in {"none", "init"}
      BY <2>1, Serving
    <2>3. \A u \in Thread \ {t} : SameThread(u)
      BY <2>1 DEF ThreadType, SameThread
    <2>4. ASSUME NEW y \in Handle, ctx'[y] = "none" PROVE lockSession'[y] = 0
      BY <2>1, <2>4, <2>2 DEF Tokens, ContextType, QueueType
    <2>5. ASSUME NEW x \in Handle, ref'[x] > 0 PROVE TokenAt(x)'
      <3>1. ref[x] > 0
        BY <2>1, <2>5, <2>2, HeldPositive DEF ContextType
      <3>2. (InGlobalQueue(x)' => InGlobalQueue(x)) /\ (Single(x) => Single(x)')
        BY <2>1 DEF InGlobalQueue, Single
      <3>3. TokenAt(x)
        BY <3>1 DEF Tokens
      <3>4. /\ Works(t, x)' => Works(t, x)
            /\ Works(t, x)' /\ pc[t] \in {"cb", "done", "pushglobal"} => pc'[t] \in {"cb", "done", "pushglobal"}
            /\ Starts(t, x)' => Starts(t, x)
            /\ lau'[t].st = "init" /\ lau'[t].h = x => lau[t].st = "init" /\ lau[t].h = x
        BY <2>1 DEF Works, Starts, Stage, NoLaunch, ThreadType
      <3>5. inited' = inited /\ inGlobal'[x] = inGlobal[x] /\ lockSession'[x] = lockSession[x]
        BY <2>1
      <3> QED BY <2>3, <3>2, <3>3, <3>4, <3>5, KeepToken
    <2> QED BY <1>0, <2>4, <2>5 DEF Tokens
  <1>23. ASSUME NEW t \in Thread, TimeoutNow(t) PROVE TokenInv'
    <2>1. PICK h \in Handle : TimeoutNow(t)!(h)
      BY <1>23 DEF TimeoutNow
    <2>2. pc[t] = "cb" /\ Quiet(t) /\ lau[t].st \in {"none", "init"}
      BY <2>1, Serving
    <2>3. \A u \in Thread \ {t} : SameThread(u)
      BY <2>1 DEF ThreadType, SameThread
    <2>4. ASSUME NEW y \in Handle, ctx'[y] = "none" PROVE lockSession'[y] = 0
      BY <2>1, <2>4, <2>2 DEF Tokens, ContextType, QueueType
    <2>5. ASSUME NEW x \in Handle, ref'[x] > 0 PROVE TokenAt(x)'
      <3>1. ref[x] > 0
        BY <2>1, <2>5, <2>2, HeldPositive DEF ContextType
      <3>2. (InGlobalQueue(x)' => InGlobalQueue(x)) /\ (Single(x) => Single(x)')
        BY <2>1 DEF InGlobalQueue, Single
      <3>3. TokenAt(x)
        BY <3>1 DEF Tokens
      <3>4. /\ Works(t, x)' => Works(t, x)
            /\ Works(t, x)' /\ pc[t] \in {"cb", "done", "pushglobal"} => pc'[t] \in {"cb", "done", "pushglobal"}
            /\ Starts(t, x)' => Starts(t, x)
            /\ lau'[t].st = "init" /\ lau'[t].h = x => lau[t].st = "init" /\ lau[t].h = x
        BY <2>1 DEF Works, Starts, Stage, NoLaunch, ThreadType
      <3>5. inited' = inited /\ inGlobal'[x] = inGlobal[x] /\ lockSession'[x] = lockSession[x]
        BY <2>1
      <3> QED BY <2>3, <3>2, <3>3, <3>4, <3>5, KeepToken
    <2> QED BY <1>0, <2>4, <2>5 DEF Tokens
  <1>24. ASSUME NEW t \in Thread, TimeoutLater(t) PROVE TokenInv'
    <2>1. PICK h \in Handle : TimeoutLater(t)!(h)
      BY <1>24 DEF TimeoutLater
    <2>2. pc[t] = "cb" /\ Quiet(t) /\ lau[t].st \in {"none", "init"}
      BY <2>1, Serving
    <2>3. \A u \in Thread \ {t} : SameThread(u)
      BY <2>1 DEF ThreadType, SameThread
    <2>4. ASSUME NEW y \in Handle, ctx'[y] = "none" PROVE lockSession'[y] = 0
      BY <2>1, <2>4, <2>2 DEF Tokens, ContextType, QueueType
    <2>5. ASSUME NEW x \in Handle, ref'[x] > 0 PROVE TokenAt(x)'
      <3>1. ref[x] > 0
        BY <2>1, <2>5, <2>2, HeldPositive DEF ContextType
      <3>2. (InGlobalQueue(x)' => InGlobalQueue(x)) /\ (Single(x) => Single(x)')
        BY <2>1 DEF InGlobalQueue, Single
      <3>3. TokenAt(x)
        BY <3>1 DEF Tokens
      <3>4. /\ Works(t, x)' => Works(t, x)
            /\ Works(t, x)' /\ pc[t] \in {"cb", "done", "pushglobal"} => pc'[t] \in {"cb", "done", "pushglobal"}
            /\ Starts(t, x)' => Starts(t, x)
            /\ lau'[t].st = "init" /\ lau'[t].h = x => lau[t].st = "init" /\ lau[t].h = x
        BY <2>1 DEF Works, Starts, Stage, NoLaunch, ThreadType
      <3>5. inited' = inited /\ inGlobal'[x] = inGlobal[x] /\ lockSession'[x] = lockSession[x]
        BY <2>1
      <3> QED BY <2>3, <3>2, <3>3, <3>4, <3>5, KeepToken
    <2> QED BY <1>0, <2>4, <2>5 DEF Tokens
  <1>25. ASSUME NEW t \in Thread, Forward(t) PROVE TokenInv'
    <2>1. PICK h \in Handle, d \in Known : Forward(t)!(h,d)
      BY <1>25 DEF Forward
    <2>2. pc[t] = "cb" /\ Quiet(t) /\ lau[t].st \in {"none", "init"}
      BY <2>1, Serving
    <2>3. \A u \in Thread \ {t} : SameThread(u)
      BY <2>1 DEF ThreadType, SameThread
    <2>4. ASSUME NEW y \in Handle, ctx'[y] = "none" PROVE lockSession'[y] = 0
      BY <2>1, <2>4, <2>2 DEF Tokens, ContextType, QueueType
    <2>5. ASSUME NEW x \in Handle, ref'[x] > 0 PROVE TokenAt(x)'
      <3>1. ref[x] > 0
        BY <2>1, <2>5, <2>2, HeldPositive DEF ContextType
      <3>2. (InGlobalQueue(x)' => InGlobalQueue(x)) /\ (Single(x) => Single(x)')
        BY <2>1 DEF InGlobalQueue, Single
      <3>3. TokenAt(x)
        BY <3>1 DEF Tokens
      <3>4. /\ Works(t, x)' => Works(t, x)
            /\ Works(t, x)' /\ pc[t] \in {"cb", "done", "pushglobal"} => pc'[t] \in {"cb", "done", "pushglobal"}
            /\ Starts(t, x)' => Starts(t, x)
            /\ lau'[t].st = "init" /\ lau'[t].h = x => lau[t].st = "init" /\ lau[t].h = x
        BY <2>1 DEF Works, Starts, Stage, NoLaunch, ThreadType
      <3>5. inited' = inited /\ inGlobal'[x] = inGlobal[x] /\ lockSession'[x] = lockSession[x]
        BY <2>1
      <3> QED BY <2>3, <3>2, <3>3, <3>4, <3>5, KeepToken
    <2> QED BY <1>0, <2>4, <2>5 DEF Tokens
  <1>26. ASSUME NEW t \in Thread, Kill(t) PROVE TokenInv'
    <2>1. PICK h \in Handle, d \in Known : Kill(t)!(h,d)
      BY <1>26 DEF Kill
    <2>2. pc[t] = "cb" /\ Quiet(t) /\ lau[t].st \in {"none", "init"}
      BY <2>1, Serving
    <2>3. d \in Handle /\ ctx[d] # "none"
      BY <2>1 DEF Known
    <2>4. \A u \in Thread \ {t} : SameThread(u)
      BY <2>1 DEF ThreadType, SameThread
    <2>5. ASSUME NEW y \in Handle, ctx'[y] = "none" PROVE lockSession'[y] = 0
      BY <2>1, <2>5, <2>2, <2>3, RetireEffect DEF Tokens, ContextType
    <2>6. ASSUME NEW x \in Handle, ref'[x] > 0 PROVE TokenAt(x)'
      <3>1. ref[x] > 0
        BY <2>1, <2>6, HeldPositive, RetireEffect, <2>2, <2>3 DEF ContextType
      <3>2. (InGlobalQueue(x)' => InGlobalQueue(x)) /\ (Single(x) => Single(x)')
        <4>1. Retire(d)
          BY <2>1
        <4>2. CASE d \in slot /\ ref[d] = 1
          <5>1. MarkPush(d) /\ x # d
            BY <2>6, <4>1, <4>2, RetireEffect, <2>2, <2>3
          <5>2. gq' = gq \/ GlobalPush(d)
            BY <5>1 DEF MarkPush
          <5>3. gq \in Seq(Handle)
            BY DEF QueueType
          <5> QED
            BY <5>1, <5>2, <5>3, GlobalPushEffect, SinglePush, <2>2, <2>3 DEF
               InGlobalQueue, Single
        <4>3. CASE d \notin slot \/ ref[d] # 1
          BY <4>1, <4>3, RetireEffect, <2>2, <2>3 DEF InGlobalQueue, Single
        <4> QED BY <4>2, <4>3
      <3>3. TokenAt(x)
        BY <3>1 DEF Tokens
      <3>4. /\ Works(t, x)' => Works(t, x)
            /\ Works(t, x)' /\ pc[t] \in {"cb", "done", "pushglobal"} => pc'[t] \in {"cb", "done", "pushglobal"}
            /\ Starts(t, x)' => Starts(t, x)
            /\ lau'[t].st = "init" /\ lau'[t].h = x => lau[t].st = "init" /\ lau[t].h = x
        BY <2>1 DEF Works, Starts, Stage, NoLaunch, ThreadType
      <3>5. inited' = inited /\ inGlobal'[x] = inGlobal[x] /\ lockSession'[x] = lockSession[x]
        BY <2>1
      <3> QED BY <2>4, <3>2, <3>3, <3>4, <3>5, KeepToken
    <2> QED BY <1>0, <2>5, <2>6 DEF Tokens
  <1>27. ASSUME NEW t \in Thread, BlockCall(t) PROVE TokenInv'
    <2>1. PICK h \in Handle, d \in Known : BlockCall(t)!(h,d)
      BY <1>27 DEF BlockCall
    <2>2. pc[t] = "cb" /\ Quiet(t) /\ lau[t].st \in {"none", "init"}
      BY <2>1, Serving
    <2>3. \A u \in Thread \ {t} : SameThread(u)
      BY <2>1 DEF ThreadType, SameThread
    <2>4. ASSUME NEW y \in Handle, ctx'[y] = "none" PROVE lockSession'[y] = 0
      <3>1. ctx[y] = "none" /\ y \notin inited
        BY <2>1, <2>4 DEF Fresh, Unused
      <3> QED
        BY <2>1, <2>4, <3>1 DEF Tokens, QueueType
    <2>5. ASSUME NEW x \in Handle, ref'[x] > 0 PROVE TokenAt(x)'
      <3>1. ref[x] > 0
        BY <2>1, <2>5
      <3>2. TokenAt(x)
        BY <3>1 DEF Tokens
      <3>3. UNCHANGED <<inited, gq, pc, cur, lau>>
        BY <2>1
      <3>4. \A u \in Thread : Works(u, x)' = Works(u, x) /\ Starts(u, x)' = Starts(u, x)
        BY <3>3 DEF Works, Starts
      <3>5. (InGlobalQueue(x)' => InGlobalQueue(x)) /\ (Single(x) => Single(x)')
        BY <3>3 DEF InGlobalQueue, Single
      <3>6. CASE x # h
        <4>1. inGlobal'[x] = inGlobal[x] /\ lockSession'[x] = lockSession[x]
          BY <2>1, <3>6 DEF QueueType
        <4> QED BY <2>3, <3>2, <3>3, <3>4, <3>5, <4>1, KeepToken
      <3>7. CASE x = h
        <4>1. Works(t, x) /\ pc[t] = "cb"
          <5>1. ~(lau[t].st = "init" /\ lau[t].h = h)
            BY <2>1, <3>2, <3>7 DEF TokenAt
          <5>2. cur[t] = h
            BY <2>1, <5>1, ConstantsAssumption DEF InService, Running
          <5> QED BY <2>2, <3>7, <5>2 DEF Works
        <4>2. ~InGlobalQueue(x) /\ \A u \in Thread : ~Starts(u, x) /\ (Works(u, x) => u = t)
          BY <3>2, <4>1 DEF TokenAt, OneToken
        <4>3. Locked(x)'
          BY <3>3, <3>4, <3>5, <4>1, <4>2 DEF Locked
        <4>4. inGlobal'[x] \notin {0, MQ_LOCKED}
          BY <2>1, <3>7 DEF QueueType, MQ_DISPATCHING, MQ_LOCKED
        <4>5. OneToken(x)'
          BY <3>2, <3>4, <3>5 DEF TokenAt, OneToken
        <4>6. \A u \in Thread : ~(lau'[u].st = "init" /\ lau'[u].h = x)
          BY <3>3, <4>2 DEF Starts
        <4> QED BY <4>3, <4>4, <4>5, <4>6 DEF TokenAt
      <3> QED BY <3>6, <3>7
    <2> QED BY <1>0, <2>4, <2>5 DEF Tokens
  <1>28. ASSUME NEW t \in Thread, Launch(t) PROVE TokenInv'
    <2>1. PICK h \in Handle, n \in Handle : Launch(t)!(h,n)
      BY <1>28 DEF Launch
    <2>2. pc[t] = "cb" /\ Quiet(t) /\ lau[t].st \in {"none", "init"}
      BY <2>1, Serving
    <2>3. \A u \in Thread \ {t} : SameThread(u)
      BY <2>1 DEF ThreadType, SameThread
    <2>4. ASSUME NEW y \in Handle, ctx'[y] = "none" PROVE lockSession'[y] = 0
      BY <2>1, <2>4, <2>2 DEF Tokens, ContextType, QueueType
    <2>5. ASSUME NEW x \in Handle, ref'[x] > 0 PROVE TokenAt(x)'
      <3>1. UNCHANGED <<inited, gq, pc, cur, lockSession>> /\ lau'[t] = Stage("init", n)
        BY <2>1 DEF ThreadType
      <3>2. (InGlobalQueue(x)' => InGlobalQueue(x)) /\ (Single(x) => Single(x)')
        BY <3>1 DEF InGlobalQueue, Single
      <3>3. Works(t, x)' = Works(t, x) /\ pc'[t] = pc[t]
        BY <3>1 DEF Works
      <3>4. CASE x # n
        <4>1. TokenAt(x)
          <5>1. ref[x] > 0
            BY <2>1, <2>5, <3>4 DEF ContextType
          <5> QED BY <5>1 DEF Tokens
        <4>2. inGlobal'[x] = inGlobal[x]
          BY <2>1, <3>4 DEF QueueType
        <4>3. ~Starts(t, x)' /\ ~(lau'[t].st = "init" /\ lau'[t].h = x)
          BY <3>1, <3>4 DEF Starts, Stage
        <4> QED BY <2>3, <3>1, <3>2, <3>3, <4>1, <4>2, <4>3, KeepToken
      <3>5. CASE x = n
        <4>1. Unused(x) /\ lockSession[x] = 0
          BY <2>1, <3>5 DEF Fresh, Tokens
        <4>2. \A u \in Thread : ~Works(u, x) /\ ~Starts(u, x)
          BY <4>1 DEF Unused, Involves, Works, Starts
        <4>3. \A u \in Thread : ~Works(u, x)' /\ (Starts(u, x)' => u = t)
          BY <2>3, <3>3, <4>2 DEF SameThread, Works, Starts
        <4>4. ~InGlobalQueue(x)' /\ x \notin inited'
          BY <3>1, <3>2, <4>1 DEF Unused
        <4>5. Single(x)'
          BY <4>4 DEF InGlobalQueue, Single
        <4>6. OneToken(x)'
          BY <4>3, <4>4, <4>5 DEF OneToken
        <4>7. inGlobal'[x] \notin {0, MQ_LOCKED}
          BY <2>1, <3>5 DEF QueueType, MQ_IN_GLOBAL, MQ_LOCKED
        <4> QED BY <3>1, <4>1, <4>4, <4>6, <4>7 DEF TokenAt
      <3> QED BY <3>4, <3>5
    <2> QED BY <1>0, <2>4, <2>5 DEF Tokens
  <1>29. ASSUME NEW t \in Thread, TimerFire(t) PROVE TokenInv'
    <2>1. PICK n \in timers : TimerFire(t)!(n)
      BY <1>29 DEF TimerFire
    <2>2. \A u \in Thread \ {t} : SameThread(u)
      BY <2>1 DEF ThreadType, SameThread
    <2>3. ASSUME NEW y \in Handle, ctx'[y] = "none" PROVE lockSession'[y] = 0
      BY <2>1, <2>3 DEF Tokens, ContextType, QueueType
    <2>4. ASSUME NEW x \in Handle, ref'[x] > 0 PROVE TokenAt(x)'
      <3>1. ref[x] > 0
        BY <2>1, <2>4, HeldPositive DEF ContextType
      <3>2. (InGlobalQueue(x)' => InGlobalQueue(x)) /\ (Single(x) => Single(x)')
        BY <2>1 DEF InGlobalQueue, Single
      <3>3. TokenAt(x)
        BY <3>1 DEF Tokens
      <3>4. /\ Works(t, x)' => Works(t, x)
            /\ Works(t, x)' /\ pc[t] \in {"cb", "done", "pushglobal"} => pc'[t] \in {"cb", "done", "pushglobal"}
            /\ Starts(t, x)' => Starts(t, x)
            /\ lau'[t].st = "init" /\ lau'[t].h = x => lau[t].st = "init" /\ lau[t].h = x
        BY <2>1 DEF Works, Starts, Stage, NoLaunch, ThreadType
      <3>5. inited' = inited /\ inGlobal'[x] = inGlobal[x] /\ lockSession'[x] = lockSession[x]
        BY <2>1
      <3> QED BY <2>2, <3>2, <3>3, <3>4, <3>5, KeepToken
    <2> QED BY <1>0, <2>3, <2>4 DEF Tokens
  <1>30. ASSUME NEW t \in Thread, MonitorCheck(t) PROVE TokenInv'
    <2>1. PICK w \in Worker : MonitorCheck(t)!(w)
      BY <1>30 DEF MonitorCheck
    <2>2. \A u \in Thread \ {t} : SameThread(u)
      BY <2>1 DEF ThreadType, SameThread
    <2>3. ASSUME NEW y \in Handle, ctx'[y] = "none" PROVE lockSession'[y] = 0
      BY <2>1, <2>3 DEF Tokens, ContextType, QueueType
    <2>4. ASSUME NEW x \in Handle, ref'[x] > 0 PROVE TokenAt(x)'
      <3>1. ref[x] > 0
        BY <2>1, <2>4, HeldPositive DEF ContextType
      <3>2. (InGlobalQueue(x)' => InGlobalQueue(x)) /\ (Single(x) => Single(x)')
        BY <2>1 DEF InGlobalQueue, Single
      <3>3. TokenAt(x)
        BY <3>1 DEF Tokens
      <3>4. /\ Works(t, x)' => Works(t, x)
            /\ Works(t, x)' /\ pc[t] \in {"cb", "done", "pushglobal"} => pc'[t] \in {"cb", "done", "pushglobal"}
            /\ Starts(t, x)' => Starts(t, x)
            /\ lau'[t].st = "init" /\ lau'[t].h = x => lau[t].st = "init" /\ lau[t].h = x
        BY <2>1 DEF Works, Starts, Stage, NoLaunch, ThreadType
      <3>5. inited' = inited /\ inGlobal'[x] = inGlobal[x] /\ lockSession'[x] = lockSession[x]
        BY <2>1
      <3> QED BY <2>2, <3>2, <3>3, <3>4, <3>5, KeepToken
    <2> QED BY <1>0, <2>3, <2>4 DEF Tokens
  <1>31. ASSUME NEW t \in Thread, UseFreedQueue(t) PROVE TokenInv'
    <2>1. \A u \in Thread \ {t} : SameThread(u)
      BY <1>31 DEF UseFreedQueue, ThreadType, SameThread
    <2>2. ASSUME NEW y \in Handle, ctx'[y] = "none" PROVE lockSession'[y] = 0
      BY <1>31, <2>2 DEF UseFreedQueue, Tokens, ContextType, QueueType
    <2>3. ASSUME NEW x \in Handle, ref'[x] > 0 PROVE TokenAt(x)'
      <3>1. ref[x] > 0
        BY <1>31, <2>3, HeldPositive DEF UseFreedQueue, ContextType
      <3>2. (InGlobalQueue(x)' => InGlobalQueue(x)) /\ (Single(x) => Single(x)')
        BY <1>31 DEF UseFreedQueue, InGlobalQueue, Single
      <3>3. TokenAt(x)
        BY <3>1 DEF Tokens
      <3>4. /\ Works(t, x)' => Works(t, x)
            /\ Works(t, x)' /\ pc[t] \in {"cb", "done", "pushglobal"} => pc'[t] \in {"cb", "done", "pushglobal"}
            /\ Starts(t, x)' => Starts(t, x)
            /\ lau'[t].st = "init" /\ lau'[t].h = x => lau[t].st = "init" /\ lau[t].h = x
        BY <1>31 DEF UseFreedQueue, Works, Starts, Stage, NoLaunch, ThreadType
      <3>5. inited' = inited /\ inGlobal'[x] = inGlobal[x] /\ lockSession'[x] = lockSession[x]
        BY <1>31 DEF UseFreedQueue
      <3> QED BY <2>1, <3>2, <3>3, <3>4, <3>5, KeepToken
    <2> QED BY <1>0, <2>2, <2>3 DEF Tokens
  <1>32. ASSUME NEW t \in Thread, UseFreedContext(t) PROVE TokenInv'
    <2>1. \A u \in Thread \ {t} : SameThread(u)
      BY <1>32 DEF UseFreedContext, ThreadType, SameThread
    <2>2. ASSUME NEW y \in Handle, ctx'[y] = "none" PROVE lockSession'[y] = 0
      BY <1>32, <2>2 DEF UseFreedContext, Tokens, ContextType, QueueType
    <2>3. ASSUME NEW x \in Handle, ref'[x] > 0 PROVE TokenAt(x)'
      <3>1. ref[x] > 0
        BY <1>32, <2>3, HeldPositive DEF UseFreedContext, ContextType
      <3>2. (InGlobalQueue(x)' => InGlobalQueue(x)) /\ (Single(x) => Single(x)')
        BY <1>32 DEF UseFreedContext, InGlobalQueue, Single
      <3>3. TokenAt(x)
        BY <3>1 DEF Tokens
      <3>4. /\ Works(t, x)' => Works(t, x)
            /\ Works(t, x)' /\ pc[t] \in {"cb", "done", "pushglobal"} => pc'[t] \in {"cb", "done", "pushglobal"}
            /\ Starts(t, x)' => Starts(t, x)
            /\ lau'[t].st = "init" /\ lau'[t].h = x => lau[t].st = "init" /\ lau[t].h = x
        BY <1>32 DEF UseFreedContext, Works, Starts, Stage, NoLaunch, ThreadType
      <3>5. inited' = inited /\ inGlobal'[x] = inGlobal[x] /\ lockSession'[x] = lockSession[x]
        BY <1>32 DEF UseFreedContext
      <3> QED BY <2>1, <3>2, <3>3, <3>4, <3>5, KeepToken
    <2> QED BY <1>0, <2>2, <2>3 DEF Tokens
  <1>33. ASSUME NEW t \in Thread, AssertForcePush(t) PROVE TokenInv'
    <2>1. \A u \in Thread \ {t} : SameThread(u)
      BY <1>33 DEF AssertForcePush, ThreadType, SameThread
    <2>2. ASSUME NEW y \in Handle, ctx'[y] = "none" PROVE lockSession'[y] = 0
      BY <1>33, <2>2 DEF AssertForcePush, Tokens, ContextType, QueueType
    <2>3. ASSUME NEW x \in Handle, ref'[x] > 0 PROVE TokenAt(x)'
      <3>1. ref[x] > 0
        BY <1>33, <2>3, HeldPositive DEF AssertForcePush, ContextType
      <3>2. (InGlobalQueue(x)' => InGlobalQueue(x)) /\ (Single(x) => Single(x)')
        BY <1>33 DEF AssertForcePush, InGlobalQueue, Single
      <3>3. TokenAt(x)
        BY <3>1 DEF Tokens
      <3>4. /\ Works(t, x)' => Works(t, x)
            /\ Works(t, x)' /\ pc[t] \in {"cb", "done", "pushglobal"} => pc'[t] \in {"cb", "done", "pushglobal"}
            /\ Starts(t, x)' => Starts(t, x)
            /\ lau'[t].st = "init" /\ lau'[t].h = x => lau[t].st = "init" /\ lau[t].h = x
        BY <1>33 DEF AssertForcePush, Works, Starts, Stage, NoLaunch, ThreadType
      <3>5. inited' = inited /\ inGlobal'[x] = inGlobal[x] /\ lockSession'[x] = lockSession[x]
        BY <1>33 DEF AssertForcePush
      <3> QED BY <2>1, <3>2, <3>3, <3>4, <3>5, KeepToken
    <2> QED BY <1>0, <2>2, <2>3 DEF Tokens
  <1>34. ASSUME NEW t \in Thread, AssertLock(t) PROVE TokenInv'
    <2>1. \A u \in Thread \ {t} : SameThread(u)
      BY <1>34 DEF AssertLock, ThreadType, SameThread
    <2>2. ASSUME NEW y \in Handle, ctx'[y] = "none" PROVE lockSession'[y] = 0
      BY <1>34, <2>2 DEF AssertLock, Tokens, ContextType, QueueType
    <2>3. ASSUME NEW x \in Handle, ref'[x] > 0 PROVE TokenAt(x)'
      <3>1. ref[x] > 0
        BY <1>34, <2>3, HeldPositive DEF AssertLock, ContextType
      <3>2. (InGlobalQueue(x)' => InGlobalQueue(x)) /\ (Single(x) => Single(x)')
        BY <1>34 DEF AssertLock, InGlobalQueue, Single
      <3>3. TokenAt(x)
        BY <3>1 DEF Tokens
      <3>4. /\ Works(t, x)' => Works(t, x)
            /\ Works(t, x)' /\ pc[t] \in {"cb", "done", "pushglobal"} => pc'[t] \in {"cb", "done", "pushglobal"}
            /\ Starts(t, x)' => Starts(t, x)
            /\ lau'[t].st = "init" /\ lau'[t].h = x => lau[t].st = "init" /\ lau[t].h = x
        BY <1>34 DEF AssertLock, Works, Starts, Stage, NoLaunch, ThreadType
      <3>5. inited' = inited /\ inGlobal'[x] = inGlobal[x] /\ lockSession'[x] = lockSession[x]
        BY <1>34 DEF AssertLock
      <3> QED BY <2>1, <3>2, <3>3, <3>4, <3>5, KeepToken
    <2> QED BY <1>0, <2>2, <2>3 DEF Tokens
  <1>35. CASE UNCHANGED vars
    BY <1>0, <1>35 DEF Tokens, TokenAt, OneToken, Single, NoToken, Locked, Works, Starts, InGlobalQueue
  <1> QED BY <1>1, <1>2, <1>3, <1>4, <1>5, <1>6, <1>7, <1>8, <1>9, <1>10, <1>11,
     <1>12, <1>13, <1>14, <1>15, <1>16, <1>17, <1>18, <1>19, <1>20, <1>21, <1>22,
     <1>23, <1>24, <1>25, <1>26, <1>27, <1>28, <1>29, <1>30, <1>31, <1>32, <1>33,
     <1>34, <1>35 DEF Next, Progress, Operation, Crash

-----------------------------------------------------------------------------
(* Two threads never run the code of one service.                          *)
THEOREM OneAtATime == Spec => []MutualExclusion
  <1>1. ASSUME TokenInv PROVE MutualExclusion
    <2> SUFFICES ASSUME NEW h \in Handle, NEW t \in Thread, NEW u \in Thread,
                        InCode(t, h), InCode(u, h)
                 PROVE  t = u
      BY DEF MutualExclusion
    <2>1. ref[h] > 0
      BY <1>1, HeldPositive DEF TokenInv, RefInv, InCode
    <2>2. OneToken(h)
      BY <1>1, <2>1 DEF TokenInv, Tokens, TokenAt
    <2>3. (Works(t, h) \/ Starts(t, h)) /\ (Works(u, h) \/ Starts(u, h))
      BY DEF InCode, Works, Starts
    <2> QED BY <2>2, <2>3 DEF OneToken
  <1> QED BY InitToken, StepToken, <1>1, PTL DEF Spec

(* While a service waits in a blockcall no worker takes up its queue.      *)
LEMMA LockedIsLeft == TokenInv => LockedNotDispatched
  BY DEF TokenInv, Tokens, TokenAt, Locked, Works, LockedNotDispatched

-----------------------------------------------------------------------------
(* No message is left in a queue that nobody will look at.                 *)

(* The queue of h is scheduled if it has a token.                          *)
LEMMA ScheduledTokens ==
    ASSUME NEW x \in Handle
    PROVE  Scheduled(x) <=> InGlobalQueue(x) \/ \E u \in Thread : Works(u, x) \/ Starts(u, x)
  BY DEF Scheduled, InGlobalQueue, Works, Starts

(* A step of thread t that takes no token away.                            *)
LEMMA KeepScheduled ==
    ASSUME NEW x \in Handle, NEW t \in Thread, \A u \in Thread \ {t} : SameThread(u),
           InGlobalQueue(x) => InGlobalQueue(x)',
           Works(t, x) => Works(t, x)' \/ InGlobalQueue(x)',
           Starts(t, x) => Starts(t, x)' \/ InGlobalQueue(x)',
           Scheduled(x)
    PROVE  Scheduled(x)'
  <1>1. \A u \in Thread \ {t} : (Works(u, x) => Works(u, x)') /\ (Starts(u, x) => Starts(u, x)')
    BY DEF SameThread, Works, Starts
  <1>2. InGlobalQueue(x)' \/ \E u \in Thread : Works(u, x)' \/ Starts(u, x)'
    BY <1>1, ScheduledTokens
  <1> QED BY <1>2 DEF Scheduled, InGlobalQueue, Works, Starts

(* A step that leaves the queue of x alone.                                *)
LEMMA KeepWake ==
    ASSUME NEW x \in Handle, WakeAt(x),
           queue'[x] = queue[x], inGlobal'[x] = inGlobal[x], lockSession'[x] = lockSession[x],
           qfreed' = qfreed, ctx'[x] = "none" <=> ctx[x] = "none", ref[x] = 0 => ref'[x] = 0,
           Scheduled(x) => Scheduled(x)'
    PROVE  WakeAt(x)'
  BY DEF WakeAt, FlagsAgree

(* skynet_globalmq_pop takes away the head only.                           *)
LEMMA PopKeepsRest ==
    ASSUME gq \in Seq(Handle), gq # <<>>, gq' = Tail(gq), NEW x \in Handle, x # Head(gq),
           InGlobalQueue(x)
    PROVE  InGlobalQueue(x)'
  <1>1. PICK i \in 1 .. Len(gq) : gq[i] = x
    BY DEF InGlobalQueue
  <1>2. Len(gq) \in Nat /\ Len(gq) > 0 /\ Len(gq') = Len(gq) - 1 /\ gq[1] = Head(gq)
    OBVIOUS
  <1>3. i # 1 /\ i - 1 \in 1 .. Len(gq')
    BY <1>1, <1>2
  <1>4. gq'[i - 1] = gq[i]
    BY <1>2, <1>3
  <1> QED BY <1>1, <1>3, <1>4 DEF InGlobalQueue

-----------------------------------------------------------------------------
(* The initial states.                                                     *)
LEMMA InitWake == Init => SchedulerInv
  <1> SUFFICES ASSUME Init PROVE SchedulerInv OBVIOUS
  <1>1. ASSUME NEW h \in Handle PROVE WakeAt(h)
    <2>1. CASE h \in Boot
      <3>1. \E i \in 1 .. Len(gq) : gq[i] = h
        <4>1. Cardinality(Boot) \in Nat
          BY FS_CardinalityType, ConstantsAssumption
        <4>2. gq \in [1 .. Cardinality(Boot) -> Boot] /\ Len(gq) = Cardinality(Boot)
              /\ \A i, j \in 1 .. Cardinality(Boot) : gq[i] = gq[j] => i = j
          BY <4>1 DEF Init
        <4>3. IsFiniteSet(1 .. Cardinality(Boot)) /\ Cardinality(1 .. Cardinality(Boot)) = Cardinality(Boot)
          BY <4>1, FS_Interval
        <4>4. gq \in Injection(1 .. Cardinality(Boot), Boot)
          BY <4>2 DEF Injection, IsInjective
        <4>5. gq \in Surjection(1 .. Cardinality(Boot), Boot)
          BY <4>3, <4>4, ConstantsAssumption, FS_Injection
        <4> QED BY <2>1, <4>2, <4>5 DEF Surjection
      <3>2. Scheduled(h)
        BY <3>1 DEF Scheduled
      <3>3. ctx[h] = "live" /\ inGlobal[h] = 1 /\ lockSession[h] = 0 /\ qfreed = {}
        BY <2>1 DEF Init, MQ_IN_GLOBAL
      <3> QED BY <3>2, <3>3 DEF WakeAt, FlagsAgree, MQ_LOCKED
    <2>2. CASE h \notin Boot
      BY <2>2, ConstantsAssumption DEF Init, WakeAt, FlagsAgree, MQ_IN_GLOBAL, MQ_DISPATCHING, MQ_LOCKED
    <2> QED BY <2>1, <2>2
  <1> QED BY InitToken, <1>1 DEF SchedulerInv, Wakeups

(* Every step keeps the queues that hold messages scheduled.               *)
LEMMA StepWake == SchedulerInv /\ [Next]_vars => SchedulerInv'
  <1> SUFFICES ASSUME SchedulerInv, [Next]_vars PROVE SchedulerInv'
    OBVIOUS
  <1>0. TokenInv'
    BY StepToken DEF SchedulerInv
  <1> USE DEF SchedulerInv, TokenInv, RefInv, TypeInv, TypeOK, vars, ctxVars, mqVars, threadVars
  <1>1. ASSUME NEW t \in Thread, GlobalPop(t) PROVE SchedulerInv'
    <2>1. \A u \in Thread \ {t} : SameThread(u)
      BY <1>1 DEF GlobalPop, ThreadType, SameThread
    <2>2. ASSUME NEW x \in Handle PROVE WakeAt(x)'
      <3>1. UNCHANGED <<queue, inGlobal, lockSession, qfreed, ctx, ref, lau>>
        BY <1>1 DEF GlobalPop
      <3>2. gq \in Seq(Handle) /\ gq # <<>> /\ gq' = Tail(gq) /\ pc[t] = "idle"
        BY <1>1 DEF GlobalPop, QueueType
      <3>3. pc'[t] = "grab" /\ cur'[t] = Head(gq)
        BY <1>1 DEF GlobalPop, ThreadType
      <3>4. CASE x = Head(gq)
        <4>1. Works(t, x)'
          BY <3>3, <3>4 DEF Works
        <4>2. Scheduled(x)'
          BY <4>1 DEF Scheduled, Works
        <4> QED BY <3>1, <4>2, KeepWake DEF Wakeups
      <3>5. CASE x # Head(gq)
        <4>1. InGlobalQueue(x) => InGlobalQueue(x)'
          BY <3>2, <3>5, PopKeepsRest
        <4>2. ~Works(t, x) /\ (Starts(t, x) => Starts(t, x)')
          BY <3>1, <3>2 DEF Works, Starts
        <4>3. Scheduled(x) => Scheduled(x)'
          BY <2>1, <4>1, <4>2, KeepScheduled
        <4> QED BY <3>1, <4>3, KeepWake DEF Wakeups
      <3> QED BY <3>4, <3>5
    <2> QED BY <1>0, <2>2 DEF Wakeups
  <1>2. ASSUME NEW t \in Thread, Grab(t) PROVE SchedulerInv'
    <2>1. \A u \in Thread \ {t} : SameThread(u)
      BY <1>2 DEF Grab, ThreadType, SameThread
    <2>2. ASSUME NEW x \in Handle PROVE WakeAt(x)'
      <3>1. UNCHANGED <<queue, inGlobal, lockSession, qfreed>>
        BY <1>2 DEF Grab
      <3>3. (ctx'[x] = "none" <=> ctx[x] = "none") /\ (ref[x] = 0 => ref'[x] = 0)
        BY <1>2, HeldPositive DEF Grab, ContextType
      <3>4. InGlobalQueue(x) => InGlobalQueue(x)'
        BY <1>2 DEF Grab, InGlobalQueue
      <3>5. (Works(t, x) => Works(t, x)') /\ (Starts(t, x) => Starts(t, x)')
        BY <1>2 DEF Grab, Works, Starts, Stage, ThreadType
      <3>6. Scheduled(x) => Scheduled(x)'
        BY <2>1, <3>4, <3>5, KeepScheduled
      <3> QED BY <3>1, <3>3, <3>6, KeepWake DEF Wakeups
    <2> QED BY <1>0, <2>2 DEF Wakeups
  <1>3. ASSUME NEW t \in Thread, DropQueue(t) PROVE SchedulerInv'
    <2>1. cur[t] \in Handle
      BY <1>3 DEF DropQueue, Shape, ThreadShape
    <2>2. \A u \in Thread \ {t} : SameThread(u)
      BY <1>3 DEF DropQueue, ThreadType, SameThread
    <2>3. ASSUME NEW x \in Handle PROVE WakeAt(x)'
      <3>1. MqRelease(cur[t]) /\ cur[t] \notin qfreed /\ UNCHANGED <<ctx, ref>>
            /\ (release[cur[t]] \/ inGlobal[cur[t]] # 0)
        BY <1>3 DEF DropQueue
      <3>2. ctx[cur[t]] # "none"
        BY <1>3, <2>1 DEF DropQueue, Fresh, Unused, Involves
      <3>3. CASE release[cur[t]]
        <4>1. ref[cur[t]] = 0
          BY <2>1, <3>3 DEF Deletion, DeletedOnce
        <4>2. /\ queue' = [queue EXCEPT ![cur[t]] = <<>>] /\ inGlobal' = [inGlobal EXCEPT ![cur[t]] = 0]
              /\ qfreed' = qfreed \cup {cur[t]} /\ gq' = gq /\ lockSession' = lockSession
          BY <3>1, <3>3 DEF MqRelease
        <4>3. CASE x = cur[t]
          BY <3>1, <3>2, <4>1, <4>2, <4>3 DEF WakeAt, QueueType
        <4>4. CASE x # cur[t]
          <5>1. InGlobalQueue(x) => InGlobalQueue(x)'
            BY <4>2 DEF InGlobalQueue
          <5>2. (Works(t, x) => Works(t, x)') /\ (Starts(t, x) => Starts(t, x)')
            BY <1>3, <4>4 DEF DropQueue, Works, Starts, ThreadType
          <5>3. Scheduled(x) => Scheduled(x)'
            BY <2>2, <5>1, <5>2, KeepScheduled
          <5>4. queue'[x] = queue[x] /\ inGlobal'[x] = inGlobal[x] /\ (x \in qfreed' <=> x \in qfreed)
            BY <4>2, <4>4 DEF QueueType
          <5> QED BY <3>1, <4>2, <5>3, <5>4 DEF Wakeups, WakeAt, FlagsAgree
        <4> QED BY <4>3, <4>4
      <3>4. CASE ~release[cur[t]]
        <4>1. GlobalPush(cur[t]) /\ UNCHANGED <<queue, inGlobal, lockSession, qfreed>> /\ gq \in Seq(Handle)
          BY <3>1, <3>4 DEF MqRelease, QueueType
        <4>2. InGlobalQueue(x) \/ x = cur[t] => InGlobalQueue(x)'
          BY <2>1, <4>1, GlobalPushEffect
        <4>3. x # cur[t] => (Works(t, x) => Works(t, x)') /\ (Starts(t, x) => Starts(t, x)')
          BY <1>3 DEF DropQueue, Works, Starts, ThreadType
        <4>4. Scheduled(x) => Scheduled(x)'
          BY <2>2, <4>2, <4>3, KeepScheduled
        <4> QED BY <3>1, <4>1, <4>4, KeepWake DEF Wakeups
      <3> QED BY <3>3, <3>4
    <2> QED BY <1>0, <2>3 DEF Wakeups
  <1>4. ASSUME NEW t \in Thread, PopEmpty(t) PROVE SchedulerInv'
    <2>1. \A u \in Thread \ {t} : SameThread(u)
      BY <1>4 DEF PopEmpty, ThreadType, SameThread
    <2>2. ASSUME NEW x \in Handle PROVE WakeAt(x)'
      <3>1. UNCHANGED <<queue, lockSession, qfreed, gq, ctx, ref, lau>> /\ queue[cur[t]] = <<>>
            /\ cur[t] \notin qfreed /\ inGlobal' = [inGlobal EXCEPT ![cur[t]] = 0]
        BY <1>4 DEF PopEmpty
      <3>2. CASE x # cur[t]
        <4>1. (InGlobalQueue(x) => InGlobalQueue(x)') /\ ~Works(t, x) /\ (Starts(t, x) => Starts(t, x)')
          BY <3>1, <3>2 DEF InGlobalQueue, Works, Starts
        <4>2. Scheduled(x) => Scheduled(x)'
          BY <2>1, <4>1, KeepScheduled
        <4>3. inGlobal'[x] = inGlobal[x]
          BY <3>1, <3>2 DEF QueueType
        <4> QED BY <3>1, <4>2, <4>3, KeepWake DEF Wakeups
      <3>3. CASE x = cur[t]
        <4>1. ref[x] > 0 /\ ctx[x] # "none"
          BY <1>4, <3>3, HeldPositive DEF PopEmpty, Fresh, Unused, Involves
        <4>2. lockSession[x] = 0
          BY <1>4, <3>3, <4>1 DEF PopEmpty, Tokens, TokenAt, Locked, Works
        <4>3. inGlobal'[x] = 0
          BY <3>1, <3>3 DEF QueueType
        <4> QED
          BY <3>1, <3>3, <4>1, <4>2, <4>3 DEF WakeAt, FlagsAgree, MQ_IN_GLOBAL, MQ_DISPATCHING, MQ_LOCKED
      <3> QED BY <3>2, <3>3
    <2> QED BY <1>0, <2>2 DEF Wakeups
  <1>5. ASSUME NEW t \in Thread, PopMessage(t) PROVE SchedulerInv'
    <2>1. \A u \in Thread \ {t} : SameThread(u)
      BY <1>5 DEF PopMessage, ThreadType, SameThread
    <2>2. ASSUME NEW x \in Handle PROVE WakeAt(x)'
      <3>1. UNCHANGED <<inGlobal, lockSession, qfreed, gq, ctx, ref, lau, cur>> /\ queue[cur[t]] # <<>>
            /\ cur[t] \notin qfreed /\ queue' = [queue EXCEPT ![cur[t]] = Tail(@)]
        BY <1>5 DEF PopMessage
      <3>2. /\ InGlobalQueue(x) => InGlobalQueue(x)'
            /\ Works(t, x) => Works(t, x)'
            /\ Starts(t, x) => Starts(t, x)'
        BY <1>5, <3>1 DEF PopMessage, InGlobalQueue, Works, Starts, ThreadType
      <3>3. Scheduled(x) => Scheduled(x)'
        BY <2>1, <3>2, KeepScheduled
      <3>4. CASE x # cur[t]
        <4>1. queue'[x] = queue[x]
          BY <3>1, <3>4 DEF QueueType
        <4> QED BY <3>1, <3>3, <4>1, KeepWake DEF Wakeups
      <3>5. CASE x = cur[t]
        <4>1. ctx[x] # "none" /\ inGlobal[x] # 0
          BY <3>1, <3>5 DEF Wakeups, WakeAt, FlagsAgree
        <4> QED BY <3>1, <3>3, <3>5, <4>1 DEF Wakeups, WakeAt, FlagsAgree
      <3> QED BY <3>4, <3>5
    <2> QED BY <1>0, <2>2 DEF Wakeups
  <1>6. ASSUME NEW t \in Thread, CallbackEnd(t) PROVE SchedulerInv'
    <2>1. \A u \in Thread \ {t} : SameThread(u)
      BY <1>6 DEF CallbackEnd, ThreadType, SameThread
    <2>2. ASSUME NEW x \in Handle PROVE WakeAt(x)'
      <3>1. UNCHANGED <<queue, inGlobal, lockSession, qfreed>>
        BY <1>6 DEF CallbackEnd
      <3>3. (ctx'[x] = "none" <=> ctx[x] = "none") /\ (ref[x] = 0 => ref'[x] = 0)
        BY <1>6, HeldPositive DEF CallbackEnd, ContextType
      <3>4. InGlobalQueue(x) => InGlobalQueue(x)'
        BY <1>6 DEF CallbackEnd, InGlobalQueue
      <3>5. (Works(t, x) => Works(t, x)') /\ (Starts(t, x) => Starts(t, x)')
        BY <1>6 DEF CallbackEnd, Works, Starts, Stage, ThreadType
      <3>6. Scheduled(x) => Scheduled(x)'
        BY <2>1, <3>4, <3>5, KeepScheduled
      <3> QED BY <3>1, <3>3, <3>6, KeepWake DEF Wakeups
    <2> QED BY <1>0, <2>2 DEF Wakeups
  <1>7. ASSUME NEW t \in Thread, DispatchRelease(t) PROVE SchedulerInv'
    <2>1. \A u \in Thread \ {t} : SameThread(u)
      BY <1>7 DEF DispatchRelease, ThreadType, SameThread
    <2>2. ASSUME NEW x \in Handle PROVE WakeAt(x)'
      <3>1. UNCHANGED <<queue, inGlobal, lockSession, qfreed>>
        BY <1>7 DEF DispatchRelease
      <3>3. (ctx'[x] = "none" <=> ctx[x] = "none") /\ (ref[x] = 0 => ref'[x] = 0)
        BY <1>7, HeldPositive DEF DispatchRelease, ContextType
      <3>4. InGlobalQueue(x) => InGlobalQueue(x)'
        BY <1>7 DEF DispatchRelease, InGlobalQueue
      <3>5. (Works(t, x) => Works(t, x)') /\ (Starts(t, x) => Starts(t, x)')
        BY <1>7 DEF DispatchRelease, Works, Starts, Stage, ThreadType
      <3>6. Scheduled(x) => Scheduled(x)'
        BY <2>1, <3>4, <3>5, KeepScheduled
      <3> QED BY <3>1, <3>3, <3>6, KeepWake DEF Wakeups
    <2> QED BY <1>0, <2>2 DEF Wakeups
  <1>8. ASSUME NEW t \in Thread, PushGlobal(t) PROVE SchedulerInv'
    <2>1. cur[t] \in Handle
      BY <1>8 DEF PushGlobal, Shape, ThreadShape
    <2>2. \A u \in Thread \ {t} : SameThread(u)
      BY <1>8 DEF PushGlobal, ThreadType, SameThread
    <2>3. ASSUME NEW x \in Handle PROVE WakeAt(x)'
      <3>1. UNCHANGED <<queue, lockSession, qfreed, ctx, ref, lau>> /\ cur[t] \notin qfreed
            /\ MqPushGlobal(cur[t]) /\ gq \in Seq(Handle)
        BY <1>8 DEF PushGlobal, MqPushGlobal, QueueType
      <3>2. CASE x # cur[t]
        <4>1. gq' = gq \/ GlobalPush(cur[t])
          BY <3>1 DEF MqPushGlobal
        <4>2. (InGlobalQueue(x) => InGlobalQueue(x)') /\ ~Works(t, x) /\ (Starts(t, x) => Starts(t, x)')
          <5>1. ~Works(t, x) /\ (Starts(t, x) => Starts(t, x)')
            BY <3>1, <3>2 DEF Works, Starts
          <5>2. CASE gq' = gq
            BY <5>1, <5>2 DEF InGlobalQueue
          <5>3. CASE GlobalPush(cur[t])
            BY <2>1, <3>1, <5>1, <5>3, GlobalPushEffect
          <5> QED BY <4>1, <5>2, <5>3
        <4>3. Scheduled(x) => Scheduled(x)'
          BY <2>2, <4>2, KeepScheduled
        <4>4. inGlobal'[x] = inGlobal[x]
          BY <2>1, <3>1, <3>2 DEF MqPushGlobal, QueueType
        <4> QED BY <3>1, <4>3, <4>4, KeepWake DEF Wakeups
      <3>3. CASE x = cur[t] /\ lockSession[x] = 0
        <4>1. GlobalPush(x) /\ inGlobal'[x] = MQ_IN_GLOBAL
          BY <3>1, <3>3 DEF MqPushGlobal, QueueType
        <4>2. Scheduled(x)'
          BY <2>1, <3>1, <3>3, <4>1, GlobalPushEffect DEF Scheduled, InGlobalQueue
        <4> QED
          BY <2>1, <1>8, <3>1, <3>3, <4>1, <4>2 DEF PushGlobal, Fresh, Unused, Involves, WakeAt, FlagsAgree,
             MQ_IN_GLOBAL, MQ_DISPATCHING, MQ_LOCKED
      <3>4. CASE x = cur[t] /\ lockSession[x] # 0
        <4>1. inGlobal[x] \in {MQ_DISPATCHING, MQ_LOCKED}
          BY <3>1, <3>4 DEF Wakeups, WakeAt, FlagsAgree
        <4>2. inGlobal'[x] = MQ_LOCKED
          BY <3>1, <3>4, <4>1 DEF MqPushGlobal, QueueType
        <4> QED
          BY <2>1, <1>8, <3>1, <3>4, <4>2 DEF PushGlobal, Fresh, Unused, Involves, WakeAt, FlagsAgree,
             MQ_IN_GLOBAL, MQ_DISPATCHING, MQ_LOCKED
      <3> QED BY <3>2, <3>3, <3>4
    <2> QED BY <1>0, <2>3 DEF Wakeups
  <1>9. ASSUME NEW t \in Thread, SendGrab(t) PROVE SchedulerInv'
    <2>1. \A u \in Thread \ {t} : SameThread(u)
      BY <1>9 DEF SendGrab, ThreadType, SameThread
    <2>2. ASSUME NEW x \in Handle PROVE WakeAt(x)'
      <3>1. UNCHANGED <<queue, inGlobal, lockSession, qfreed>>
        BY <1>9 DEF SendGrab
      <3>3. (ctx'[x] = "none" <=> ctx[x] = "none") /\ (ref[x] = 0 => ref'[x] = 0)
        BY <1>9, HeldPositive DEF SendGrab, ContextType
      <3>4. InGlobalQueue(x) => InGlobalQueue(x)'
        BY <1>9 DEF SendGrab, InGlobalQueue
      <3>5. (Works(t, x) => Works(t, x)') /\ (Starts(t, x) => Starts(t, x)')
        BY <1>9 DEF SendGrab, Works, Starts, Stage, ThreadType
      <3>6. Scheduled(x) => Scheduled(x)'
        BY <2>1, <3>4, <3>5, KeepScheduled
      <3> QED BY <3>1, <3>3, <3>6, KeepWake DEF Wakeups
    <2> QED BY <1>0, <2>2 DEF Wakeups
  <1>10. ASSUME NEW t \in Thread, SendPush(t) PROVE SchedulerInv'
    <2>1. snd[t].des \in Handle /\ snd[t].m \in Message
      BY <1>10 DEF SendPush, Shape, ThreadShape
    <2>2. \A u \in Thread \ {t} : SameThread(u)
      BY <1>10 DEF SendPush, ThreadType, SameThread
    <2>3. ASSUME NEW x \in Handle PROVE WakeAt(x)'
      <3>1. UNCHANGED <<qfreed, ctx, ref, lau, pc, cur>> /\ snd[t].des \notin qfreed
            /\ MqPush(snd[t].des, snd[t].m) /\ gq \in Seq(Handle)
        BY <1>10 DEF SendPush, MqPush, QueueType
      <3>2. gq' = gq \/ GlobalPush(snd[t].des)
        BY <3>1 DEF MqPush, PushHead, PushTail
      <3>3. InGlobalQueue(x) => InGlobalQueue(x)'
        <4>1. CASE gq' = gq
          BY <4>1 DEF InGlobalQueue
        <4>2. CASE GlobalPush(snd[t].des)
          BY <2>1, <3>1, <4>2, GlobalPushEffect
        <4> QED BY <3>2, <4>1, <4>2
      <3>4. (Works(t, x) => Works(t, x)') /\ (Starts(t, x) => Starts(t, x)')
        BY <3>1 DEF Works, Starts
      <3>5. Scheduled(x) => Scheduled(x)'
        BY <2>2, <3>3, <3>4, KeepScheduled
      <3>6. CASE x # snd[t].des
        <4>1. queue'[x] = queue[x] /\ inGlobal'[x] = inGlobal[x] /\ lockSession'[x] = lockSession[x]
          BY <2>1, <3>1, <3>6 DEF MqPush, PushHead, PushTail, QueueType
        <4> QED BY <3>1, <3>5, <4>1, KeepWake DEF Wakeups
      <3>7. CASE x = snd[t].des
        <4>1. ctx[x] # "none" /\ FlagsAgree(x)
          BY <1>10, <2>1, <3>1, <3>7 DEF SendPush, Fresh, Unused, Involves, Wakeups, WakeAt
        <4>2. CASE GlobalPush(x)
          <5>1. Scheduled(x)'
            BY <3>1, <4>2, GlobalPushEffect DEF Scheduled, InGlobalQueue
          <5>2. inGlobal'[x] = MQ_IN_GLOBAL /\ lockSession'[x] = 0
            <6>1. gq' # gq
              BY <3>1, <4>2 DEF GlobalPush
            <6> QED
              BY <2>1, <3>1, <3>7, <6>1 DEF MqPush, PushHead, PushTail, QueueType
          <5> QED
            BY <3>1, <3>7, <4>1, <5>1, <5>2 DEF WakeAt, FlagsAgree, MQ_IN_GLOBAL, MQ_DISPATCHING, MQ_LOCKED
        <4>3. CASE gq' = gq
          <5>1. inGlobal'[x] = inGlobal[x] /\ inGlobal[x] # 0
            <6>1. ~GlobalPush(x)
              BY <3>1, <4>3 DEF GlobalPush
            <6> QED
              BY <2>1, <3>1, <3>7, <4>1, <6>1 DEF MqPush, PushHead, PushTail, Unlocks, FlagsAgree, QueueType,
                 MQ_DISPATCHING, MQ_LOCKED
          <5>2. /\ lockSession'[x] # 0 => lockSession[x] # 0
                /\ inGlobal[x] = MQ_LOCKED => lockSession'[x] = lockSession[x]
            <6>1. ~GlobalPush(x)
              BY <3>1, <4>3 DEF GlobalPush
            <6> QED
              BY <2>1, <3>1, <3>7, <6>1 DEF MqPush, PushHead, PushTail, QueueType
          <5> QED
            BY <3>1, <3>5, <3>7, <4>1, <5>1, <5>2 DEF WakeAt, FlagsAgree
        <4> QED BY <3>2, <3>7, <4>2, <4>3
      <3> QED BY <3>6, <3>7
    <2> QED BY <1>0, <2>3 DEF Wakeups
  <1>11. ASSUME NEW t \in Thread, MonitorEndless(t) PROVE SchedulerInv'
    <2>1. \A u \in Thread \ {t} : SameThread(u)
      BY <1>11 DEF MonitorEndless, ThreadType, SameThread
    <2>2. ASSUME NEW x \in Handle PROVE WakeAt(x)'
      <3>1. UNCHANGED <<queue, inGlobal, lockSession, qfreed>>
        BY <1>11 DEF MonitorEndless
      <3>3. (ctx'[x] = "none" <=> ctx[x] = "none") /\ (ref[x] = 0 => ref'[x] = 0)
        BY <1>11, HeldPositive DEF MonitorEndless, ContextType
      <3>4. InGlobalQueue(x) => InGlobalQueue(x)'
        BY <1>11 DEF MonitorEndless, InGlobalQueue
      <3>5. (Works(t, x) => Works(t, x)') /\ (Starts(t, x) => Starts(t, x)')
        BY <1>11 DEF MonitorEndless, Works, Starts, Stage, ThreadType
      <3>6. Scheduled(x) => Scheduled(x)'
        BY <2>1, <3>4, <3>5, KeepScheduled
      <3> QED BY <3>1, <3>3, <3>6, KeepWake DEF Wakeups
    <2> QED BY <1>0, <2>2 DEF Wakeups
  <1>12. ASSUME NEW t \in Thread, ReleaseDec(t) PROVE SchedulerInv'
    <2>1. \A u \in Thread \ {t} : SameThread(u)
      BY <1>12 DEF ReleaseDec, ThreadType, SameThread
    <2>2. ASSUME NEW x \in Handle PROVE WakeAt(x)'
      <3>1. UNCHANGED <<queue, inGlobal, lockSession, qfreed>>
        BY <1>12 DEF ReleaseDec
      <3>3. (ctx'[x] = "none" <=> ctx[x] = "none") /\ (ref[x] = 0 => ref'[x] = 0)
        BY <1>12, HeldPositive DEF ReleaseDec, ContextType
      <3>4. InGlobalQueue(x) => InGlobalQueue(x)'
        BY <1>12 DEF ReleaseDec, InGlobalQueue
      <3>5. (Works(t, x) => Works(t, x)') /\ (Starts(t, x) => Starts(t, x)')
        BY <1>12 DEF ReleaseDec, Works, Starts, Stage, ThreadType
      <3>6. Scheduled(x) => Scheduled(x)'
        BY <2>1, <3>4, <3>5, KeepScheduled
      <3> QED BY <3>1, <3>3, <3>6, KeepWake DEF Wakeups
    <2> QED BY <1>0, <2>2 DEF Wakeups
  <1>13. ASSUME NEW t \in Thread, ReleaseMark(t) PROVE SchedulerInv'
    <2>1. rel[t].h \in Handle
      BY <1>13 DEF ReleaseMark, Shape, ThreadShape
    <2>2. \A u \in Thread \ {t} : SameThread(u)
      BY <1>13 DEF ReleaseMark, ThreadType, SameThread
    <2>3. ASSUME NEW x \in Handle PROVE WakeAt(x)'
      <3>1. UNCHANGED <<queue, inGlobal, lockSession, qfreed>>
        BY <1>13 DEF ReleaseMark
      <3>3. ctx' = ctx /\ ref' = ref
        BY <1>13 DEF ReleaseMark
      <3>4. InGlobalQueue(x) => InGlobalQueue(x)'
        <4>1. (gq' = gq \/ GlobalPush(rel[t].h)) /\ gq \in Seq(Handle)
          BY <1>13 DEF ReleaseMark, MarkPush, QueueType
        <4>2. CASE gq' = gq
          BY <4>2 DEF InGlobalQueue
        <4>3. CASE GlobalPush(rel[t].h)
          BY <2>1, <4>1, <4>3, GlobalPushEffect
        <4> QED BY <4>1, <4>2, <4>3
      <3>5. (Works(t, x) => Works(t, x)') /\ (Starts(t, x) => Starts(t, x)')
        BY <1>13 DEF ReleaseMark, Works, Starts, Stage, ThreadType
      <3>6. Scheduled(x) => Scheduled(x)'
        BY <2>2, <3>4, <3>5, KeepScheduled
      <3> QED BY <3>1, <3>3, <3>6, KeepWake DEF Wakeups
    <2> QED BY <1>0, <2>3 DEF Wakeups
  <1>14. ASSUME NEW t \in Thread, ReleaseFree(t) PROVE SchedulerInv'
    <2>1. \A u \in Thread \ {t} : SameThread(u)
      BY <1>14 DEF ReleaseFree, ThreadType, SameThread
    <2>2. ASSUME NEW x \in Handle PROVE WakeAt(x)'
      <3>1. UNCHANGED <<queue, inGlobal, lockSession, qfreed>>
        BY <1>14 DEF ReleaseFree
      <3>3. (ctx'[x] = "none" <=> ctx[x] = "none") /\ (ref[x] = 0 => ref'[x] = 0)
        BY <1>14, HeldPositive DEF ReleaseFree, ContextType, Deletion, DeletedOnce,
           Deletes, Shape, ThreadShape
      <3>4. InGlobalQueue(x) => InGlobalQueue(x)'
        BY <1>14 DEF ReleaseFree, InGlobalQueue
      <3>5. (Works(t, x) => Works(t, x)') /\ (Starts(t, x) => Starts(t, x)')
        BY <1>14 DEF ReleaseFree, Works, Starts, Stage, ThreadType
      <3>6. Scheduled(x) => Scheduled(x)'
        BY <2>1, <3>4, <3>5, KeepScheduled
      <3> QED BY <3>1, <3>3, <3>6, KeepWake DEF Wakeups
    <2> QED BY <1>0, <2>2 DEF Wakeups
  <1>15. ASSUME NEW t \in Thread, InitReturn(t) PROVE SchedulerInv'
    <2>1. PICK ok \in BOOLEAN : InitReturn(t)!(ok)
      BY <1>15 DEF InitReturn
    <2>2. \A u \in Thread \ {t} : SameThread(u)
      BY <2>1 DEF ThreadType, SameThread
    <2>3. ASSUME NEW x \in Handle PROVE WakeAt(x)'
      <3>1. UNCHANGED <<queue, inGlobal, lockSession, qfreed>>
        BY <2>1
      <3>3. (ctx'[x] = "none" <=> ctx[x] = "none") /\ (ref[x] = 0 => ref'[x] = 0)
        BY <2>1, HeldPositive DEF ContextType
      <3>4. InGlobalQueue(x) => InGlobalQueue(x)'
        BY <2>1 DEF InGlobalQueue
      <3>5. (Works(t, x) => Works(t, x)') /\ (Starts(t, x) => Starts(t, x)')
        BY <2>1 DEF Works, Starts, Stage, ThreadType
      <3>6. Scheduled(x) => Scheduled(x)'
        BY <2>2, <3>4, <3>5, KeepScheduled
      <3> QED BY <3>1, <3>3, <3>6, KeepWake DEF Wakeups
    <2> QED BY <1>0, <2>3 DEF Wakeups
  <1>16. ASSUME NEW t \in Thread, LaunchInited(t) PROVE SchedulerInv'
    <2>1. \A u \in Thread \ {t} : SameThread(u)
      BY <1>16 DEF LaunchInited, ThreadType, SameThread
    <2>2. ASSUME NEW x \in Handle PROVE WakeAt(x)'
      <3>1. UNCHANGED <<queue, inGlobal, lockSession, qfreed>>
        BY <1>16 DEF LaunchInited
      <3>3. (ctx'[x] = "none" <=> ctx[x] = "none") /\ (ref[x] = 0 => ref'[x] = 0)
        BY <1>16, HeldPositive DEF LaunchInited, ContextType
      <3>4. InGlobalQueue(x) => InGlobalQueue(x)'
        BY <1>16 DEF LaunchInited, InGlobalQueue
      <3>5. (Works(t, x) => Works(t, x)') /\ (Starts(t, x) => Starts(t, x)')
        BY <1>16 DEF LaunchInited, Works, Starts, Stage, ThreadType
      <3>6. Scheduled(x) => Scheduled(x)'
        BY <2>1, <3>4, <3>5, KeepScheduled
      <3> QED BY <3>1, <3>3, <3>6, KeepWake DEF Wakeups
    <2> QED BY <1>0, <2>2 DEF Wakeups
  <1>17. ASSUME NEW t \in Thread, LaunchPush(t) PROVE SchedulerInv'
    <2>1. lau[t].h \in Handle
      BY <1>17 DEF LaunchPush, Shape, ThreadShape
    <2>2. \A u \in Thread \ {t} : SameThread(u)
      BY <1>17 DEF LaunchPush, ThreadType, SameThread
    <2>3. ASSUME NEW x \in Handle PROVE WakeAt(x)'
      <3>1. UNCHANGED <<queue, inGlobal, lockSession, qfreed, ctx, ref, pc, cur>>
        BY <1>17 DEF LaunchPush
      <3>2. GlobalPush(lau[t].h) /\ gq \in Seq(Handle)
        BY <1>17 DEF LaunchPush, QueueType
      <3>3. InGlobalQueue(x) \/ x = lau[t].h => InGlobalQueue(x)'
        BY <2>1, <3>2, GlobalPushEffect
      <3>4. Works(t, x) => Works(t, x)'
        BY <3>1 DEF Works
      <3>5. Starts(t, x) => x = lau[t].h
        BY DEF Starts
      <3>6. Scheduled(x) => Scheduled(x)'
        BY <2>2, <3>3, <3>4, <3>5, KeepScheduled
      <3> QED BY <3>1, <3>6, KeepWake DEF Wakeups
    <2> QED BY <1>0, <2>3 DEF Wakeups
  <1>18. ASSUME NEW t \in Thread, LaunchReturn(t) PROVE SchedulerInv'
    <2>1. \A u \in Thread \ {t} : SameThread(u)
      BY <1>18 DEF LaunchReturn, ThreadType, SameThread
    <2>2. ASSUME NEW x \in Handle PROVE WakeAt(x)'
      <3>1. UNCHANGED <<queue, inGlobal, lockSession, qfreed>>
        BY <1>18 DEF LaunchReturn
      <3>3. (ctx'[x] = "none" <=> ctx[x] = "none") /\ (ref[x] = 0 => ref'[x] = 0)
        BY <1>18, HeldPositive DEF LaunchReturn, ContextType
      <3>4. InGlobalQueue(x) => InGlobalQueue(x)'
        BY <1>18 DEF LaunchReturn, InGlobalQueue
      <3>5. (Works(t, x) => Works(t, x)') /\ (Starts(t, x) => Starts(t, x)')
        BY <1>18 DEF LaunchReturn, Works, Starts, Stage, ThreadType
      <3>6. Scheduled(x) => Scheduled(x)'
        BY <2>1, <3>4, <3>5, KeepScheduled
      <3> QED BY <3>1, <3>3, <3>6, KeepWake DEF Wakeups
    <2> QED BY <1>0, <2>2 DEF Wakeups
  <1>19. ASSUME NEW t \in Thread, LaunchRetire(t) PROVE SchedulerInv'
    <2>1. lau[t].h \in Handle
      BY <1>19 DEF LaunchRetire, Shape, ThreadShape
    <2>2. \A u \in Thread \ {t} : SameThread(u)
      BY <1>19 DEF LaunchRetire, ThreadType, SameThread
    <2>3. ASSUME NEW x \in Handle PROVE WakeAt(x)'
      <3>1. UNCHANGED <<queue, inGlobal, lockSession, qfreed>>
        BY <1>19 DEF LaunchRetire
      <3>2. Retire(lau[t].h) /\ gq \in Seq(Handle)
        BY <1>19 DEF LaunchRetire, QueueType
      <3>3. (ctx'[x] = "none" <=> ctx[x] = "none") /\ (ref[x] = 0 => ref'[x] = 0)
        <4>1. CASE x # lau[t].h
          BY <2>1, <3>2, <4>1, RetireEffect
        <4>2. CASE x = lau[t].h
          <5>1. CASE lau[t].h \in slot /\ ref[lau[t].h] = 1
            BY <2>1, <3>2, <4>2, <5>1, RetireEffect
          <5>2. CASE lau[t].h \in slot /\ ref[lau[t].h] # 1
            BY <2>1, <3>2, <4>2, <5>2, RetireEffect
          <5>3. CASE lau[t].h \notin slot
            BY <2>1, <3>2, <4>2, <5>3, RetireEffect
          <5> QED BY <5>1, <5>2, <5>3
        <4> QED BY <4>1, <4>2
      <3>4. InGlobalQueue(x) => InGlobalQueue(x)'
        <4>1. gq' = gq \/ GlobalPush(lau[t].h)
          BY <3>2 DEF Retire, MarkPush
        <4>2. CASE gq' = gq
          BY <4>2 DEF InGlobalQueue
        <4>3. CASE GlobalPush(lau[t].h)
          BY <2>1, <3>2, <4>3, GlobalPushEffect
        <4> QED BY <4>1, <4>2, <4>3
      <3>5. (Works(t, x) => Works(t, x)') /\ (Starts(t, x) => Starts(t, x)')
        BY <1>19 DEF LaunchRetire, Works, Starts, Stage, ThreadType
      <3>6. Scheduled(x) => Scheduled(x)'
        BY <2>2, <3>4, <3>5, KeepScheduled
      <3> QED BY <3>1, <3>3, <3>6, KeepWake DEF Wakeups
    <2> QED BY <1>0, <2>3 DEF Wakeups
  <1>20. ASSUME NEW t \in Thread, LaunchDrop(t) PROVE SchedulerInv'
    <2>1. lau[t].h \in Handle
      BY <1>20 DEF LaunchDrop, Shape, ThreadShape
    <2>2. \A u \in Thread \ {t} : SameThread(u)
      BY <1>20 DEF LaunchDrop, ThreadType, SameThread
    <2>3. ASSUME NEW x \in Handle PROVE WakeAt(x)'
      <3>1. MqRelease(lau[t].h) /\ lau[t].h \notin qfreed /\ UNCHANGED <<ctx, ref>>
            /\ (release[lau[t].h] \/ inGlobal[lau[t].h] # 0)
        BY <1>20 DEF LaunchDrop
      <3>2. ctx[lau[t].h] # "none"
        BY <1>20, <2>1 DEF LaunchDrop, Fresh, Unused, Involves
      <3>3. CASE release[lau[t].h]
        <4>1. ref[lau[t].h] = 0
          BY <2>1, <3>3 DEF Deletion, DeletedOnce
        <4>2. /\ queue' = [queue EXCEPT ![lau[t].h] = <<>>] /\ inGlobal' = [inGlobal EXCEPT ![lau[t].h] = 0]
              /\ qfreed' = qfreed \cup {lau[t].h} /\ gq' = gq /\ lockSession' = lockSession
          BY <3>1, <3>3 DEF MqRelease
        <4>3. CASE x = lau[t].h
          BY <3>1, <3>2, <4>1, <4>2, <4>3 DEF WakeAt, QueueType
        <4>4. CASE x # lau[t].h
          <5>1. InGlobalQueue(x) => InGlobalQueue(x)'
            BY <4>2 DEF InGlobalQueue
          <5>2. (Works(t, x) => Works(t, x)') /\ (Starts(t, x) => Starts(t, x)')
            BY <1>20, <4>4 DEF LaunchDrop, Works, Starts, ThreadType
          <5>3. Scheduled(x) => Scheduled(x)'
            BY <2>2, <5>1, <5>2, KeepScheduled
          <5>4. queue'[x] = queue[x] /\ inGlobal'[x] = inGlobal[x] /\ (x \in qfreed' <=> x \in qfreed)
            BY <4>2, <4>4 DEF QueueType
          <5> QED BY <3>1, <4>2, <5>3, <5>4 DEF Wakeups, WakeAt, FlagsAgree
        <4> QED BY <4>3, <4>4
      <3>4. CASE ~release[lau[t].h]
        <4>1. GlobalPush(lau[t].h) /\ UNCHANGED <<queue, inGlobal, lockSession, qfreed>> /\ gq \in Seq(Handle)
          BY <3>1, <3>4 DEF MqRelease, QueueType
        <4>2. InGlobalQueue(x) \/ x = lau[t].h => InGlobalQueue(x)'
          BY <2>1, <4>1, GlobalPushEffect
        <4>3. x # lau[t].h => (Works(t, x) => Works(t, x)') /\ (Starts(t, x) => Starts(t, x)')
          BY <1>20 DEF LaunchDrop, Works, Starts, ThreadType
        <4>4. Scheduled(x) => Scheduled(x)'
          BY <2>2, <4>2, <4>3, KeepScheduled
        <4> QED BY <3>1, <4>1, <4>4, KeepWake DEF Wakeups
      <3> QED BY <3>3, <3>4
    <2> QED BY <1>0, <2>3 DEF Wakeups
  <1>21. ASSUME NEW t \in Thread, Request(t) PROVE SchedulerInv'
    <2>1. PICK h \in Handle, d \in Known, call \in BOOLEAN : Request(t)!(h,d,call)
      BY <1>21 DEF Request
    <2>2. pc[t] = "cb" /\ Quiet(t) /\ lau[t].st \in {"none", "init"}
      BY <2>1, Serving
    <2>3. \A u \in Thread \ {t} : SameThread(u)
      BY <2>1 DEF ThreadType, SameThread
    <2>4. ASSUME NEW x \in Handle PROVE WakeAt(x)'
      <3>1. UNCHANGED <<queue, inGlobal, lockSession, qfreed>>
        BY <2>1
      <3>3. (ctx'[x] = "none" <=> ctx[x] = "none") /\ (ref[x] = 0 => ref'[x] = 0)
        BY <2>1, <2>2, HeldPositive DEF ContextType
      <3>4. InGlobalQueue(x) => InGlobalQueue(x)'
        BY <2>1 DEF InGlobalQueue
      <3>5. (Works(t, x) => Works(t, x)') /\ (Starts(t, x) => Starts(t, x)')
        BY <2>1 DEF Works, Starts, Stage, ThreadType
      <3>6. Scheduled(x) => Scheduled(x)'
        BY <2>3, <3>4, <3>5, KeepScheduled
      <3> QED BY <3>1, <3>3, <3>6, KeepWake DEF Wakeups
    <2> QED BY <1>0, <2>4 DEF Wakeups
  <1>22. ASSUME NEW t \in Thread, Respond(t) PROVE SchedulerInv'
    <2>1. PICK h \in Handle : Respond(t)!(h)
      BY <1>22 DEF Respond
    <2>2. pc[t] = "cb" /\ Quiet(t) /\ lau[t].st \in {"none", "init"}
      BY <2>1, Serving
    <2>3. \A u \in Thread \ {t} : SameThread(u)
      BY <2>1 DEF ThreadType, SameThread
    <2>4. ASSUME NEW x \in Handle PROVE WakeAt(x)'
      <3>1. UNCHANGED <<queue, inGlobal, lockSession, qfreed>>
        BY <2>1
      <3>3. (ctx'[x] = "none" <=> ctx[x] = "none") /\ (ref[x] = 0 => ref'[x] = 0)
        BY <2>1, <2>2, HeldPositive DEF ContextType
      <3>4. InGlobalQueue(x) => InGlobalQueue(x)'
        BY <2>1 DEF InGlobalQueue
      <3>5. (Works(t, x) => Works(t, x)') /\ (Starts(t, x) => Starts(t, x)')
        BY <2>1 DEF Works, Starts, Stage, ThreadType
      <3>6. Scheduled(x) => Scheduled(x)'
        BY <2>3, <3>4, <3>5, KeepScheduled
      <3> QED BY <3>1, <3>3, <3>6, KeepWake DEF Wakeups
    <2> QED BY <1>0, <2>4 DEF Wakeups
  <1>23. ASSUME NEW t \in Thread, TimeoutNow(t) PROVE SchedulerInv'
    <2>1. PICK h \in Handle : TimeoutNow(t)!(h)
      BY <1>23 DEF TimeoutNow
    <2>2. pc[t] = "cb" /\ Quiet(t) /\ lau[t].st \in {"none", "init"}
      BY <2>1, Serving
    <2>3. \A u \in Thread \ {t} : SameThread(u)
      BY <2>1 DEF ThreadType, SameThread
    <2>4. ASSUME NEW x \in Handle PROVE WakeAt(x)'
      <3>1. UNCHANGED <<queue, inGlobal, lockSession, qfreed>>
        BY <2>1
      <3>3. (ctx'[x] = "none" <=> ctx[x] = "none") /\ (ref[x] = 0 => ref'[x] = 0)
        BY <2>1, <2>2, HeldPositive DEF ContextType
      <3>4. InGlobalQueue(x) => InGlobalQueue(x)'
        BY <2>1 DEF InGlobalQueue
      <3>5. (Works(t, x) => Works(t, x)') /\ (Starts(t, x) => Starts(t, x)')
        BY <2>1 DEF Works, Starts, Stage, ThreadType
      <3>6. Scheduled(x) => Scheduled(x)'
        BY <2>3, <3>4, <3>5, KeepScheduled
      <3> QED BY <3>1, <3>3, <3>6, KeepWake DEF Wakeups
    <2> QED BY <1>0, <2>4 DEF Wakeups
  <1>24. ASSUME NEW t \in Thread, TimeoutLater(t) PROVE SchedulerInv'
    <2>1. PICK h \in Handle : TimeoutLater(t)!(h)
      BY <1>24 DEF TimeoutLater
    <2>2. pc[t] = "cb" /\ Quiet(t) /\ lau[t].st \in {"none", "init"}
      BY <2>1, Serving
    <2>3. \A u \in Thread \ {t} : SameThread(u)
      BY <2>1 DEF ThreadType, SameThread
    <2>4. ASSUME NEW x \in Handle PROVE WakeAt(x)'
      <3>1. UNCHANGED <<queue, inGlobal, lockSession, qfreed>>
        BY <2>1
      <3>3. (ctx'[x] = "none" <=> ctx[x] = "none") /\ (ref[x] = 0 => ref'[x] = 0)
        BY <2>1, <2>2, HeldPositive DEF ContextType
      <3>4. InGlobalQueue(x) => InGlobalQueue(x)'
        BY <2>1 DEF InGlobalQueue
      <3>5. (Works(t, x) => Works(t, x)') /\ (Starts(t, x) => Starts(t, x)')
        BY <2>1 DEF Works, Starts, Stage, ThreadType
      <3>6. Scheduled(x) => Scheduled(x)'
        BY <2>3, <3>4, <3>5, KeepScheduled
      <3> QED BY <3>1, <3>3, <3>6, KeepWake DEF Wakeups
    <2> QED BY <1>0, <2>4 DEF Wakeups
  <1>25. ASSUME NEW t \in Thread, Forward(t) PROVE SchedulerInv'
    <2>1. PICK h \in Handle, d \in Known : Forward(t)!(h,d)
      BY <1>25 DEF Forward
    <2>2. pc[t] = "cb" /\ Quiet(t) /\ lau[t].st \in {"none", "init"}
      BY <2>1, Serving
    <2>3. \A u \in Thread \ {t} : SameThread(u)
      BY <2>1 DEF ThreadType, SameThread
    <2>4. ASSUME NEW x \in Handle PROVE WakeAt(x)'
      <3>1. UNCHANGED <<queue, inGlobal, lockSession, qfreed>>
        BY <2>1
      <3>3. (ctx'[x] = "none" <=> ctx[x] = "none") /\ (ref[x] = 0 => ref'[x] = 0)
        BY <2>1, <2>2, HeldPositive DEF ContextType
      <3>4. InGlobalQueue(x) => InGlobalQueue(x)'
        BY <2>1 DEF InGlobalQueue
      <3>5. (Works(t, x) => Works(t, x)') /\ (Starts(t, x) => Starts(t, x)')
        BY <2>1 DEF Works, Starts, Stage, ThreadType
      <3>6. Scheduled(x) => Scheduled(x)'
        BY <2>3, <3>4, <3>5, KeepScheduled
      <3> QED BY <3>1, <3>3, <3>6, KeepWake DEF Wakeups
    <2> QED BY <1>0, <2>4 DEF Wakeups
  <1>26. ASSUME NEW t \in Thread, Kill(t) PROVE SchedulerInv'
    <2>1. PICK h \in Handle, d \in Known : Kill(t)!(h,d)
      BY <1>26 DEF Kill
    <2>2. pc[t] = "cb" /\ Quiet(t) /\ lau[t].st \in {"none", "init"}
      BY <2>1, Serving
    <2>3. d \in Handle /\ ctx[d] # "none"
      BY <2>1 DEF Known
    <2>4. \A u \in Thread \ {t} : SameThread(u)
      BY <2>1 DEF ThreadType, SameThread
    <2>5. ASSUME NEW x \in Handle PROVE WakeAt(x)'
      <3>1. UNCHANGED <<queue, inGlobal, lockSession, qfreed>>
        BY <2>1
      <3>2. Retire(d) /\ gq \in Seq(Handle)
        BY <2>1 DEF QueueType
      <3>3. (ctx'[x] = "none" <=> ctx[x] = "none") /\ (ref[x] = 0 => ref'[x] = 0)
        <4>1. CASE x # d
          BY <2>2, <2>3, <3>2, <4>1, RetireEffect
        <4>2. CASE x = d
          <5>1. CASE d \in slot /\ ref[d] = 1
            BY <2>2, <2>3, <3>2, <4>2, <5>1, RetireEffect
          <5>2. CASE d \in slot /\ ref[d] # 1
            BY <2>2, <2>3, <3>2, <4>2, <5>2, RetireEffect
          <5>3. CASE d \notin slot
            BY <2>2, <2>3, <3>2, <4>2, <5>3, RetireEffect
          <5> QED BY <5>1, <5>2, <5>3
        <4> QED BY <4>1, <4>2
      <3>4. InGlobalQueue(x) => InGlobalQueue(x)'
        <4>1. gq' = gq \/ GlobalPush(d)
          BY <3>2 DEF Retire, MarkPush
        <4>2. CASE gq' = gq
          BY <4>2 DEF InGlobalQueue
        <4>3. CASE GlobalPush(d)
          BY <2>2, <2>3, <3>2, <4>3, GlobalPushEffect
        <4> QED BY <4>1, <4>2, <4>3
      <3>5. (Works(t, x) => Works(t, x)') /\ (Starts(t, x) => Starts(t, x)')
        BY <2>1 DEF Works, Starts, Stage, ThreadType
      <3>6. Scheduled(x) => Scheduled(x)'
        BY <2>4, <3>4, <3>5, KeepScheduled
      <3> QED BY <3>1, <3>3, <3>6, KeepWake DEF Wakeups
    <2> QED BY <1>0, <2>5 DEF Wakeups
  <1>27. ASSUME NEW t \in Thread, BlockCall(t) PROVE SchedulerInv'
    <2>1. PICK h \in Handle, d \in Known : BlockCall(t)!(h,d)
      BY <1>27 DEF BlockCall
    <2>2. pc[t] = "cb" /\ Quiet(t) /\ lau[t].st \in {"none", "init"}
      BY <2>1, Serving
    <2>3. \A u \in Thread \ {t} : SameThread(u)
      BY <2>1 DEF ThreadType, SameThread
    <2>4. ASSUME NEW x \in Handle PROVE WakeAt(x)'
      <3>1. UNCHANGED <<queue, qfreed, gq, ctx, ref, lau, pc, cur>>
            /\ inGlobal' = [inGlobal EXCEPT ![h] = MQ_DISPATCHING]
            /\ lockSession' = [lockSession EXCEPT ![h] = session[h] + 1]
            /\ h \in inited /\ h \notin qfreed /\ inGlobal[h] = MQ_IN_GLOBAL
        BY <2>1
      <3>2. Scheduled(x) => Scheduled(x)'
        BY <3>1 DEF Scheduled
      <3>3. CASE x # h
        <4>1. inGlobal'[x] = inGlobal[x] /\ lockSession'[x] = lockSession[x]
          BY <3>1, <3>3 DEF QueueType
        <4> QED BY <3>1, <3>2, <4>1, KeepWake DEF Wakeups
      <3>4. CASE x = h
        <4>1. ctx[x] # "none" /\ Scheduled(x)
          BY <3>1, <3>4 DEF Fresh, Unused, Wakeups, WakeAt, FlagsAgree
        <4>2. inGlobal'[x] = MQ_DISPATCHING /\ lockSession'[x] # 0
          BY <3>1, <3>4 DEF QueueType, ContextType
        <4> QED
          BY <3>1, <3>2, <3>4, <4>1, <4>2 DEF WakeAt, FlagsAgree, MQ_IN_GLOBAL, MQ_DISPATCHING, MQ_LOCKED
      <3> QED BY <3>3, <3>4
    <2> QED BY <1>0, <2>4 DEF Wakeups
  <1>28. ASSUME NEW t \in Thread, Launch(t) PROVE SchedulerInv'
    <2>1. PICK h \in Handle, n \in Handle : Launch(t)!(h,n)
      BY <1>28 DEF Launch
    <2>2. pc[t] = "cb" /\ Quiet(t) /\ lau[t].st \in {"none", "init"}
      BY <2>1, Serving
    <2>3. \A u \in Thread \ {t} : SameThread(u)
      BY <2>1 DEF ThreadType, SameThread
    <2>4. ASSUME NEW x \in Handle PROVE WakeAt(x)'
      <3>1. UNCHANGED <<queue, qfreed, gq, lockSession, pc, cur>> /\ lau[t].st = "none"
            /\ lau'[t] = Stage("init", n)
        BY <2>1 DEF ThreadType
      <3>2. CASE x # n
        <4>1. inGlobal'[x] = inGlobal[x] /\ ref'[x] = ref[x] /\ ctx'[x] = ctx[x]
          BY <2>1, <3>2 DEF QueueType, ContextType
        <4>2. (InGlobalQueue(x) => InGlobalQueue(x)') /\ (Works(t, x) => Works(t, x)') /\ ~Starts(t, x)
          BY <3>1 DEF InGlobalQueue, Works, Starts
        <4>3. Scheduled(x) => Scheduled(x)'
          BY <2>3, <4>2, KeepScheduled
        <4> QED BY <3>1, <4>1, <4>3, KeepWake DEF Wakeups
      <3>3. CASE x = n
        <4>1. queue[x] = <<>> /\ x \notin qfreed /\ lockSession[x] = 0
          BY <2>1, <3>3 DEF Wakeups, WakeAt, Tokens
        <4>2. Scheduled(x)'
          BY <3>1, <3>3 DEF Scheduled, Stage
        <4>3. inGlobal'[x] = MQ_IN_GLOBAL /\ ctx'[x] = "live"
          BY <2>1, <3>3 DEF QueueType, ContextType
        <4> QED
          BY <3>1, <4>1, <4>2, <4>3 DEF WakeAt, FlagsAgree, MQ_IN_GLOBAL, MQ_DISPATCHING, MQ_LOCKED
      <3> QED BY <3>2, <3>3
    <2> QED BY <1>0, <2>4 DEF Wakeups
  <1>29. ASSUME NEW t \in Thread, TimerFire(t) PROVE SchedulerInv'
    <2>1. PICK n \in timers : TimerFire(t)!(n)
      BY <1>29 DEF TimerFire
    <2>2. \A u \in Thread \ {t} : SameThread(u)
      BY <2>1 DEF ThreadType, SameThread
    <2>3. ASSUME NEW x \in Handle PROVE WakeAt(x)'
      <3>1. UNCHANGED <<queue, inGlobal, lockSession, qfreed>>
        BY <2>1
      <3>3. (ctx'[x] = "none" <=> ctx[x] = "none") /\ (ref[x] = 0 => ref'[x] = 0)
        BY <2>1, HeldPositive DEF ContextType
      <3>4. InGlobalQueue(x) => InGlobalQueue(x)'
        BY <2>1 DEF InGlobalQueue
      <3>5. (Works(t, x) => Works(t, x)') /\ (Starts(t, x) => Starts(t, x)')
        BY <2>1 DEF Works, Starts, Stage, ThreadType
      <3>6. Scheduled(x) => Scheduled(x)'
        BY <2>2, <3>4, <3>5, KeepScheduled
      <3> QED BY <3>1, <3>3, <3>6, KeepWake DEF Wakeups
    <2> QED BY <1>0, <2>3 DEF Wakeups
  <1>30. ASSUME NEW t \in Thread, MonitorCheck(t) PROVE SchedulerInv'
    <2>1. PICK w \in Worker : MonitorCheck(t)!(w)
      BY <1>30 DEF MonitorCheck
    <2>2. \A u \in Thread \ {t} : SameThread(u)
      BY <2>1 DEF ThreadType, SameThread
    <2>3. ASSUME NEW x \in Handle PROVE WakeAt(x)'
      <3>1. UNCHANGED <<queue, inGlobal, lockSession, qfreed>>
        BY <2>1
      <3>3. (ctx'[x] = "none" <=> ctx[x] = "none") /\ (ref[x] = 0 => ref'[x] = 0)
        BY <2>1, HeldPositive DEF ContextType
      <3>4. InGlobalQueue(x) => InGlobalQueue(x)'
        BY <2>1 DEF InGlobalQueue
      <3>5. (Works(t, x) => Works(t, x)') /\ (Starts(t, x) => Starts(t, x)')
        BY <2>1 DEF Works, Starts, Stage, ThreadType
      <3>6. Scheduled(x) => Scheduled(x)'
        BY <2>2, <3>4, <3>5, KeepScheduled
      <3> QED BY <3>1, <3>3, <3>6, KeepWake DEF Wakeups
    <2> QED BY <1>0, <2>3 DEF Wakeups
  <1>31. ASSUME NEW t \in Thread, UseFreedQueue(t) PROVE SchedulerInv'
    <2>1. \A u \in Thread \ {t} : SameThread(u)
      BY <1>31 DEF UseFreedQueue, ThreadType, SameThread
    <2>2. ASSUME NEW x \in Handle PROVE WakeAt(x)'
      <3>1. UNCHANGED <<queue, inGlobal, lockSession, qfreed>>
        BY <1>31 DEF UseFreedQueue
      <3>3. (ctx'[x] = "none" <=> ctx[x] = "none") /\ (ref[x] = 0 => ref'[x] = 0)
        BY <1>31, HeldPositive DEF UseFreedQueue, ContextType
      <3>4. InGlobalQueue(x) => InGlobalQueue(x)'
        BY <1>31 DEF UseFreedQueue, InGlobalQueue
      <3>5. (Works(t, x) => Works(t, x)') /\ (Starts(t, x) => Starts(t, x)')
        BY <1>31 DEF UseFreedQueue, Works, Starts, Stage, ThreadType
      <3>6. Scheduled(x) => Scheduled(x)'
        BY <2>1, <3>4, <3>5, KeepScheduled
      <3> QED BY <3>1, <3>3, <3>6, KeepWake DEF Wakeups
    <2> QED BY <1>0, <2>2 DEF Wakeups
  <1>32. ASSUME NEW t \in Thread, UseFreedContext(t) PROVE SchedulerInv'
    <2>1. \A u \in Thread \ {t} : SameThread(u)
      BY <1>32 DEF UseFreedContext, ThreadType, SameThread
    <2>2. ASSUME NEW x \in Handle PROVE WakeAt(x)'
      <3>1. UNCHANGED <<queue, inGlobal, lockSession, qfreed>>
        BY <1>32 DEF UseFreedContext
      <3>3. (ctx'[x] = "none" <=> ctx[x] = "none") /\ (ref[x] = 0 => ref'[x] = 0)
        BY <1>32, HeldPositive DEF UseFreedContext, ContextType
      <3>4. InGlobalQueue(x) => InGlobalQueue(x)'
        BY <1>32 DEF UseFreedContext, InGlobalQueue
      <3>5. (Works(t, x) => Works(t, x)') /\ (Starts(t, x) => Starts(t, x)')
        BY <1>32 DEF UseFreedContext, Works, Starts, Stage, ThreadType
      <3>6. Scheduled(x) => Scheduled(x)'
        BY <2>1, <3>4, <3>5, KeepScheduled
      <3> QED BY <3>1, <3>3, <3>6, KeepWake DEF Wakeups
    <2> QED BY <1>0, <2>2 DEF Wakeups
  <1>33. ASSUME NEW t \in Thread, AssertForcePush(t) PROVE SchedulerInv'
    <2>1. \A u \in Thread \ {t} : SameThread(u)
      BY <1>33 DEF AssertForcePush, ThreadType, SameThread
    <2>2. ASSUME NEW x \in Handle PROVE WakeAt(x)'
      <3>1. UNCHANGED <<queue, inGlobal, lockSession, qfreed>>
        BY <1>33 DEF AssertForcePush
      <3>3. (ctx'[x] = "none" <=> ctx[x] = "none") /\ (ref[x] = 0 => ref'[x] = 0)
        BY <1>33, HeldPositive DEF AssertForcePush, ContextType
      <3>4. InGlobalQueue(x) => InGlobalQueue(x)'
        BY <1>33 DEF AssertForcePush, InGlobalQueue
      <3>5. (Works(t, x) => Works(t, x)') /\ (Starts(t, x) => Starts(t, x)')
        BY <1>33 DEF AssertForcePush, Works, Starts, Stage, ThreadType
      <3>6. Scheduled(x) => Scheduled(x)'
        BY <2>1, <3>4, <3>5, KeepScheduled
      <3> QED BY <3>1, <3>3, <3>6, KeepWake DEF Wakeups
    <2> QED BY <1>0, <2>2 DEF Wakeups
  <1>34. ASSUME NEW t \in Thread, AssertLock(t) PROVE SchedulerInv'
    <2>1. \A u \in Thread \ {t} : SameThread(u)
      BY <1>34 DEF AssertLock, ThreadType, SameThread
    <2>2. ASSUME NEW x \in Handle PROVE WakeAt(x)'
      <3>1. UNCHANGED <<queue, inGlobal, lockSession, qfreed>>
        BY <1>34 DEF AssertLock
      <3>3. (ctx'[x] = "none" <=> ctx[x] = "none") /\ (ref[x] = 0 => ref'[x] = 0)
        BY <1>34, HeldPositive DEF AssertLock, ContextType
      <3>4. InGlobalQueue(x) => InGlobalQueue(x)'
        BY <1>34 DEF AssertLock, InGlobalQueue
      <3>5. (Works(t, x) => Works(t, x)') /\ (Starts(t, x) => Starts(t, x)')
        BY <1>34 DEF AssertLock, Works, Starts, Stage, ThreadType
      <3>6. Scheduled(x) => Scheduled(x)'
        BY <2>1, <3>4, <3>5, KeepScheduled
      <3> QED BY <3>1, <3>3, <3>6, KeepWake DEF Wakeups
    <2> QED BY <1>0, <2>2 DEF Wakeups
  <1>35. CASE UNCHANGED vars
    BY <1>0, <1>35 DEF Wakeups, WakeAt, FlagsAgree, Scheduled
  <1> QED BY <1>1, <1>2, <1>3, <1>4, <1>5, <1>6, <1>7, <1>8, <1>9, <1>10, <1>11,
     <1>12, <1>13, <1>14, <1>15, <1>16, <1>17, <1>18, <1>19, <1>20, <1>21, <1>22,
     <1>23, <1>24, <1>25, <1>26, <1>27, <1>28, <1>29, <1>30, <1>31, <1>32, <1>33,
     <1>34, <1>35 DEF Next, Progress, Operation, Crash

-----------------------------------------------------------------------------
(* A queue that holds messages is scheduled, or locked by a blockcall.     *)
THEOREM NothingForgotten == Spec => []NoLostWakeup
  <1>1. ASSUME SchedulerInv PROVE NoLostWakeup
    <2> SUFFICES ASSUME NEW h \in Handle, queue[h] # <<>>
                 PROVE  Scheduled(h) \/ (inGlobal[h] = MQ_LOCKED /\ lockSession[h] # 0)
      BY DEF NoLostWakeup
    <2>1. FlagsAgree(h) /\ inGlobal[h] \in 0 .. 3
      BY <1>1 DEF SchedulerInv, Wakeups, WakeAt, TokenInv, RefInv, TypeInv, TypeOK, QueueType
    <2> QED BY <2>1 DEF FlagsAgree, MQ_IN_GLOBAL, MQ_DISPATCHING, MQ_LOCKED
  <1> QED BY InitWake, StepWake, <1>1, PTL DEF Spec

(* A live service that waits in a blockcall is left alone until the answer *)
(* comes: no worker takes up its queue and it is not scheduled, however    *)
(* the answer races the end of the callback.                               *)
THEOREM LockedServiceWaits == Spec => []LockedWaits
  <1>1. ASSUME SchedulerInv PROVE LockedWaits
    <2>1. LockedNotDispatched
      BY <1>1, LockedIsLeft DEF SchedulerInv
    <2>2. LockedNotInGlobal
      <3> SUFFICES ASSUME NEW h \in Handle, ref[h] > 0, inGlobal[h] = MQ_LOCKED
                   PROVE  (\A i \in 1 .. Len(gq) : gq[i] # h) /\ lockSession[h] # 0
        BY DEF LockedNotInGlobal
      <3>1. NoToken(h)
        BY <1>1 DEF SchedulerInv, TokenInv, Tokens, TokenAt
      <3>2. FlagsAgree(h)
        BY <1>1 DEF SchedulerInv, Wakeups, WakeAt
      <3> QED BY <3>1, <3>2 DEF NoToken, InGlobalQueue, FlagsAgree
    <2> QED BY <2>1, <2>2 DEF LockedWaits
  <1> QED BY InitWake, StepWake, <1>1, PTL DEF Spec
=============================================================================
