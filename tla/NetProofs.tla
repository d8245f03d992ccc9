------------------------------- MODULE NetProofs -------------------------------
(***************************************************************************)
(* Proofs about the parts of MCNet.                                        *)
(***************************************************************************)
EXTENDS MCNet, FiniteSetTheorems, SequenceTheorems, TLAPS

-----------------------------------------------------------------------------
(* The coroutines of a Lua service (LuaSession).                           *)

LEMMA SessionInit == Lua!LuaInit => Lua!SessionInv
  <1> SUFFICES ASSUME Lua!LuaInit PROVE Lua!SessionInv
    OBVIOUS
  <1>2. Lua!SessionTypeOK
    BY DEF Lua!SessionTypeOK, Lua!LuaInit, Lua!CoState, Lua!CoRecord
  <1>3. Lua!OneRuns /\ Lua!AtRest
    BY DEF Lua!OneRuns, Lua!AtRest, Lua!LuaInit
  <1>4. Lua!Outstanding /\ Lua!Waiters /\ Lua!Sleepers
    BY DEF Lua!Outstanding, Lua!Waiters, Lua!Sleepers, Lua!LuaInit, Lua!Response
  <1>5. Lua!OwnRequest
    BY DEF Lua!OwnRequest, Lua!LuaInit, Lua!RepliesToOwnRequest
  <1> QED BY <1>2, <1>3, <1>4, <1>5 DEF Lua!SessionInv

LEMMA Records ==
    ASSUME NEW r \in Lua!CoRecord
    PROVE  /\ \A st \in Lua!CoState, n \in Int \cup {Void} :
                [r EXCEPT !.state = st, !.session = n] \in Lua!CoRecord
           /\ \A st \in Lua!CoState : [r EXCEPT !.state = st] \in Lua!CoRecord
  BY DEF Lua!CoRecord

LEMMA StepCall == Lua!SessionInv /\ Lua!Call => Lua!SessionInv'
  <1> SUFFICES ASSUME Lua!SessionInv, Lua!Call PROVE Lua!SessionInv'
    OBVIOUS
  <1> DEFINE s == lastSession + 1
  <1>1. /\ running \in Coroutine /\ co[running].state = "run"
        /\ sessionCo' = Lua!Put(sessionCo, s, running)
        /\ co' = [co EXCEPT ![running] = [co[running] EXCEPT !.state = "wait", !.session = s]]
        /\ lastSession' = s /\ calls' = calls \cup {s}
        /\ trace'.current = Void /\ phase' = "wake"
        /\ UNCHANGED <<inbox, pool, coSession, sleepSession, wakeupSession, forkQueue, timers, replies, requests, luaFault>>
    BY DEF Lua!Call, Lua!Yields, Lua!Waiting, Lua!Suspended, Lua!TraceCount, Lua!TraceRegister, Lua!SessionInv, Lua!OneRuns
  <1>2. Lua!SessionTypeOK'
    <2>2. co' \in [Coroutine -> Lua!CoRecord]
      <3>1. [co[running] EXCEPT !.state = "wait", !.session = s] \in Lua!CoRecord
        <4>1. co[running] \in Lua!CoRecord /\ s \in Int /\ "wait" \in Lua!CoState
          BY <1>1 DEF Lua!SessionInv, Lua!SessionTypeOK, Lua!CoState
        <4> QED BY <4>1, Records
      <3> QED BY <1>1, <3>1 DEF Lua!SessionInv, Lua!SessionTypeOK
    <2> QED BY <1>1, <2>2 DEF Lua!SessionInv, Lua!SessionTypeOK
  <1>3. Lua!OneRuns' /\ Lua!AtRest'
    BY <1>1 DEF Lua!SessionInv, Lua!OneRuns, Lua!AtRest, Lua!SessionTypeOK
  <1>4. Lua!Outstanding'
    <2>1. DOMAIN sessionCo' = DOMAIN sessionCo \cup {s} /\ DOMAIN sessionCo \subseteq 1 .. lastSession
      BY <1>1 DEF Lua!SessionInv, Lua!Outstanding, Lua!Put
    <2>2. s \notin DOMAIN sessionCo /\ s \notin calls /\ s \notin timers /\ lastSession \in Nat
      BY <2>1 DEF Lua!SessionInv, Lua!SessionTypeOK
    <2>3. \A i \in 1 .. Len(inbox) : inbox[i].type = "response" =>
            inbox[i].session \in DOMAIN sessionCo /\ inbox[i].session \in 1 .. lastSession
      BY <2>1 DEF Lua!SessionInv, Lua!Outstanding
    <2> QED BY <1>1, <2>1, <2>2, <2>3 DEF Lua!SessionInv, Lua!Outstanding, Lua!Response
  <1>5. Lua!Waiters'
    BY <1>1, LuaAssumption DEF Lua!SessionInv, Lua!Waiters, Lua!Outstanding, Lua!SessionTypeOK, Lua!Put, Lua!SessionAssumption, Lua!Break
  <1>6. Lua!Sleepers'
    BY <1>1 DEF Lua!SessionInv, Lua!Sleepers, Lua!SessionTypeOK, Lua!Waiters, Lua!Outstanding
  <1>7. Lua!OwnRequest'
    BY <1>1 DEF Lua!SessionInv, Lua!OwnRequest, Lua!RepliesToOwnRequest, Lua!SessionTypeOK
  <1> QED BY <1>2, <1>3, <1>4, <1>5, <1>6, <1>7 DEF Lua!SessionInv

LEMMA StepSleep == Lua!SessionInv /\ Lua!Sleep => Lua!SessionInv'
  <1> SUFFICES ASSUME Lua!SessionInv, Lua!Sleep PROVE Lua!SessionInv'
    OBVIOUS
  <1> DEFINE s == lastSession + 1
  <1>1. /\ running \in Coroutine /\ co[running].state = "run"
        /\ sessionCo' = Lua!Put(sessionCo, s, running)
        /\ co' = [co EXCEPT ![running] = [co[running] EXCEPT !.state = "wait", !.session = s]]
        /\ lastSession' = s /\ timers' = timers \cup {s}
        /\ sleepSession' = Lua!Put(sleepSession, running, s)
        /\ trace'.current = Void /\ phase' = "wake"
        /\ UNCHANGED <<inbox, pool, coSession, wakeupSession, forkQueue, calls, replies, requests, luaFault>>
    BY DEF Lua!Sleep, Lua!Yields, Lua!Waiting, Lua!Suspended, Lua!TraceCount, Lua!TraceRegister, Lua!SessionInv, Lua!OneRuns
  <1>2. Lua!SessionTypeOK'
    <2>2. co' \in [Coroutine -> Lua!CoRecord]
      <3>1. [co[running] EXCEPT !.state = "wait", !.session = s] \in Lua!CoRecord
        <4>1. co[running] \in Lua!CoRecord /\ s \in Int /\ "wait" \in Lua!CoState
          BY <1>1 DEF Lua!SessionInv, Lua!SessionTypeOK, Lua!CoState
        <4> QED BY <4>1, Records
      <3> QED BY <1>1, <3>1 DEF Lua!SessionInv, Lua!SessionTypeOK
    <2> QED BY <1>1, <2>2 DEF Lua!SessionInv, Lua!SessionTypeOK
  <1>3. Lua!OneRuns' /\ Lua!AtRest'
    BY <1>1 DEF Lua!SessionInv, Lua!OneRuns, Lua!AtRest, Lua!SessionTypeOK
  <1>4. Lua!Outstanding'
    <2>1. DOMAIN sessionCo' = DOMAIN sessionCo \cup {s} /\ DOMAIN sessionCo \subseteq 1 .. lastSession
      BY <1>1 DEF Lua!SessionInv, Lua!Outstanding, Lua!Put
    <2>2. s \notin DOMAIN sessionCo /\ s \notin calls /\ s \notin timers /\ lastSession \in Nat
      BY <2>1 DEF Lua!SessionInv, Lua!SessionTypeOK
    <2>3. \A i \in 1 .. Len(inbox) : inbox[i].type = "response" =>
            inbox[i].session \in DOMAIN sessionCo /\ inbox[i].session \in 1 .. lastSession
      BY <2>1 DEF Lua!SessionInv, Lua!Outstanding
    <2> QED BY <1>1, <2>1, <2>2, <2>3 DEF Lua!SessionInv, Lua!Outstanding, Lua!Response
  <1>5. Lua!Waiters'
    BY <1>1, LuaAssumption DEF Lua!SessionInv, Lua!Waiters, Lua!Outstanding, Lua!SessionTypeOK, Lua!Put, Lua!SessionAssumption, Lua!Break
  <1>6. Lua!Sleepers'
    BY <1>1 DEF Lua!SessionInv, Lua!Sleepers, Lua!SessionTypeOK, Lua!Waiters, Lua!Outstanding, Lua!Put
  <1>7. Lua!OwnRequest'
    BY <1>1 DEF Lua!SessionInv, Lua!OwnRequest, Lua!RepliesToOwnRequest, Lua!SessionTypeOK
  <1> QED BY <1>2, <1>3, <1>4, <1>5, <1>6, <1>7 DEF Lua!SessionInv

LEMMA FreshCoroutine ==
    ASSUME Lua!SessionInv, NEW c \in Coroutine, NEW as \in Lua!CoRecord, Lua!CoCreate(c, as)
    PROVE  /\ co' = [co EXCEPT ![c] = as] /\ co' \in [Coroutine -> Lua!CoRecord]
           /\ co[c].state \in {"none", "pooled"}
           /\ pool' # Void => pool' = pool /\ pool # c
  <1>1. co \in [Coroutine -> Lua!CoRecord] /\ co' = [co EXCEPT ![c] = as]
    BY DEF Lua!SessionInv, Lua!SessionTypeOK, Lua!CoCreate
  <1>2. co[c].state \in {"none", "pooled"}
    BY LuaAssumption DEF Lua!SessionInv, Lua!AtRest, Lua!CoCreate, Lua!Creatable, Lua!SessionAssumption
  <1>3. pool' # Void => pool' = pool /\ pool # c
    BY DEF Lua!CoCreate
  <1> QED BY <1>1, <1>2, <1>3

LEMMA StepTimeout == Lua!SessionInv /\ Lua!Timeout => Lua!SessionInv'
  <1> SUFFICES ASSUME Lua!SessionInv, Lua!Timeout PROVE Lua!SessionInv'
    OBVIOUS
  <1> DEFINE s == lastSession + 1
  <1> DEFINE r == [state |-> "wait", session |-> s, request |-> Void]
  <1>1. PICK c \in Coroutine : Lua!CoCreate(c, r) /\ sessionCo' = Lua!Put(sessionCo, s, c)
    BY DEF Lua!Timeout
  <1>2. /\ phase = "run" /\ lastSession' = s /\ timers' = timers \cup {s}
        /\ UNCHANGED <<inbox, phase, running, coSession, sleepSession, wakeupSession, forkQueue,
                       calls, trace, replies, requests, luaFault>>
    BY DEF Lua!Timeout
  <1>3. r \in Lua!CoRecord
    BY DEF Lua!SessionInv, Lua!SessionTypeOK, Lua!CoRecord, Lua!CoState
  <1>4. /\ co' = [co EXCEPT ![c] = r] /\ co' \in [Coroutine -> Lua!CoRecord]
        /\ co[c].state \in {"none", "pooled"}
        /\ pool' # Void => pool' = pool /\ pool # c
    BY <1>1, <1>3, FreshCoroutine
  <1>5. Lua!SessionTypeOK'
    BY <1>2, <1>4 DEF Lua!SessionInv, Lua!SessionTypeOK
  <1>6. Lua!OneRuns' /\ Lua!AtRest'
    BY <1>2, <1>4 DEF Lua!SessionInv, Lua!OneRuns, Lua!AtRest, Lua!SessionTypeOK
  <1>7. DOMAIN sessionCo' = DOMAIN sessionCo \cup {s} /\ DOMAIN sessionCo \subseteq 1 .. lastSession
    BY <1>1 DEF Lua!SessionInv, Lua!Outstanding, Lua!Put
  <1>8. Lua!Outstanding'
    <2>2. s \notin DOMAIN sessionCo /\ s \notin calls /\ s \notin timers /\ lastSession \in Nat
      BY <1>7 DEF Lua!SessionInv, Lua!SessionTypeOK
    <2>3. \A i \in 1 .. Len(inbox) : inbox[i].type = "response" =>
            inbox[i].session \in DOMAIN sessionCo /\ inbox[i].session \in 1 .. lastSession
      BY <1>7 DEF Lua!SessionInv, Lua!Outstanding
    <2> QED BY <1>2, <1>7, <2>2, <2>3 DEF Lua!SessionInv, Lua!Outstanding, Lua!Response
  <1>9. Lua!Waiters'
    BY <1>1, <1>2, <1>4, LuaAssumption
       DEF Lua!SessionInv, Lua!Waiters, Lua!Outstanding, Lua!SessionTypeOK, Lua!Put, Lua!SessionAssumption, Lua!Break
  <1>10. Lua!Sleepers'
    BY <1>2, <1>4 DEF Lua!SessionInv, Lua!Sleepers
  <1>11. Lua!OwnRequest'
    BY <1>2, <1>4 DEF Lua!SessionInv, Lua!OwnRequest, Lua!RepliesToOwnRequest
  <1> QED BY <1>5, <1>6, <1>8, <1>9, <1>10, <1>11 DEF Lua!SessionInv

LEMMA StepFork == Lua!SessionInv /\ Lua!Fork => Lua!SessionInv'
  <1> SUFFICES ASSUME Lua!SessionInv, Lua!Fork PROVE Lua!SessionInv'
    OBVIOUS
  <1> DEFINE r == [state |-> "forked", session |-> Void, request |-> Void]
  <1>1. PICK c \in Coroutine : Lua!CoCreate(c, r) /\ forkQueue' = Append(forkQueue, c)
    BY DEF Lua!Fork
  <1>2. /\ phase = "run"
        /\ UNCHANGED <<inbox, phase, running, sessionCo, coSession, sleepSession, wakeupSession,
                       lastSession, calls, timers, trace, replies, requests, luaFault>>
    BY DEF Lua!Fork
  <1>3. r \in Lua!CoRecord
    BY DEF Lua!CoRecord, Lua!CoState
  <1>4. /\ co' = [co EXCEPT ![c] = r] /\ co' \in [Coroutine -> Lua!CoRecord]
        /\ co[c].state \in {"none", "pooled"}
        /\ pool' # Void => pool' = pool /\ pool # c
    BY <1>1, <1>3, FreshCoroutine
  <1>5. Lua!SessionTypeOK'
    BY <1>1, <1>2, <1>4 DEF Lua!SessionInv, Lua!SessionTypeOK
  <1>6. Lua!OneRuns'
    BY <1>2, <1>4 DEF Lua!SessionInv, Lua!OneRuns, Lua!SessionTypeOK
  <1>7. Lua!AtRest'
    <2>1. forkQueue \in Seq(Coroutine) /\ Len(forkQueue) \in Nat
      BY DEF Lua!SessionInv, Lua!SessionTypeOK
    <2>2. /\ Len(forkQueue') = Len(forkQueue) + 1 /\ forkQueue'[Len(forkQueue) + 1] = c
          /\ \A i \in 1 .. Len(forkQueue) : forkQueue'[i] = forkQueue[i] /\ forkQueue[i] \in Coroutine
      BY <1>1, <2>1
    <2>3. \A i \in 1 .. Len(forkQueue) : forkQueue[i] # c /\ co'[forkQueue[i]].state = "forked"
      BY <1>4, <2>2 DEF Lua!SessionInv, Lua!AtRest
    <2>4. pool' # Void => pool' \in Coroutine /\ co'[pool'].state = "pooled"
      BY <1>4 DEF Lua!SessionInv, Lua!AtRest, Lua!SessionTypeOK
    <2>5. ASSUME NEW i \in 1 .. Len(forkQueue') PROVE co'[forkQueue'[i]].state = "forked"
      BY <1>4, <2>1, <2>2, <2>3 DEF Lua!SessionInv, Lua!SessionTypeOK
    <2>6. ASSUME NEW i \in 1 .. Len(forkQueue'), NEW j \in 1 .. Len(forkQueue'),
                 forkQueue'[i] = forkQueue'[j]
          PROVE  i = j
      BY <2>1, <2>2, <2>3, <2>6 DEF Lua!SessionInv, Lua!AtRest
    <2> QED BY <2>4, <2>5, <2>6 DEF Lua!AtRest
  <1>8. Lua!Outstanding'
    BY <1>2 DEF Lua!SessionInv, Lua!Outstanding, Lua!Response
  <1>9. Lua!Waiters'
    BY <1>2, <1>4 DEF Lua!SessionInv, Lua!Waiters
  <1>10. Lua!Sleepers'
    BY <1>2, <1>4 DEF Lua!SessionInv, Lua!Sleepers
  <1>11. Lua!OwnRequest'
    BY <1>2, <1>4 DEF Lua!SessionInv, Lua!OwnRequest, Lua!RepliesToOwnRequest
  <1> QED BY <1>5, <1>6, <1>7, <1>8, <1>9, <1>10, <1>11 DEF Lua!SessionInv

(* Wakeup and Trace concern neither coroutines nor sessions.               *)
LEMMA StepWakeup == Lua!SessionInv /\ Lua!Wakeup => Lua!SessionInv'
  <1> SUFFICES ASSUME Lua!SessionInv, Lua!Wakeup PROVE Lua!SessionInv'
    OBVIOUS
  <1>1. wakeupSession' \subseteq Coroutine
    BY DEF Lua!Wakeup, Lua!SessionInv, Lua!SessionTypeOK, Lua!Sleepers
  <1>2. Lua!SessionTypeOK'
    BY <1>1 DEF Lua!Wakeup, Lua!SessionInv, Lua!SessionTypeOK
  <1> QED BY <1>2 DEF Lua!Wakeup, Lua!SessionInv, Lua!OneRuns, Lua!AtRest, Lua!Outstanding, Lua!Response, Lua!Waiters, Lua!Sleepers,
                      Lua!OwnRequest, Lua!RepliesToOwnRequest

LEMMA StepTrace == Lua!SessionInv /\ Lua!Trace => Lua!SessionInv'
  <1> SUFFICES ASSUME Lua!SessionInv, Lua!Trace PROVE Lua!SessionInv'
    OBVIOUS
  <1>1. Lua!SessionTypeOK'
    BY DEF Lua!Trace, Lua!SessionInv, Lua!SessionTypeOK
  <1>2. Lua!OneRuns'
    BY DEF Lua!Trace, Lua!SessionInv, Lua!OneRuns
  <1> QED BY <1>1, <1>2 DEF Lua!Trace, Lua!SessionInv, Lua!AtRest, Lua!Outstanding, Lua!Response, Lua!Waiters, Lua!Sleepers,
                      Lua!OwnRequest, Lua!RepliesToOwnRequest

(* A coroutine dies: it is neither in the pool nor waited for.             *)
LEMMA RunningDies ==
    ASSUME Lua!SessionInv, phase = "run", Lua!Fails,
           UNCHANGED <<inbox, pool, sessionCo, coSession, sleepSession, wakeupSession, forkQueue,
                       lastSession, calls, timers, replies, requests, luaFault>>
    PROVE  Lua!SessionInv'
  <1>1. /\ running \in Coroutine /\ co[running].state = "run"
        /\ co' = [co EXCEPT ![running] = [co[running] EXCEPT !.state = "dead"]]
        /\ trace'.current = Void /\ phase' = "idle"
    BY DEF Lua!SessionInv, Lua!OneRuns, Lua!Fails, Lua!TraceCount
  <1>2. Lua!SessionTypeOK'
    <2>1. [co[running] EXCEPT !.state = "dead"] \in Lua!CoRecord
      <3>1. co[running] \in Lua!CoRecord /\ "dead" \in Lua!CoState
        BY <1>1 DEF Lua!SessionInv, Lua!SessionTypeOK, Lua!CoState
      <3> QED BY <3>1, Records
    <2> QED BY <1>1, <2>1 DEF Lua!SessionInv, Lua!SessionTypeOK
  <1>3. Lua!OneRuns' /\ Lua!AtRest'
    BY <1>1 DEF Lua!SessionInv, Lua!OneRuns, Lua!AtRest, Lua!SessionTypeOK
  <1>4. Lua!Outstanding'
    BY DEF Lua!SessionInv, Lua!Outstanding, Lua!Response
  <1>5. Lua!Waiters' /\ Lua!Sleepers'
    BY <1>1 DEF Lua!SessionInv, Lua!Waiters, Lua!Sleepers, Lua!SessionTypeOK
  <1>6. Lua!OwnRequest'
    BY <1>1 DEF Lua!SessionInv, Lua!OwnRequest, Lua!RepliesToOwnRequest, Lua!SessionTypeOK
  <1> QED BY <1>2, <1>3, <1>4, <1>5, <1>6 DEF Lua!SessionInv

LEMMA StepError == Lua!SessionInv /\ Lua!Error => Lua!SessionInv'
  <1> SUFFICES ASSUME Lua!SessionInv, Lua!Error PROVE Lua!SessionInv'
    OBVIOUS
  <1> QED BY RunningDies DEF Lua!Error, Lua!SessionInv

LEMMA StepRet == Lua!SessionInv /\ Lua!Ret => Lua!SessionInv'
  <1> SUFFICES ASSUME Lua!SessionInv, Lua!Ret PROVE Lua!SessionInv'
    OBVIOUS
  <1>2. CASE running \notin DOMAIN coSession
    BY <1>2, RunningDies DEF Lua!Ret
  <1>3. CASE running \in DOMAIN coSession
    <2> DEFINE reply == [to |-> coSession[running], by |-> co[running].request]
    <2>1. /\ replies' = Append(replies, reply) /\ phase = "run" /\ running \in Coroutine
          /\ UNCHANGED <<inbox, phase, running, co, pool, sessionCo, coSession, sleepSession,
                         wakeupSession, forkQueue, lastSession, requests, calls, timers, luaFault>>
      BY <1>3 DEF Lua!Ret, Lua!SessionInv, Lua!OneRuns
    <2>2. co[running] \in Lua!CoRecord /\ reply.to = reply.by
      BY <1>3, <2>1 DEF Lua!SessionInv, Lua!SessionTypeOK, Lua!OwnRequest
    <2>3. reply \in [to : Int \cup {Void}, by : Int \cup {Void}]
      BY <2>2 DEF Lua!CoRecord
    <2>4. Lua!SessionTypeOK'
      BY <2>1, <2>3 DEF Lua!SessionInv, Lua!SessionTypeOK
    <2>5. Lua!RepliesToOwnRequest'
      BY <2>1, <2>2, <2>3 DEF Lua!SessionInv, Lua!SessionTypeOK, Lua!OwnRequest, Lua!RepliesToOwnRequest
    <2> QED BY <2>1, <2>4, <2>5
            DEF Lua!SessionInv, Lua!OneRuns, Lua!AtRest, Lua!Outstanding, Lua!Response, Lua!Waiters, Lua!Sleepers, Lua!OwnRequest
  <1> QED BY <1>2, <1>3

LEMMA StepExit == Lua!SessionInv /\ Lua!Exit => Lua!SessionInv'
  <1> SUFFICES ASSUME Lua!SessionInv, Lua!Exit PROVE Lua!SessionInv'
    OBVIOUS
  <1> DEFINE r == [state |-> "pooled", session |-> Void, request |-> Void]
  <1>1. /\ running \in Coroutine /\ co[running].state = "run"
        /\ co' = [c \in Coroutine |-> IF c = running THEN r
                                      ELSE IF c = pool THEN [co[c] EXCEPT !.state = "dead"] ELSE co[c]]
        /\ pool' = running /\ coSession' = Lua!Drop(coSession, running)
        /\ trace'.current = Void /\ phase' = "wake"
        /\ UNCHANGED <<inbox, sessionCo, sleepSession, wakeupSession, forkQueue, lastSession, calls,
                       timers, replies, requests, luaFault>>
    BY DEF Lua!Exit, Lua!Cleared, Lua!Suspended, Lua!TraceCount, Lua!SessionInv, Lua!OneRuns
  <1>2. co' \in [Coroutine -> Lua!CoRecord]
    <2>1. r \in Lua!CoRecord /\ "dead" \in Lua!CoState
      BY DEF Lua!CoRecord, Lua!CoState
    <2>2. \A c \in Coroutine : co[c] \in Lua!CoRecord /\ [co[c] EXCEPT !.state = "dead"] \in Lua!CoRecord
      BY <2>1, Records DEF Lua!SessionInv, Lua!SessionTypeOK
    <2> QED BY <1>1, <2>1, <2>2
  <1>3. \A c \in Coroutine : /\ co[c] \in Lua!CoRecord
                             /\ co'[c] = co[c] \/ c = running \/ (c = pool /\ co[c].state = "pooled"
                                   /\ co'[c].state = "dead")
    BY <1>1, LuaAssumption DEF Lua!SessionInv, Lua!SessionTypeOK, Lua!AtRest, Lua!CoRecord, Lua!SessionAssumption
  <1>4. co'[running].state = "pooled" /\ running # Void
    BY <1>1, LuaAssumption DEF Lua!SessionAssumption
  <1>5. Lua!SessionTypeOK'
    BY <1>1, <1>2 DEF Lua!SessionInv, Lua!SessionTypeOK
  <1>6. Lua!OneRuns'
    BY <1>1 DEF Lua!SessionInv, Lua!OneRuns
  <1>7. Lua!AtRest'
    <2>1. forkQueue \in Seq(Coroutine)
      BY DEF Lua!SessionInv, Lua!SessionTypeOK
    <2>2. \A i \in 1 .. Len(forkQueue) :
            forkQueue[i] \in Coroutine /\ co[forkQueue[i]].state = "forked"
      BY <2>1 DEF Lua!SessionInv, Lua!AtRest
    <2>3. \A i \in 1 .. Len(forkQueue) : co'[forkQueue[i]] = co[forkQueue[i]]
      BY <1>1, <1>3, <2>2
    <2> QED BY <1>1, <1>4, <2>2, <2>3 DEF Lua!SessionInv, Lua!AtRest
  <1>8. Lua!Outstanding'
    BY <1>1 DEF Lua!SessionInv, Lua!Outstanding, Lua!Response
  <1>9. \A c \in Coroutine : co[c].state = "wait" \/ co'[c].state = "wait" => co'[c] = co[c]
    BY <1>1, <1>3, <1>4
  <1>10. Lua!Waiters' /\ Lua!Sleepers'
    <2>1. Lua!Waiters /\ Lua!Sleepers
      BY DEF Lua!SessionInv
    <2>2. Lua!Waiters'
      BY <1>1, <1>9, <2>1 DEF Lua!Waiters
    <2>3. Lua!Sleepers'
      BY <1>1, <1>9, <2>1 DEF Lua!Sleepers
    <2> QED BY <2>2, <2>3
  <1>11. Lua!OwnRequest'
    BY <1>1, <1>3 DEF Lua!SessionInv, Lua!OwnRequest, Lua!RepliesToOwnRequest, Lua!Drop
  <1> QED BY <1>5, <1>6, <1>7, <1>8, <1>10, <1>11 DEF Lua!SessionInv

LEMMA StepCollect == Lua!SessionInv /\ Lua!CollectGarbage => Lua!SessionInv'
  <1> SUFFICES ASSUME Lua!SessionInv, Lua!CollectGarbage PROVE Lua!SessionInv'
    OBVIOUS
  <1>1. /\ co' = [c \in Coroutine |-> IF c = pool THEN [co[c] EXCEPT !.state = "dead"] ELSE co[c]]
        /\ pool' = Void /\ phase = "idle"
        /\ UNCHANGED <<inbox, phase, running, sessionCo, coSession, sleepSession, wakeupSession,
                       forkQueue, lastSession, calls, timers, trace, replies, requests, luaFault>>
    BY DEF Lua!CollectGarbage
  <1>2. Lua!SessionTypeOK'
    <2>2. "dead" \in Lua!CoState
      BY DEF Lua!CoState
    <2>3. \A c \in Coroutine : co[c] \in Lua!CoRecord /\ [co[c] EXCEPT !.state = "dead"] \in Lua!CoRecord
      BY <2>2, Records DEF Lua!SessionInv, Lua!SessionTypeOK
    <2> QED BY <1>1, <2>3 DEF Lua!SessionInv, Lua!SessionTypeOK
  <1>3. \A c \in Coroutine : co'[c] = co[c] \/ (c = pool /\ co[c].state = "pooled" /\ co'[c].state = "dead")
    <2>1. \A c \in Coroutine : co[c] \in Lua!CoRecord
      BY DEF Lua!SessionInv, Lua!SessionTypeOK
    <2> QED BY <1>1, <2>1, LuaAssumption DEF Lua!SessionInv, Lua!AtRest, Lua!CoRecord, Lua!SessionAssumption
  <1>4. Lua!OneRuns'
    BY <1>1 DEF Lua!SessionInv, Lua!OneRuns
  <1>5. Lua!AtRest'
    <2>1. forkQueue \in Seq(Coroutine)
      BY DEF Lua!SessionInv, Lua!SessionTypeOK
    <2>2. \A i \in 1 .. Len(forkQueue) :
            forkQueue[i] \in Coroutine /\ co[forkQueue[i]].state = "forked"
      BY <2>1 DEF Lua!SessionInv, Lua!AtRest
    <2>3. \A i \in 1 .. Len(forkQueue) : co'[forkQueue[i]] = co[forkQueue[i]]
      BY <1>3, <2>2
    <2> QED BY <1>1, <2>2, <2>3 DEF Lua!SessionInv, Lua!AtRest
  <1>6. Lua!Outstanding'
    BY <1>1 DEF Lua!SessionInv, Lua!Outstanding, Lua!Response
  <1>9. \A c \in Coroutine : co[c].state = "wait" \/ co'[c].state = "wait" => co'[c] = co[c]
    BY <1>3
  <1>7. Lua!Waiters' /\ Lua!Sleepers'
    <2>1. Lua!Waiters /\ Lua!Sleepers
      BY DEF Lua!SessionInv
    <2>2. Lua!Waiters'
      BY <1>1, <1>9, <2>1 DEF Lua!Waiters
    <2>3. Lua!Sleepers'
      BY <1>1, <1>9, <2>1 DEF Lua!Sleepers
    <2> QED BY <2>2, <2>3
  <1>8. Lua!OwnRequest'
    BY <1>1, <1>3 DEF Lua!SessionInv, Lua!OwnRequest, Lua!RepliesToOwnRequest
  <1> QED BY <1>2, <1>4, <1>5, <1>6, <1>7, <1>8 DEF Lua!SessionInv

(* A coroutine goes on: its session has no entry any more, or one that     *)
(* says that the sleep was broken.                                         *)
LEMMA Resumes ==
    ASSUME Lua!SessionInv, NEW c \in Coroutine, co[c].state = "wait", Lua!GoesOn(c),
           UNCHANGED <<pool, coSession, forkQueue, calls, replies, requests>>, ~luaFault',
           \A s \in DOMAIN sessionCo' :
              \/ sessionCo'[s] = Lua!Break /\ s \notin calls
              \/ s \in DOMAIN sessionCo /\ sessionCo'[s] = sessionCo[s] /\ s # co[c].session,
           \A s \in DOMAIN sessionCo \ {co[c].session} : s \in DOMAIN sessionCo' /\ sessionCo'[s] = sessionCo[s]
    PROVE  /\ co' \in [Coroutine -> Lua!CoRecord]
           /\ Lua!OneRuns' /\ Lua!AtRest' /\ Lua!Waiters' /\ Lua!Sleepers' /\ Lua!OwnRequest'
  <1>1. /\ co' = [co EXCEPT ![c] = [co[c] EXCEPT !.state = "run", !.session = Void]]
        /\ sleepSession' = Lua!Drop(sleepSession, c)
        /\ running' = c /\ phase' = "run"
        /\ co \in [Coroutine -> Lua!CoRecord]
    BY DEF Lua!GoesOn, Lua!Resumed, Lua!SessionInv, Lua!SessionTypeOK
  <1>2. co' \in [Coroutine -> Lua!CoRecord]
    <2>1. co[c] \in Lua!CoRecord /\ "run" \in Lua!CoState
      BY <1>1 DEF Lua!CoState
    <2>2. [co[c] EXCEPT !.state = "run", !.session = Void] \in Lua!CoRecord
      BY <2>1, Records
    <2> QED BY <1>1, <2>2
  <1>3. /\ co'[c].state = "run" /\ co'[c].request = co[c].request
        /\ \A d \in Coroutine \ {c} : co'[d] = co[d]
    BY <1>1 DEF Lua!CoRecord
  <1>4. Lua!OneRuns'
    BY <1>1, <1>3 DEF Lua!OneRuns
  <1>5. Lua!AtRest'
    <2>1. forkQueue \in Seq(Coroutine)
      BY DEF Lua!SessionInv, Lua!SessionTypeOK
    <2>2. \A i \in 1 .. Len(forkQueue) :
            forkQueue[i] \in Coroutine \ {c} /\ co[forkQueue[i]].state = "forked"
      BY <2>1 DEF Lua!SessionInv, Lua!AtRest
    <2>3. pool # Void => pool \in Coroutine \ {c} /\ co[pool].state = "pooled"
      BY DEF Lua!SessionInv, Lua!AtRest
    <2> QED BY <1>3, <2>2, <2>3 DEF Lua!SessionInv, Lua!AtRest
  <1>6. Lua!Waiters'
    <2>1. Lua!Waiters
      BY DEF Lua!SessionInv
    <2>2. ASSUME NEW s \in DOMAIN sessionCo'
          PROVE  /\ sessionCo'[s] \in Coroutine \cup {Lua!Break}
                 /\ sessionCo'[s] = Lua!Break => s \notin calls'
                 /\ sessionCo'[s] # Lua!Break => co'[sessionCo'[s]].state = "wait" /\ co'[sessionCo'[s]].session = s
      <3>1. CASE sessionCo'[s] = Lua!Break /\ s \notin calls
        BY <3>1
      <3>2. CASE s \in DOMAIN sessionCo /\ sessionCo'[s] = sessionCo[s] /\ s # co[c].session
        <4>1. sessionCo[s] # c \/ sessionCo[s] = Lua!Break
          BY <2>1, <3>2 DEF Lua!Waiters
        <4> QED BY <1>3, <2>1, <3>2, <4>1 DEF Lua!Waiters
      <3> QED BY <3>1, <3>2
    <2>3. ASSUME NEW d \in Coroutine, co'[d].state = "wait"
          PROVE  co'[d].session \in DOMAIN sessionCo' /\ sessionCo'[co'[d].session] = d
      <3>1. d # c /\ co'[d] = co[d]
        BY <1>3, <2>3
      <3>2. co[d].session \in DOMAIN sessionCo /\ sessionCo[co[d].session] = d
            /\ sessionCo[co[c].session] = c
        BY <2>1, <2>3, <3>1 DEF Lua!Waiters
      <3> QED BY <3>1, <3>2
    <2> QED BY <2>2, <2>3 DEF Lua!Waiters
  <1>7. Lua!Sleepers'
    BY <1>1, <1>3 DEF Lua!SessionInv, Lua!Sleepers, Lua!Drop
  <1>8. Lua!OwnRequest'
    BY <1>3 DEF Lua!SessionInv, Lua!OwnRequest, Lua!RepliesToOwnRequest
  <1> QED BY <1>2, <1>4, <1>5, <1>6, <1>7, <1>8

LEMMA StepDispatchWakeup == Lua!SessionInv /\ Lua!DispatchWakeup => Lua!SessionInv'
  <1> SUFFICES ASSUME Lua!SessionInv, Lua!DispatchWakeup PROVE Lua!SessionInv'
    OBVIOUS
  <1>1. /\ phase = "wake" /\ ~luaFault /\ trace.current = Void
        /\ UNCHANGED <<inbox, pool, coSession, forkQueue, lastSession, calls, timers, replies, requests>>
    BY DEF Lua!DispatchWakeup, Lua!SessionInv, Lua!OneRuns
  <1>2. wakeupSession' \subseteq Coroutine
    BY DEF Lua!DispatchWakeup, Lua!SessionInv, Lua!SessionTypeOK
  <1>3. CASE phase' = "fork" /\ UNCHANGED <<running, co, sessionCo, sleepSession, trace, luaFault>>
    <2>1. Lua!SessionTypeOK'
      BY <1>1, <1>2, <1>3 DEF Lua!SessionInv, Lua!SessionTypeOK
    <2>2. Lua!OneRuns'
      BY <1>1, <1>3 DEF Lua!SessionInv, Lua!OneRuns
    <2> QED BY <1>1, <1>3, <2>1, <2>2 DEF Lua!SessionInv, Lua!AtRest, Lua!Outstanding, Lua!Response, Lua!Waiters,
                                          Lua!Sleepers, Lua!OwnRequest, Lua!RepliesToOwnRequest
  <1>4. ASSUME NEW c \in DOMAIN sleepSession, Lua!Broken(c), Lua!GoesOn(c),
               luaFault' = (luaFault \/ trace.current # Void)
        PROVE  Lua!SessionInv'
    <2>1. /\ c \in Coroutine /\ co[c].state = "wait" /\ co[c].session = sleepSession[c]
          /\ sleepSession[c] \notin calls /\ sleepSession[c] \in DOMAIN sessionCo
      BY DEF Lua!SessionInv, Lua!Sleepers, Lua!Waiters
    <2>2. /\ DOMAIN sessionCo' = DOMAIN sessionCo
          /\ \A s \in DOMAIN sessionCo : sessionCo'[s] = IF s = sleepSession[c] THEN Lua!Break ELSE sessionCo[s]
      BY <1>4, <2>1 DEF Lua!Broken, Lua!Put
    <2>3. /\ co' \in [Coroutine -> Lua!CoRecord]
          /\ Lua!OneRuns' /\ Lua!AtRest' /\ Lua!Waiters' /\ Lua!Sleepers' /\ Lua!OwnRequest'
      BY <1>1, <1>4, <2>1, <2>2, Resumes
    <2>4. Lua!SessionTypeOK'
      BY <1>1, <1>2, <2>3 DEF Lua!SessionInv, Lua!SessionTypeOK
    <2>5. Lua!Outstanding'
      BY <1>1, <2>2 DEF Lua!SessionInv, Lua!Outstanding, Lua!Response
    <2> QED BY <2>3, <2>4, <2>5 DEF Lua!SessionInv
  <1> QED BY <1>3, <1>4 DEF Lua!DispatchWakeup

LEMMA StepDispatchFork == Lua!SessionInv /\ Lua!DispatchFork => Lua!SessionInv'
  <1> SUFFICES ASSUME Lua!SessionInv, Lua!DispatchFork PROVE Lua!SessionInv'
    OBVIOUS
  <1>1. /\ phase = "fork" /\ ~luaFault /\ trace.current = Void
        /\ UNCHANGED <<inbox, pool, sessionCo, coSession, sleepSession, wakeupSession, lastSession,
                       calls, timers, trace, replies, requests, luaFault>>
    BY DEF Lua!DispatchFork, Lua!SessionInv, Lua!OneRuns
  <1>2. CASE forkQueue = <<>>
    <2>1. phase' = "idle" /\ UNCHANGED <<running, co, forkQueue>>
      BY <1>2 DEF Lua!DispatchFork
    <2>2. Lua!SessionTypeOK'
      BY <1>1, <2>1 DEF Lua!SessionInv, Lua!SessionTypeOK
    <2>3. Lua!OneRuns'
      BY <1>1, <2>1 DEF Lua!SessionInv, Lua!OneRuns
    <2> QED BY <1>1, <2>1, <2>2, <2>3 DEF Lua!SessionInv, Lua!AtRest, Lua!Outstanding, Lua!Response, Lua!Waiters,
                                          Lua!Sleepers, Lua!OwnRequest, Lua!RepliesToOwnRequest
  <1>3. CASE forkQueue # <<>>
    <2> DEFINE c == Head(forkQueue)
    <2>1. /\ forkQueue' = Tail(forkQueue) /\ running' = c /\ phase' = "run"
          /\ co' = [co EXCEPT ![c] = [co[c] EXCEPT !.state = "run"]]
      BY <1>3 DEF Lua!DispatchFork, Lua!Resumed
    <2>2. forkQueue \in Seq(Coroutine) /\ co \in [Coroutine -> Lua!CoRecord]
      BY DEF Lua!SessionInv, Lua!SessionTypeOK
    <2>3. /\ c \in Coroutine /\ c = forkQueue[1] /\ forkQueue' \in Seq(Coroutine)
          /\ Len(forkQueue) \in Nat \ {0} /\ Len(forkQueue') = Len(forkQueue) - 1
          /\ \A i \in 1 .. Len(forkQueue') : forkQueue'[i] = forkQueue[i + 1] /\ forkQueue'[i] \in Coroutine
      BY <1>3, <2>1, <2>2
    <2>4. co[c].state = "forked"
      BY <2>3 DEF Lua!SessionInv, Lua!AtRest
    <2>5. [co[c] EXCEPT !.state = "run"] \in Lua!CoRecord
      <3>1. co[c] \in Lua!CoRecord /\ "run" \in Lua!CoState
        BY <2>2, <2>3 DEF Lua!CoState
      <3> QED BY <3>1, Records
    <2>6. Lua!SessionTypeOK'
      BY <1>1, <2>1, <2>3, <2>5 DEF Lua!SessionInv, Lua!SessionTypeOK
    <2>7. co'[c].state = "run" /\ \A d \in Coroutine \ {c} : co'[d] = co[d]
      BY <2>1, <2>2, <2>3 DEF Lua!CoRecord
    <2>8. Lua!OneRuns'
      BY <1>1, <2>1, <2>3, <2>7 DEF Lua!OneRuns
    <2>9. Lua!AtRest'
      <3>1. \A i \in 1 .. Len(forkQueue') : forkQueue[i + 1] # c /\ co[forkQueue[i + 1]].state = "forked"
        BY <2>3 DEF Lua!SessionInv, Lua!AtRest
      <3>2. \A i \in 1 .. Len(forkQueue') : co'[forkQueue'[i]].state = "forked"
        BY <2>3, <2>7, <3>1
      <3>3. \A i, j \in 1 .. Len(forkQueue') : forkQueue'[i] = forkQueue'[j] => i = j
        BY <2>3 DEF Lua!SessionInv, Lua!AtRest
      <3>4. pool' # Void => pool' \in Coroutine /\ co'[pool'].state = "pooled"
        BY <1>1, <2>4, <2>7 DEF Lua!SessionInv, Lua!AtRest
      <3> QED BY <3>2, <3>3, <3>4 DEF Lua!AtRest
    <2>10. Lua!Outstanding'
      BY <1>1 DEF Lua!SessionInv, Lua!Outstanding, Lua!Response
    <2>11. Lua!Waiters'
      BY <1>1, <2>4, <2>7 DEF Lua!SessionInv, Lua!Waiters
    <2>12. Lua!Sleepers'
      BY <1>1, <2>4, <2>7 DEF Lua!SessionInv, Lua!Sleepers
    <2>13. Lua!OwnRequest'
      BY <1>1, <2>4, <2>7 DEF Lua!SessionInv, Lua!OwnRequest, Lua!RepliesToOwnRequest
    <2> QED BY <2>6, <2>8, <2>9, <2>10, <2>11, <2>12, <2>13 DEF Lua!SessionInv
  <1> QED BY <1>2, <1>3

(* What Head and Tail say of the mailbox.                                  *)
LEMMA InboxTail ==
    ASSUME Lua!SessionInv, inbox # <<>>, inbox' = Tail(inbox)
    PROVE  /\ inbox' \in Seq(Lua!Message) /\ Head(inbox) = inbox[1] /\ Head(inbox) \in Lua!Message
           /\ Len(inbox) \in Nat \ {0} /\ Len(inbox') = Len(inbox) - 1
           /\ \A i \in 1 .. Len(inbox') : inbox'[i] = inbox[i + 1]
  BY DEF Lua!SessionInv, Lua!SessionTypeOK

LEMMA StepDispatchResponse == Lua!SessionInv /\ Lua!DispatchResponse => Lua!SessionInv'
  <1> SUFFICES ASSUME Lua!SessionInv, Lua!DispatchResponse PROVE Lua!SessionInv'
    OBVIOUS
  <1> DEFINE s == Head(inbox).session
  <1>1. /\ phase = "idle" /\ ~luaFault /\ trace.current = Void
        /\ inbox # <<>> /\ Head(inbox).type = "response" /\ inbox' = Tail(inbox)
        /\ sessionCo' = Lua!Drop(sessionCo, s)
        /\ UNCHANGED <<pool, coSession, wakeupSession, forkQueue, lastSession, calls, timers, replies, requests>>
    BY DEF Lua!DispatchResponse, Lua!SessionInv, Lua!OneRuns
  <1>2. /\ inbox' \in Seq(Lua!Message) /\ Head(inbox) = inbox[1] /\ Head(inbox) \in Lua!Message
        /\ Len(inbox) \in Nat \ {0} /\ Len(inbox') = Len(inbox) - 1
        /\ \A i \in 1 .. Len(inbox') : inbox'[i] = inbox[i + 1]
    BY <1>1, InboxTail
  <1>3. s \in DOMAIN sessionCo \ (calls \cup timers) /\ s \in 1 .. lastSession
    BY <1>1, <1>2 DEF Lua!SessionInv, Lua!Outstanding
  <1>4. Lua!Entry(sessionCo, s) = sessionCo[s] /\ sessionCo[s] \in Coroutine \cup {Lua!Break} /\ sessionCo[s] # Void
    BY <1>3, LuaAssumption DEF Lua!Entry, Lua!SessionInv, Lua!Waiters, Lua!SessionAssumption
  <1>5. /\ DOMAIN sessionCo' = DOMAIN sessionCo \ {s}
        /\ \A r \in DOMAIN sessionCo' : sessionCo'[r] = sessionCo[r]
    BY <1>1 DEF Lua!Drop
  <1>6. Lua!Outstanding'
    <2>1. \A i \in 1 .. Len(inbox') : i + 1 \in 1 .. Len(inbox) /\ ~Lua!Response(i + 1, s)
      BY <1>1, <1>2, <1>3 DEF Lua!SessionInv, Lua!Outstanding, Lua!Response
    <2>2. \A i \in 1 .. Len(inbox') : inbox'[i].type = "response" =>
             inbox'[i].session \in DOMAIN sessionCo' \ (calls' \cup timers')
      BY <1>1, <1>2, <1>5, <2>1 DEF Lua!SessionInv, Lua!Outstanding, Lua!Response
    <2>3. \A i, j \in 1 .. Len(inbox') : \A r \in 1 .. lastSession' :
             Lua!Response(i, r)' /\ Lua!Response(j, r)' => i = j
      BY <1>1, <1>2, <2>1 DEF Lua!SessionInv, Lua!Outstanding, Lua!Response
    <2>4. ASSUME NEW r \in DOMAIN sessionCo'
          PROVE  r \in calls' \cup timers' \/ \E i \in 1 .. Len(inbox') : Lua!Response(i, r)'
      <3>1. CASE r \in calls \cup timers
        BY <1>1, <3>1
      <3>2. ASSUME NEW j \in 1 .. Len(inbox), Lua!Response(j, r)
            PROVE  \E i \in 1 .. Len(inbox') : Lua!Response(i, r)'
        <4>1. j # 1 /\ j - 1 \in 1 .. Len(inbox')
          BY <1>2, <1>5, <3>2 DEF Lua!Response
        <4>2. inbox'[j - 1] = inbox[j]
          BY <1>2, <4>1
        <4> QED BY <3>2, <4>1, <4>2 DEF Lua!Response
      <3> QED BY <1>5, <3>1, <3>2 DEF Lua!SessionInv, Lua!Outstanding
    <2> QED BY <1>1, <1>3, <1>5, <2>2, <2>3, <2>4 DEF Lua!SessionInv, Lua!Outstanding
  <1>7. CASE sessionCo[s] = Lua!Break
    <2>1. phase' = "fork" /\ UNCHANGED <<running, co, sleepSession, trace, luaFault>>
      BY <1>4, <1>7 DEF Lua!DispatchResponse
    <2>2. Lua!SessionTypeOK'
      BY <1>1, <1>2, <2>1 DEF Lua!SessionInv, Lua!SessionTypeOK
    <2>3. Lua!OneRuns'
      BY <1>1, <2>1 DEF Lua!SessionInv, Lua!OneRuns
    <2>4. Lua!Waiters'
      <3>1. Lua!Waiters /\ Lua!Break \notin Coroutine
        BY LuaAssumption DEF Lua!SessionInv, Lua!SessionAssumption
      <3> QED BY <1>1, <1>5, <1>7, <2>1, <3>1 DEF Lua!Waiters
    <2> QED BY <1>1, <1>6, <2>1, <2>2, <2>3, <2>4
            DEF Lua!SessionInv, Lua!AtRest, Lua!Sleepers, Lua!OwnRequest, Lua!RepliesToOwnRequest
  <1>8. CASE sessionCo[s] # Lua!Break
    <2> DEFINE c == sessionCo[s]
    <2>1. Lua!GoesOn(c) /\ luaFault' = (luaFault \/ trace.current # Void)
      BY <1>4, <1>8 DEF Lua!DispatchResponse
    <2>2. c \in Coroutine /\ co[c].state = "wait" /\ co[c].session = s
      BY <1>3, <1>4, <1>8 DEF Lua!SessionInv, Lua!Waiters
    <2>3. /\ co' \in [Coroutine -> Lua!CoRecord]
          /\ Lua!OneRuns' /\ Lua!AtRest' /\ Lua!Waiters' /\ Lua!Sleepers' /\ Lua!OwnRequest'
      BY <1>1, <1>5, <2>1, <2>2, Resumes
    <2>4. Lua!SessionTypeOK'
      BY <1>1, <1>2, <2>3 DEF Lua!SessionInv, Lua!SessionTypeOK
    <2> QED BY <1>6, <2>3, <2>4 DEF Lua!SessionInv
  <1> QED BY <1>7, <1>8

(* A request leaves the mailbox: the responses stay.                       *)
LEMMA RequestLeaves ==
    ASSUME Lua!SessionInv, inbox # <<>>, Head(inbox).type = "request", inbox' = Tail(inbox),
           UNCHANGED <<sessionCo, lastSession, calls, timers>>
    PROVE  Lua!Outstanding'
  <1>1. /\ inbox' \in Seq(Lua!Message) /\ Head(inbox) = inbox[1]
        /\ Len(inbox) \in Nat \ {0} /\ Len(inbox') = Len(inbox) - 1
        /\ \A i \in 1 .. Len(inbox') : inbox'[i] = inbox[i + 1]
    BY InboxTail
  <1>2. \A i \in 1 .. Len(inbox') : inbox'[i].type = "response" =>
           inbox'[i].session \in DOMAIN sessionCo \ (calls \cup timers)
    BY <1>1 DEF Lua!SessionInv, Lua!Outstanding
  <1>3. \A i, j \in 1 .. Len(inbox') : \A r \in 1 .. lastSession :
           Lua!Response(i, r)' /\ Lua!Response(j, r)' => i = j
    BY <1>1 DEF Lua!SessionInv, Lua!Outstanding, Lua!Response
  <1>4. ASSUME NEW r \in DOMAIN sessionCo, NEW j \in 1 .. Len(inbox), Lua!Response(j, r)
        PROVE  \E i \in 1 .. Len(inbox') : Lua!Response(i, r)'
    <2>1. j # 1 /\ j - 1 \in 1 .. Len(inbox')
      BY <1>1, <1>4 DEF Lua!Response
    <2>2. inbox'[j - 1] = inbox[j]
      BY <1>1, <2>1
    <2> QED BY <1>4, <2>1, <2>2 DEF Lua!Response
  <1> QED BY <1>2, <1>3, <1>4 DEF Lua!SessionInv, Lua!Outstanding

LEMMA StepDispatchRequest == Lua!SessionInv /\ Lua!DispatchRequest => Lua!SessionInv'
  <1> SUFFICES ASSUME Lua!SessionInv, Lua!DispatchRequest PROVE Lua!SessionInv'
    OBVIOUS
  <1> DEFINE r == [state |-> "run", session |-> Void, request |-> Head(inbox).session]
  <1>1. PICK c \in Coroutine : /\ Lua!CoCreate(c, r) /\ Lua!Resumed(c)
                               /\ coSession' = Lua!Put(coSession, c, Head(inbox).session)
    BY DEF Lua!DispatchRequest
  <1>2. /\ phase = "idle" /\ inbox # <<>> /\ Head(inbox).type = "request" /\ inbox' = Tail(inbox)
        /\ UNCHANGED <<sessionCo, sleepSession, wakeupSession, forkQueue, lastSession, calls, timers,
                       trace, replies, requests, luaFault>>
    BY DEF Lua!DispatchRequest
  <1>3. inbox' \in Seq(Lua!Message) /\ Head(inbox).session \in Int
    BY <1>2, InboxTail DEF Lua!Message
  <1>4. r \in Lua!CoRecord
    BY <1>3 DEF Lua!CoRecord, Lua!CoState
  <1>5. /\ co' = [co EXCEPT ![c] = r] /\ co' \in [Coroutine -> Lua!CoRecord]
        /\ co[c].state \in {"none", "pooled"}
        /\ pool' # Void => pool' = pool /\ pool # c
    BY <1>1, <1>4, FreshCoroutine
  <1>6. co'[c] = r /\ \A d \in Coroutine \ {c} : co'[d] = co[d]
    BY <1>5 DEF Lua!SessionInv, Lua!SessionTypeOK
  <1>7. Lua!SessionTypeOK'
    BY <1>2, <1>3, <1>5 DEF Lua!SessionInv, Lua!SessionTypeOK
  <1>8. Lua!OneRuns'
    BY <1>1, <1>2, <1>6 DEF Lua!SessionInv, Lua!OneRuns, Lua!Resumed
  <1>9. Lua!AtRest'
    <2>1. \A i \in 1 .. Len(forkQueue) : forkQueue[i] \in Coroutine /\ co[forkQueue[i]].state = "forked"
      BY DEF Lua!SessionInv, Lua!AtRest, Lua!SessionTypeOK
    <2>2. \A i \in 1 .. Len(forkQueue) : co'[forkQueue[i]].state = "forked"
      BY <1>5, <1>6, <2>1
    <2> QED BY <1>2, <1>5, <1>6, <2>2 DEF Lua!SessionInv, Lua!AtRest
  <1>10. Lua!Outstanding'
    BY <1>2, RequestLeaves
  <1>11. Lua!Waiters'
    BY <1>2, <1>5, <1>6 DEF Lua!SessionInv, Lua!Waiters
  <1>12. Lua!Sleepers'
    BY <1>2, <1>5, <1>6 DEF Lua!SessionInv, Lua!Sleepers
  <1>13. Lua!OwnRequest'
    BY <1>1, <1>2, <1>5, <1>6 DEF Lua!SessionInv, Lua!OwnRequest, Lua!RepliesToOwnRequest, Lua!Put
  <1> QED BY <1>7, <1>8, <1>9, <1>10, <1>11, <1>12, <1>13 DEF Lua!SessionInv

(* What the mailbox is after a message has arrived.                        *)
LEMMA InboxAppend ==
    ASSUME Lua!SessionInv, NEW msg \in Lua!Message, inbox' = Append(inbox, msg)
    PROVE  /\ inbox' \in Seq(Lua!Message) /\ Len(inbox) \in Nat /\ Len(inbox') = Len(inbox) + 1
           /\ inbox'[Len(inbox) + 1] = msg
           /\ \A i \in 1 .. Len(inbox) : inbox'[i] = inbox[i]
  BY DEF Lua!SessionInv, Lua!SessionTypeOK

LEMMA StepRequest == Lua!SessionInv /\ Lua!Request => Lua!SessionInv'
  <1> SUFFICES ASSUME Lua!SessionInv, Lua!Request PROVE Lua!SessionInv'
    OBVIOUS
  <1> DEFINE msg == [type |-> "request", session |-> requests + 1]
  <1>1. inbox' = Append(inbox, msg) /\ requests' = requests + 1 /\ Lua!SameLua /\ UNCHANGED <<calls, timers>>
    BY DEF Lua!Request
  <1>2. msg \in Lua!Message
    BY DEF Lua!SessionInv, Lua!SessionTypeOK, Lua!Message
  <1>3. /\ inbox' \in Seq(Lua!Message) /\ Len(inbox) \in Nat /\ Len(inbox') = Len(inbox) + 1
        /\ inbox'[Len(inbox) + 1] = msg
        /\ \A i \in 1 .. Len(inbox) : inbox'[i] = inbox[i]
    BY <1>1, <1>2, InboxAppend
  <1>4. Lua!SessionTypeOK'
    BY <1>1, <1>3 DEF Lua!SameLua, Lua!SessionInv, Lua!SessionTypeOK
  <1>5. Lua!Outstanding'
    <2>1. \A i \in 1 .. Len(inbox') : inbox'[i].type = "response" => i \in 1 .. Len(inbox) /\ inbox'[i] = inbox[i]
      BY <1>3
    <2> QED BY <1>1, <1>3, <2>1 DEF Lua!SameLua, Lua!SessionInv, Lua!Outstanding, Lua!Response
  <1> QED BY <1>1, <1>4, <1>5 DEF Lua!SameLua, Lua!SessionInv, Lua!OneRuns, Lua!AtRest, Lua!Waiters, Lua!Sleepers, Lua!OwnRequest,
                                  Lua!RepliesToOwnRequest

(* A response that was due arrives.                                        *)
LEMMA Arrives ==
    ASSUME Lua!SessionInv, NEW s \in calls \cup timers,
           inbox' = Append(inbox, [type |-> "response", session |-> s]), Lua!SameLua, requests' = requests,
           calls' = calls \ {s}, timers' = timers \ {s}
    PROVE  Lua!SessionInv'
  <1> DEFINE msg == [type |-> "response", session |-> s]
  <1>1. msg \in Lua!Message /\ s \in 1 .. lastSession /\ s \in DOMAIN sessionCo
    <2>1. s \in 1 .. lastSession /\ lastSession \in Nat /\ s \in DOMAIN sessionCo
      BY DEF Lua!SessionInv, Lua!SessionTypeOK, Lua!Outstanding
    <2> QED BY <2>1 DEF Lua!Message
  <1>2. /\ inbox' \in Seq(Lua!Message) /\ Len(inbox) \in Nat /\ Len(inbox') = Len(inbox) + 1
        /\ inbox'[Len(inbox) + 1] = msg
        /\ \A i \in 1 .. Len(inbox) : inbox'[i] = inbox[i]
    BY <1>1, InboxAppend
  <1>3. Lua!SessionTypeOK'
    BY <1>2 DEF Lua!SameLua, Lua!SessionInv, Lua!SessionTypeOK
  <1>4. Lua!Outstanding'
    <2>1. \A i \in 1 .. Len(inbox) : ~Lua!Response(i, s)
      BY DEF Lua!SessionInv, Lua!Outstanding, Lua!Response
    <2>2. \A i \in 1 .. Len(inbox') : inbox'[i].type = "response" =>
             inbox'[i].session \in DOMAIN sessionCo' \ (calls' \cup timers')
      BY <1>1, <1>2 DEF Lua!SameLua, Lua!SessionInv, Lua!Outstanding
    <2>3. \A i, j \in 1 .. Len(inbox') : \A r \in 1 .. lastSession' :
             Lua!Response(i, r)' /\ Lua!Response(j, r)' => i = j
      BY <1>1, <1>2, <2>1 DEF Lua!SameLua, Lua!SessionInv, Lua!Outstanding, Lua!Response
    <2>4. ASSUME NEW r \in DOMAIN sessionCo'
          PROVE  r \in calls' \cup timers' \/ \E i \in 1 .. Len(inbox') : Lua!Response(i, r)'
      <3>1. CASE r = s
        BY <1>2, <3>1 DEF Lua!Response
      <3>2. CASE r # s /\ r \in calls \cup timers
        BY <3>2
      <3>3. ASSUME NEW i \in 1 .. Len(inbox), Lua!Response(i, r)
            PROVE  \E k \in 1 .. Len(inbox') : Lua!Response(k, r)'
        BY <1>2, <3>3 DEF Lua!Response
      <3> QED BY <3>1, <3>2, <3>3 DEF Lua!SameLua, Lua!SessionInv, Lua!Outstanding
    <2> QED BY <2>2, <2>3, <2>4 DEF Lua!SameLua, Lua!SessionInv, Lua!Outstanding
  <1>5. Lua!Waiters' /\ Lua!Sleepers'
    BY DEF Lua!SameLua, Lua!SessionInv, Lua!Waiters, Lua!Sleepers
  <1> QED BY <1>3, <1>4, <1>5 DEF Lua!SameLua, Lua!SessionInv, Lua!OneRuns, Lua!AtRest, Lua!OwnRequest, Lua!RepliesToOwnRequest

LEMMA StepArrives ==
    Lua!SessionInv /\ ((\E s \in calls : Lua!Answer(s)) \/ (\E s \in timers : Lua!Fires(s))) => Lua!SessionInv'
  <1>1. ASSUME Lua!SessionInv, NEW s \in calls, Lua!Answer(s) PROVE Lua!SessionInv'
    <2>1. calls' = calls \ {s} /\ timers' = timers \ {s} /\ requests' = requests
      BY <1>1 DEF Lua!Answer, Lua!SessionInv, Lua!Outstanding
    <2> QED BY <1>1, <2>1, Arrives DEF Lua!Answer
  <1>2. ASSUME Lua!SessionInv, NEW s \in timers, Lua!Fires(s) PROVE Lua!SessionInv'
    <2>1. calls' = calls \ {s} /\ timers' = timers \ {s} /\ requests' = requests
      BY <1>2 DEF Lua!Fires, Lua!SessionInv, Lua!Outstanding
    <2> QED BY <1>2, <2>1, Arrives DEF Lua!Fires
  <1> QED BY <1>1, <1>2

(* The instance's size of a set is that of FiniteSets.                     *)
LEMMA LuaSize == \A S : Lua!Cardinality(S) = Cardinality(S)
  BY Zenon DEF Lua!Cardinality, Cardinality

(* What AnswersMatched says follows: a response is on its way exactly once.*)
LEMMA Matched == Lua!SessionInv => Lua!AnswersMatched /\ Lua!RepliesToOwnRequest
  <1> SUFFICES ASSUME Lua!SessionInv PROVE Lua!AnswersMatched
    BY DEF Lua!SessionInv, Lua!OwnRequest
  <1>1. ~luaFault
    BY DEF Lua!SessionInv, Lua!OneRuns
  <1>2. DOMAIN inbox = 1 .. Len(inbox) /\ Len(inbox) \in Nat
    BY DEF Lua!SessionInv, Lua!SessionTypeOK
  <1>3. \A s : Lua!Arriving(s) = {i \in 1 .. Len(inbox) : Lua!Response(i, s)}
    BY <1>2 DEF Lua!Arriving, Lua!Response
  <1>4. ASSUME NEW c \in Coroutine, co[c].state = "wait"
        PROVE  /\ Lua!Entry(sessionCo, co[c].session) = c
               /\ Lua!Cardinality(Lua!Arriving(co[c].session))
                    + (IF co[c].session \in calls \cup timers THEN 1 ELSE 0) = 1
    <2> DEFINE s == co[c].session
    <2>1. s \in DOMAIN sessionCo /\ sessionCo[s] = c /\ s \in 1 .. lastSession
      BY <1>4 DEF Lua!SessionInv, Lua!Waiters, Lua!Outstanding
    <2>2. CASE s \in calls \cup timers
      <3>1. Lua!Arriving(s) = {}
        BY <1>3, <2>2 DEF Lua!SessionInv, Lua!Outstanding, Lua!Response
      <3> QED BY <2>1, <2>2, <3>1, FS_EmptySet, LuaSize DEF Lua!Entry
    <2>3. CASE s \notin calls \cup timers
      <3>1. PICK i \in 1 .. Len(inbox) : Lua!Response(i, s)
        BY <2>1, <2>3 DEF Lua!SessionInv, Lua!Outstanding
      <3>2. Lua!Arriving(s) = {i}
        BY <1>3, <2>1, <3>1 DEF Lua!SessionInv, Lua!Outstanding
      <3>3. Lua!Cardinality(Lua!Arriving(s)) = 1
        BY <3>2, FS_Singleton, LuaSize
      <3> QED BY <2>1, <2>3, <3>3 DEF Lua!Entry
    <2> QED BY <2>2, <2>3
  <1>5. ASSUME NEW s \in DOMAIN sessionCo
        PROVE  IF sessionCo[s] = Lua!Break THEN s \in timers \/ Lua!Arriving(s) # {}
               ELSE co[sessionCo[s]].state = "wait" /\ co[sessionCo[s]].session = s
    <2>1. CASE sessionCo[s] = Lua!Break
      <3>1. s \notin calls
        BY <2>1 DEF Lua!SessionInv, Lua!Waiters
      <3> QED BY <1>3, <2>1, <3>1 DEF Lua!SessionInv, Lua!Outstanding
    <2>2. CASE sessionCo[s] # Lua!Break
      BY <2>2 DEF Lua!SessionInv, Lua!Waiters
    <2> QED BY <2>1, <2>2
  <1>6. \A c \in Coroutine : co[c].state = "wait" =>
          /\ Lua!Entry(sessionCo, co[c].session) = c
          /\ Lua!Cardinality(Lua!Arriving(co[c].session))
               + (IF co[c].session \in calls \cup timers THEN 1 ELSE 0) = 1
    BY <1>4
  <1>7. \A s \in DOMAIN sessionCo :
          IF sessionCo[s] = Lua!Break THEN s \in timers \/ Lua!Arriving(s) # {}
          ELSE co[sessionCo[s]].state = "wait" /\ co[sessionCo[s]].session = s
    BY <1>5
  <1> QED BY <1>1, <1>6, <1>7 DEF Lua!AnswersMatched

LEMMA SessionStep == Lua!SessionInv /\ (Lua!LuaNext \/ UNCHANGED Lua!luaVars) => Lua!SessionInv'
  <1> SUFFICES ASSUME Lua!SessionInv, Lua!LuaNext \/ UNCHANGED Lua!luaVars PROVE Lua!SessionInv'
    OBVIOUS
  <1>1. CASE UNCHANGED Lua!luaVars
    <2>1. Lua!SessionTypeOK'
      BY <1>1 DEF Lua!luaVars, Lua!SessionInv, Lua!SessionTypeOK
    <2> QED BY <1>1, <2>1 DEF Lua!luaVars, Lua!SessionInv, Lua!OneRuns, Lua!AtRest, Lua!Outstanding, Lua!Response, Lua!Waiters,
                              Lua!Sleepers, Lua!OwnRequest, Lua!RepliesToOwnRequest
  <1>2. CASE Lua!LuaNext
    BY <1>2, StepCall, StepSleep, StepTimeout, StepFork, StepWakeup, StepTrace, StepError, StepRet,
       StepExit, StepCollect, StepDispatchWakeup, StepDispatchFork, StepDispatchResponse,
       StepDispatchRequest, StepRequest, StepArrives DEF Lua!LuaNext
  <1> QED BY <1>1, <1>2
-----------------------------------------------------------------------------
(* The buffer of a socket (SocketBuffer).                                  *)

LEMMA MovesOn ==
    ASSUME NEW s \in Seq(Int), NEW w \in Seq(Int), NEW n \in 0 .. Len(w)
    PROVE  /\ SubSeq(w, 1, n) \in Seq(Int) /\ Len(SubSeq(w, 1, n)) = n
           /\ SubSeq(w, n + 1, Len(w)) \in Seq(Int)
           /\ (s \o SubSeq(w, 1, n)) \o SubSeq(w, n + 1, Len(w)) = s \o w
  <1> DEFINE a == SubSeq(w, 1, n)
             b == SubSeq(w, n + 1, Len(w))
  <1>1. Len(w) \in Nat /\ \A i \in 1 .. Len(w) : w[i] \in Int
    BY LenProperties
  <1>2. a \in Seq(Int) /\ b \in Seq(Int) /\ Len(a) = n
    <2>1. \A i \in 1 .. n : w[i] \in Int
      BY <1>1
    <2>2. \A i \in n + 1 .. Len(w) : w[i] \in Int
      BY <1>1
    <2>3. a \in Seq(Int) /\ b \in Seq(Int)
      BY <1>1, <2>1, <2>2, SubSeqProperties
    <2>4. Len(a) = IF 1 <= n THEN n - 1 + 1 ELSE 0
      BY <1>1, <2>1, SubSeqProperties
    <2> QED BY <1>1, <2>3, <2>4
  <1>3. a \o b = SubSeq(w, 1, Len(w))
    <2>1. 1 \in 1 .. Len(w) + 1 /\ n \in 1 - 1 .. Len(w) /\ Len(w) \in n .. Len(w)
      BY <1>1
    <2> QED BY <2>1, ConcatAdjacentSubSeq
  <1>4. a \o b = w
    BY <1>3, SubSeqFull
  <1> HIDE DEF a, b
  <1>5. (s \o a) \o b = s \o (a \o b)
    BY <1>2, ConcatAssociative
  <1> QED BY <1>2, <1>4, <1>5 DEF a, b

LEMMA Joined ==
    ASSUME NEW s \in Seq(Int), NEW t \in Seq(Int)
    PROVE  /\ s \o t \in Seq(Int) /\ Len(s \o t) = Len(s) + Len(t)
           /\ Len(s) \in Nat /\ Len(t) \in Nat
           /\ \A i \in 1 .. Len(s) : (s \o t)[i] = s[i]
           /\ \A i \in 1 .. Len(t) : (s \o t)[Len(s) + i] = t[i]
  OBVIOUS

LEMMA PartOf ==
    ASSUME NEW s \in Seq(Int), NEW a \in Nat, NEW n \in Nat, a + n <= Len(s)
    PROVE  /\ SubSeq(s, a + 1, a + n) \in Seq(Int) /\ Len(SubSeq(s, a + 1, a + n)) = n
           /\ \A i \in 1 .. n : SubSeq(s, a + 1, a + n)[i] = s[a + i]
  <1>1. Len(s) \in Nat /\ \A i \in 1 .. Len(s) : s[i] \in Int
    OBVIOUS
  <1> QED BY <1>1

LEMMA CopiedBytes ==
    ASSUME NEW mem \in Seq(Int), NEW at \in Nat, NEW bytes \in Seq(Int), at + Len(bytes) <= Len(mem)
    PROVE  /\ Buffer!Copied(mem, at, bytes) \in Seq(Int) /\ Len(Buffer!Copied(mem, at, bytes)) = Len(mem)
           /\ \A i \in 1 .. at : Buffer!Copied(mem, at, bytes)[i] = mem[i]
           /\ \A i \in 1 .. Len(bytes) : Buffer!Copied(mem, at, bytes)[at + i] = bytes[i]
  <1> DEFINE new == [i \in DOMAIN mem |-> IF i > at /\ i <= at + Len(bytes) THEN bytes[i - at] ELSE mem[i]]
  <1>1. DOMAIN mem = 1 .. Len(mem) /\ Len(mem) \in Nat /\ Len(bytes) \in Nat
    OBVIOUS
  <1>2. \A i \in 1 .. Len(mem) : new[i] \in Int
    BY <1>1
  <1>3. new \in Seq(Int) /\ Len(new) = Len(mem)
    BY <1>1, <1>2
  <1>4. \A i \in 1 .. at : new[i] = mem[i]
    BY <1>1
  <1>5. ASSUME NEW i \in 1 .. Len(bytes) PROVE new[at + i] = bytes[i]
    <2>1. at + i \in DOMAIN mem /\ at + i > at /\ at + i <= at + Len(bytes) /\ at + i - at = i
      BY <1>1
    <2> QED BY <2>1
  <1> QED BY <1>3, <1>4, <1>5 DEF Buffer!Copied

(* Growing keeps the unread bytes, moving them too.                        *)
LEMMA GrownBytes ==
    ASSUME NEW old \in Seq(Int), NEW bytes \in Seq(Int)
    PROVE  LET new == Buffer!Copied(Buffer!Allocated(old, Len(old) + Len(bytes)), Len(old), bytes)
           IN  /\ new \in Seq(Int) /\ Len(new) = Len(old) + Len(bytes)
               /\ \A i \in 1 .. Len(old) : new[i] = old[i]
               /\ \A i \in 1 .. Len(bytes) : new[Len(old) + i] = bytes[i]
  <1> DEFINE zero == [i \in 1 .. Len(bytes) |-> 0]
             mem == old \o zero
  <1>1. Len(old) \in Nat /\ Len(bytes) \in Nat
    OBVIOUS
  <1>2. zero \in Seq(Int) /\ Len(zero) = Len(bytes)
    BY <1>1
  <1>3. Len(old) + Len(bytes) - Len(old) = Len(bytes)
    BY <1>1
  <1>4. Buffer!Allocated(old, Len(old) + Len(bytes)) = mem
    BY <1>3 DEF Buffer!Allocated
  <1> HIDE DEF zero
  <1>5. mem \in Seq(Int) /\ Len(mem) = Len(old) + Len(bytes) /\ \A i \in 1 .. Len(old) : mem[i] = old[i]
    BY <1>2, Joined
  <1> HIDE DEF mem
  <1> DEFINE new == Buffer!Copied(mem, Len(old), bytes)
  <1>6. Len(old) + Len(bytes) <= Len(mem)
    BY <1>1, <1>5
  <1>7. /\ new \in Seq(Int) /\ Len(new) = Len(mem)
        /\ \A i \in 1 .. Len(old) : new[i] = mem[i]
        /\ \A i \in 1 .. Len(bytes) : new[Len(old) + i] = bytes[i]
    BY <1>1, <1>5, <1>6, CopiedBytes
  <1> HIDE DEF new
  <1>8. \A i \in 1 .. Len(old) : new[i] = old[i]
    BY <1>5, <1>7
  <1> QED BY <1>4, <1>5, <1>7, <1>8 DEF new

LEMMA MovedBytes ==
    ASSUME NEW mem \in Seq(Int), NEW old \in Seq(Int), NEW bytes \in Seq(Int), Len(old) + Len(bytes) <= Len(mem)
    PROVE  LET new == Buffer!Copied(mem, 0, old \o bytes)
           IN  /\ new \in Seq(Int) /\ Len(new) = Len(mem)
               /\ \A i \in 1 .. Len(old) : new[i] = old[i]
               /\ \A i \in 1 .. Len(bytes) : new[Len(old) + i] = bytes[i]
  <1> DEFINE all == old \o bytes
             new == Buffer!Copied(mem, 0, all)
  <1>1. /\ all \in Seq(Int) /\ Len(all) = Len(old) + Len(bytes) /\ Len(old) \in Nat /\ Len(bytes) \in Nat
        /\ \A i \in 1 .. Len(old) : all[i] = old[i]
        /\ \A i \in 1 .. Len(bytes) : all[Len(old) + i] = bytes[i]
    BY Joined
  <1> HIDE DEF all
  <1>2. PICK at \in Nat : at = 0
    OBVIOUS
  <1>3. at + Len(all) <= Len(mem)
    BY <1>1, <1>2
  <1>4. /\ Buffer!Copied(mem, at, all) \in Seq(Int) /\ Len(Buffer!Copied(mem, at, all)) = Len(mem)
        /\ \A i \in 1 .. Len(all) : Buffer!Copied(mem, at, all)[at + i] = all[i]
    BY <1>1, <1>3, CopiedBytes
  <1>7. new \in Seq(Int) /\ Len(new) = Len(mem) /\ \A i \in 1 .. Len(all) : new[i] = all[i]
    BY <1>1, <1>2, <1>4
  <1> HIDE DEF new
  <1>5. ASSUME NEW i \in 1 .. Len(old) PROVE new[i] = old[i]
    <2>1. i \in 1 .. Len(all)
      BY <1>1
    <2> QED BY <1>1, <1>7, <2>1
  <1>6. ASSUME NEW i \in 1 .. Len(bytes) PROVE new[Len(old) + i] = bytes[i]
    <2>1. Len(old) + i \in 1 .. Len(all)
      BY <1>1
    <2> QED BY <1>1, <1>7, <2>1
  <1> QED BY <1>7, <1>5, <1>6 DEF new, all

LEMMA Between ==
    ASSUME NEW s \in Seq(Int), NEW a \in Nat, NEW b \in a .. Len(s)
    PROVE  /\ SubSeq(s, a + 1, b) \in Seq(Int) /\ Len(SubSeq(s, a + 1, b)) = b - a
           /\ \A i \in 1 .. b - a : SubSeq(s, a + 1, b)[i] = s[a + i]
  <1>1. PICK n \in Nat : n = b - a
    OBVIOUS
  <1>2. a + n = b /\ a + n <= Len(s)
    BY <1>1
  <1>3. /\ SubSeq(s, a + 1, a + n) \in Seq(Int) /\ Len(SubSeq(s, a + 1, a + n)) = n
        /\ \A i \in 1 .. n : SubSeq(s, a + 1, a + n)[i] = s[a + i]
    BY <1>2, PartOf
  <1> QED BY <1>1, <1>2, <1>3

LEMMA Pushed ==
    ASSUME NEW bytes \in Seq(Int)
    PROVE  Buffer!MemoryType /\ Buffer!Bounds /\ Buffer!Stored(bytes) =>
             /\ Buffer!MemoryType' /\ Buffer!Bounds'
             /\ Buffer!Unread' = Buffer!Unread \o bytes
  <1>1. ASSUME Buffer!MemoryType, Buffer!Bounds, Buffer!Stored(bytes)
        PROVE  /\ Buffer!MemoryType' /\ Buffer!Bounds'
               /\ size' - read' = Len(Buffer!Unread) + Len(bytes)
               /\ \A i \in 1 .. Len(Buffer!Unread) : memory'[read' + i] = Buffer!Unread[i]
               /\ \A i \in 1 .. Len(bytes) : memory'[read' + Len(Buffer!Unread) + i] = bytes[i]
    <2>1. /\ Buffer!Unread \in Seq(Int) /\ Len(Buffer!Unread) = size - read
          /\ \A i \in 1 .. size - read : Buffer!Unread[i] = memory[read + i]
      <3>1. memory \in Seq(Int) /\ read \in Nat /\ size \in read .. Len(memory)
        BY <1>1 DEF Buffer!MemoryType, Buffer!Bounds
      <3> QED BY <3>1, Between DEF Buffer!Unread
    <2>2. Len(Buffer!Unread) \in Nat /\ Len(bytes) \in Nat /\ Len(memory) \in Nat
      BY <1>1, <2>1 DEF Buffer!MemoryType
    <2>3. CASE Len(bytes) + (size - read) > cap /\ Buffer!Grown(bytes)
      <3>1. /\ memory' = Buffer!Copied(Buffer!Allocated(Buffer!Unread, Len(Buffer!Unread) + Len(bytes)), Len(Buffer!Unread), bytes)
            /\ cap' = (IF read = 0 THEN Len(Buffer!Unread) + Len(bytes) ELSE cap)
            /\ read' = 0 /\ size' = Len(Buffer!Unread) + Len(bytes)
        BY <2>1, <2>3 DEF Buffer!Grown
      <3>2. /\ memory' \in Seq(Int) /\ Len(memory') = Len(Buffer!Unread) + Len(bytes)
            /\ \A i \in 1 .. Len(Buffer!Unread) : memory'[i] = Buffer!Unread[i]
            /\ \A i \in 1 .. Len(bytes) : memory'[Len(Buffer!Unread) + i] = bytes[i]
        BY <2>1, <3>1, GrownBytes
      <3>3. Len(bytes) + Len(Buffer!Unread) > cap /\ cap \in Nat
        BY <1>1, <2>1, <2>3 DEF Buffer!MemoryType
      <3>4. Buffer!MemoryType' /\ Buffer!Bounds'
        BY <2>2, <3>1, <3>2, <3>3 DEF Buffer!MemoryType, Buffer!Bounds
      <3>5. size' - read' = Len(Buffer!Unread) + Len(bytes)
        BY <2>2, <3>1
      <3>6. ASSUME NEW i \in 1 .. Len(Buffer!Unread) PROVE memory'[read' + i] = Buffer!Unread[i]
        BY <2>2, <3>1, <3>2
      <3>7. ASSUME NEW i \in 1 .. Len(bytes) PROVE memory'[read' + Len(Buffer!Unread) + i] = bytes[i]
        <4>1. read' + Len(Buffer!Unread) + i = Len(Buffer!Unread) + i
          BY <2>2, <3>1
        <4> QED BY <3>2, <4>1
      <3> QED BY <3>4, <3>5, <3>6, <3>7
    <2>4. CASE Len(bytes) + (size - read) <= cap /\ size + Len(bytes) > cap /\ Buffer!Moved(bytes)
      <3>1. /\ memory' = Buffer!Copied(memory, 0, Buffer!Unread \o bytes)
            /\ cap' = cap /\ read' = 0 /\ size' = Len(Buffer!Unread) + Len(bytes)
        BY <2>1, <2>4 DEF Buffer!Moved
      <3>2. Len(Buffer!Unread) + Len(bytes) <= Len(memory) /\ memory \in Seq(Int)
        BY <1>1, <2>1, <2>2, <2>4 DEF Buffer!MemoryType, Buffer!Bounds
      <3>3. /\ memory' \in Seq(Int) /\ Len(memory') = Len(memory)
            /\ \A i \in 1 .. Len(Buffer!Unread) : memory'[i] = Buffer!Unread[i]
            /\ \A i \in 1 .. Len(bytes) : memory'[Len(Buffer!Unread) + i] = bytes[i]
        <4> DEFINE new == Buffer!Copied(memory, 0, Buffer!Unread \o bytes)
        <4>1. /\ new \in Seq(Int) /\ Len(new) = Len(memory)
              /\ \A i \in 1 .. Len(Buffer!Unread) : new[i] = Buffer!Unread[i]
              /\ \A i \in 1 .. Len(bytes) : new[Len(Buffer!Unread) + i] = bytes[i]
          BY <2>1, <3>2, MovedBytes
        <4>2. memory' = new
          BY <3>1
        <4> QED BY <4>1, <4>2
      <3>4. Buffer!MemoryType' /\ Buffer!Bounds'
        BY <1>1, <2>2, <3>1, <3>2, <3>3 DEF Buffer!MemoryType, Buffer!Bounds
      <3>5. size' - read' = Len(Buffer!Unread) + Len(bytes)
        BY <2>2, <3>1
      <3>6. ASSUME NEW i \in 1 .. Len(Buffer!Unread) PROVE memory'[read' + i] = Buffer!Unread[i]
        BY <2>2, <3>1, <3>3
      <3>7. ASSUME NEW i \in 1 .. Len(bytes) PROVE memory'[read' + Len(Buffer!Unread) + i] = bytes[i]
        <4>1. read' + Len(Buffer!Unread) + i = Len(Buffer!Unread) + i
          BY <2>2, <3>1
        <4> QED BY <3>3, <4>1
      <3> QED BY <3>4, <3>5, <3>6, <3>7
    <2>5. CASE Len(bytes) + (size - read) <= cap /\ size + Len(bytes) <= cap /\ Buffer!Added(bytes)
      <3>1. memory' = Buffer!Copied(memory, size, bytes) /\ size' = size + Len(bytes) /\ read' = read /\ cap' = cap
        BY <2>5 DEF Buffer!Added
      <3>2. size + Len(bytes) <= Len(memory) /\ memory \in Seq(Int) /\ size \in Nat /\ read \in Nat /\ cap \in Nat
        BY <1>1, <2>2, <2>5 DEF Buffer!MemoryType, Buffer!Bounds
      <3>3. /\ memory' \in Seq(Int) /\ Len(memory') = Len(memory)
            /\ \A i \in 1 .. size : memory'[i] = memory[i]
            /\ \A i \in 1 .. Len(bytes) : memory'[size + i] = bytes[i]
        <4> DEFINE new == Buffer!Copied(memory, size, bytes)
        <4>1. /\ new \in Seq(Int) /\ Len(new) = Len(memory)
              /\ \A i \in 1 .. size : new[i] = memory[i]
              /\ \A i \in 1 .. Len(bytes) : new[size + i] = bytes[i]
          BY <3>2, CopiedBytes
        <4>2. memory' = new
          BY <3>1
        <4> QED BY <4>1, <4>2
      <3>4. Buffer!MemoryType' /\ Buffer!Bounds'
        BY <1>1, <2>2, <3>1, <3>2, <3>3 DEF Buffer!MemoryType, Buffer!Bounds
      <3>5. size' - read' = Len(Buffer!Unread) + Len(bytes)
        BY <2>1, <2>2, <3>1, <3>2
      <3>6. ASSUME NEW i \in 1 .. Len(Buffer!Unread) PROVE memory'[read' + i] = Buffer!Unread[i]
        <4>1. i \in 1 .. size - read /\ read + i \in 1 .. size
          <5>1. size \in Nat /\ read \in Nat
            BY <3>2
          <5>2. i \in 1 .. size - read
            BY <2>1
          <5> QED BY <5>1, <5>2
        <4> QED BY <2>1, <3>1, <3>3, <4>1
      <3>7. ASSUME NEW i \in 1 .. Len(bytes) PROVE memory'[read' + Len(Buffer!Unread) + i] = bytes[i]
        <4>1. read' + Len(Buffer!Unread) + i = size + i
          BY <2>1, <2>2, <3>1, <3>2
        <4> QED BY <3>3, <4>1
      <3> QED BY <3>4, <3>5, <3>6, <3>7
    <2> QED BY <1>1, <2>3, <2>4, <2>5 DEF Buffer!Stored
  <1>2. ASSUME Buffer!MemoryType, Buffer!Bounds, Buffer!Stored(bytes) PROVE Buffer!Unread' = Buffer!Unread \o bytes
    <2>1. /\ Buffer!Unread \in Seq(Int) /\ Len(Buffer!Unread) \in Nat /\ Len(bytes) \in Nat
      <3>1. memory \in Seq(Int) /\ read \in Nat /\ size \in read .. Len(memory)
        BY <1>2 DEF Buffer!MemoryType, Buffer!Bounds
      <3> QED BY <3>1, Between DEF Buffer!Unread
    <2>2. /\ Buffer!MemoryType' /\ Buffer!Bounds'
          /\ size' - read' = Len(Buffer!Unread) + Len(bytes)
          /\ \A i \in 1 .. Len(Buffer!Unread) : memory'[read' + i] = Buffer!Unread[i]
          /\ \A i \in 1 .. Len(bytes) : memory'[read' + Len(Buffer!Unread) + i] = bytes[i]
      BY <1>1, <1>2
    <2>3. memory' \in Seq(Int) /\ read' \in Nat /\ size' \in read' .. Len(memory')
      BY <2>2 DEF Buffer!MemoryType, Buffer!Bounds
    <2>4. /\ Buffer!Unread' \in Seq(Int) /\ Len(Buffer!Unread') = size' - read'
          /\ \A i \in 1 .. size' - read' : Buffer!Unread'[i] = memory'[read' + i]
      BY <2>3, Between DEF Buffer!Unread
    <2> DEFINE all == Buffer!Unread \o bytes
    <2>5. /\ all \in Seq(Int) /\ Len(all) = Len(Buffer!Unread) + Len(bytes)
          /\ \A i \in 1 .. Len(Buffer!Unread) : all[i] = Buffer!Unread[i]
          /\ \A i \in 1 .. Len(bytes) : all[Len(Buffer!Unread) + i] = bytes[i]
      BY <2>1, Joined
    <2> HIDE DEF all
    <2>6. Len(Buffer!Unread') = Len(all)
      BY <2>2, <2>4, <2>5
    <2>7. ASSUME NEW i \in 1 .. Len(Buffer!Unread') PROVE Buffer!Unread'[i] = all[i]
      <3>1. Buffer!Unread'[i] = memory'[read' + i]
        BY <2>4
      <3>2. CASE i \in 1 .. Len(Buffer!Unread)
        BY <2>2, <2>5, <3>1, <3>2
      <3>3. CASE i \notin 1 .. Len(Buffer!Unread)
        <4>1. PICK j \in 1 .. Len(bytes) : i = Len(Buffer!Unread) + j
          <5>1. i - Len(Buffer!Unread) \in 1 .. Len(bytes) /\ i = Len(Buffer!Unread) + (i - Len(Buffer!Unread))
            BY <2>1, <2>2, <2>4, <3>3
          <5> QED BY <5>1
        <4>2. read' + Len(Buffer!Unread) + j = read' + i
          <5>1. read' \in Int /\ Len(Buffer!Unread) \in Int /\ j \in Int
            BY <2>1, <2>3
          <5> QED BY <4>1, <5>1
        <4> QED BY <2>2, <2>5, <3>1, <4>1, <4>2
      <3> QED BY <3>2, <3>3
    <2>8. Buffer!Unread' = all
      BY <2>4, <2>5, <2>6, <2>7, SeqEqual
    <2> QED BY <2>8 DEF all
  <1> QED BY <1>1, <1>2

LEMMA HeaderBytes ==
    ASSUME NEW h \in {2, 4}, NEW n \in Nat
    PROVE  Buffer!Header(h, n) \in Seq(Int) /\ Len(Buffer!Header(h, n)) = h
  <1>1. Base \in Nat \ {0}
    BY BufferAssumption DEF Buffer!BufferAssumption
  <1>2. ASSUME NEW z \in Nat PROVE Buffer!Head2(z) \in Seq(Int) /\ Len(Buffer!Head2(z)) = 2
    <2>1. (z \div Base) \in Int /\ (z \div Base) % Base \in Int /\ z % Base \in Int
      BY <1>1
    <2> QED BY <2>1 DEF Buffer!Head2
  <1>3. Base * Base \in Nat \ {0}
    BY <1>1
  <1>4. n \div (Base * Base) \in Nat
    BY <1>3
  <1>5. Buffer!Head4(n) \in Seq(Int) /\ Len(Buffer!Head4(n)) = 4
    <2>1. Buffer!Head2(n \div (Base * Base)) \in Seq(Int) /\ Len(Buffer!Head2(n \div (Base * Base))) = 2
      BY <1>2, <1>4
    <2>2. Buffer!Head2(n) \in Seq(Int) /\ Len(Buffer!Head2(n)) = 2
      BY <1>2
    <2> DEFINE high == Buffer!Head2(n \div (Base * Base))
               low == Buffer!Head2(n)
    <2> HIDE DEF high, low
    <2>3. high \o low \in Seq(Int) /\ Len(high \o low) = 2 + 2
      <3>1. high \in Seq(Int) /\ Len(high) = 2 /\ low \in Seq(Int) /\ Len(low) = 2
        BY <2>1, <2>2 DEF high, low
      <3>2. high \o low \in Seq(Int) /\ Len(high \o low) = Len(high) + Len(low)
        BY <3>1, Joined
      <3> QED BY <3>1, <3>2
    <2>4. Buffer!Head4(n) = high \o low
      BY DEF Buffer!Head4, high, low
    <2> QED BY <2>3, <2>4
  <1> QED BY <1>2, <1>5 DEF Buffer!Header

(* _readblock finds the length that _writeblock has written, if it fits.   *)
LEMMA Decoded ==
    ASSUME NEW h \in {2, 4}, NEW n \in Nat, n < Base * Base
    PROVE  ((IF h = 2 THEN Buffer!Header(h, n)[1] * Base + Buffer!Header(h, n)[2]
                      ELSE Buffer!Header(h, n)[3] * Base + Buffer!Header(h, n)[4]) % (Base * Base)) = n
  <1>1. Base \in Nat \ {0}
    BY BufferAssumption DEF Buffer!BufferAssumption
  <1> DEFINE q == n \div Base
             r == n % Base
  <1>2. q \in Nat /\ r \in Nat /\ n = Base * q + r
    BY <1>1
  <1> HIDE DEF q, r
  <1>3. q < Base
    <2>1. Base * q < Base * Base
      BY <1>1, <1>2
    <2>2. CASE q >= Base
      <3>1. Base * q >= Base * Base
        BY <1>1, <1>2, <2>2
      <3> QED BY <1>1, <1>2, <2>1, <3>1
    <2> QED BY <1>1, <1>2, <2>2
  <1>4. q % Base = q
    BY <1>1, <1>2, <1>3
  <1>5. (q % Base) * Base + r = n
    BY <1>1, <1>2, <1>4
  <1>6. n % (Base * Base) = n
    <2>1. Base * Base \in Nat \ {0}
      BY <1>1
    <2>2. \A b \in Nat \ {0} : n < b => n % b = n
      OBVIOUS
    <2> QED BY <2>1, <2>2
  <1>7. Buffer!Head2(n)[1] = q % Base /\ Buffer!Head2(n)[2] = r
    BY DEF Buffer!Head2, q, r
  <1>8. Buffer!Head4(n)[3] = Buffer!Head2(n)[1] /\ Buffer!Head4(n)[4] = Buffer!Head2(n)[2]
    <2>1. n \div (Base * Base) \in Nat
      <3>1. Base * Base \in Nat \ {0}
        BY <1>1
      <3> QED BY <3>1
    <2>2. \A z \in Nat : Buffer!Header(2, z) \in Seq(Int) /\ Len(Buffer!Header(2, z)) = 2
      BY HeaderBytes
    <2>3. /\ Buffer!Head2(n \div (Base * Base)) \in Seq(Int) /\ Len(Buffer!Head2(n \div (Base * Base))) = 2
          /\ Buffer!Head2(n) \in Seq(Int) /\ Len(Buffer!Head2(n)) = 2
      BY <2>1, <2>2 DEF Buffer!Header
    <2> DEFINE high == Buffer!Head2(n \div (Base * Base))
               low == Buffer!Head2(n)
    <2>4. Buffer!Head4(n) = high \o low
      BY DEF Buffer!Head4
    <2> HIDE DEF high, low
    <2>5. high \in Seq(Int) /\ Len(high) = 2 /\ low \in Seq(Int) /\ Len(low) = 2
      BY <2>3 DEF high, low
    <2>6. \A i \in 1 .. Len(low) : (high \o low)[Len(high) + i] = low[i]
      BY <2>5, Joined
    <2>7. \A i \in 1 .. 2 : (high \o low)[2 + i] = low[i]
      BY <2>5, <2>6
    <2>8. ASSUME NEW i \in 1 .. 2, NEW j \in Int, j = 2 + i PROVE (high \o low)[j] = low[i]
      BY <2>7, <2>8
    <2>9. 3 = 2 + 1 /\ 4 = 2 + 2 /\ 1 \in 1 .. 2 /\ 2 \in 1 .. 2
      OBVIOUS
    <2>10. (high \o low)[3] = low[1] /\ (high \o low)[4] = low[2]
      <3>1. 3 \in Int /\ 4 \in Int
        OBVIOUS
      <3>2. (high \o low)[3] = low[1]
        BY <2>8, <2>9, <3>1
      <3>3. (high \o low)[4] = low[2]
        BY <2>8, <2>9, <3>1
      <3> QED BY <3>2, <3>3
    <2> QED BY <2>4, <2>10 DEF low
  <1> QED BY <1>5, <1>6, <1>7, <1>8 DEF Buffer!Header

(* A block behind the others is one more frame.                            *)
LEMMA FramesMore ==
    ASSUME NEW h \in {2, 4}, NEW bytes \in Seq(Int), NEW blocks \in Seq(Seq(Int)), NEW block \in Seq(Int),
           NEW first \in 0 .. Len(blocks), NEW cut, Buffer!Frames(cut, h, bytes, first, blocks)
    PROVE  \E c \in [first .. Len(Append(blocks, block)) -> Nat] :
              Buffer!Frames(c, h, bytes \o Buffer!Header(h, Len(block)) \o block, first, Append(blocks, block))
  <1> DEFINE head == Buffer!Header(h, Len(block))
             last == Len(blocks)
             more == Append(blocks, block)
             start == bytes \o head
             all == start \o block
             end == Len(bytes) + h + Len(block)
             c == [k \in first .. last + 1 |-> IF k <= last THEN cut[k] ELSE end]
  <1>1. /\ last \in Nat /\ Len(block) \in Nat /\ Len(bytes) \in Nat /\ h \in Nat
        /\ \A k \in 1 .. last : blocks[k] \in Seq(Int) /\ Len(blocks[k]) \in Nat
    OBVIOUS
  <1>2. head \in Seq(Int) /\ Len(head) = h
    BY <1>1, HeaderBytes
  <1> HIDE DEF head
  <1>3. /\ start \in Seq(Int) /\ Len(start) = Len(bytes) + h
        /\ \A i \in 1 .. Len(bytes) : start[i] = bytes[i]
        /\ \A i \in 1 .. h : start[Len(bytes) + i] = head[i]
    <2>1. /\ start \in Seq(Int) /\ Len(start) = Len(bytes) + Len(head)
          /\ \A i \in 1 .. Len(bytes) : start[i] = bytes[i]
          /\ \A i \in 1 .. Len(head) : start[Len(bytes) + i] = head[i]
      BY <1>2, Joined
    <2> QED BY <1>2, <2>1
  <1> HIDE DEF start
  <1>4. /\ all \in Seq(Int) /\ Len(all) = Len(start) + Len(block)
        /\ \A i \in 1 .. Len(start) : all[i] = start[i]
        /\ \A i \in 1 .. Len(block) : all[Len(start) + i] = block[i]
    BY <1>3, Joined
  <1> HIDE DEF all
  <1>5. Len(all) = end /\ end \in Nat
    BY <1>1, <1>3, <1>4
  <1>6. ASSUME NEW i \in 1 .. Len(bytes) PROVE all[i] = bytes[i]
    <2>1. i \in 1 .. Len(start)
      BY <1>1, <1>3
    <2> QED BY <1>3, <1>4, <2>1
  <1>7. Buffer!FrameAt(h, all, Len(bytes), block)
    <2>1. ASSUME NEW i \in 1 .. h PROVE all[Len(bytes) + i] = head[i]
      <3>1. Len(bytes) + i \in 1 .. Len(start)
        BY <1>1, <1>3
      <3> QED BY <1>3, <1>4, <3>1
    <2>2. ASSUME NEW i \in 1 .. Len(block) PROVE all[Len(bytes) + h + i] = block[i]
      BY <1>3, <1>4
    <2> QED BY <2>1, <2>2 DEF Buffer!FrameAt, head
  <1>8. /\ Len(more) = last + 1 /\ more[last + 1] = block
        /\ \A k \in 1 .. last : more[k] = blocks[k]
    OBVIOUS
  <1> HIDE DEF more
  <1>9. /\ cut \in [first .. last -> Nat] /\ cut[first] = 0 /\ cut[last] = Len(bytes)
        /\ \A j, k \in first .. last : j <= k => cut[j] <= cut[k]
        /\ \A k \in first .. last - 1 :
             /\ cut[k + 1] = cut[k] + h + Len(blocks[k + 1])
             /\ Buffer!FrameAt(h, bytes, cut[k], blocks[k + 1])
    BY DEF Buffer!Frames
  <1> HIDE DEF end, last
  <1>10. first \in 0 .. last
    BY DEF last
  <1>11. /\ c \in [first .. last + 1 -> Nat] /\ c[last + 1] = end
         /\ \A k \in first .. last : c[k] = cut[k]
    BY <1>1, <1>5, <1>9, <1>10
  <1> HIDE DEF c
  <1>17. \A k \in first .. last : cut[k] \in Nat /\ cut[k] <= Len(bytes)
    BY <1>1, <1>9, <1>10
  <1>12. \A j, k \in first .. last + 1 : j <= k => c[j] <= c[k]
    <2>1. Len(bytes) <= end
      BY <1>1 DEF end
    <2>2. ASSUME NEW j \in first .. last + 1, NEW k \in first .. last + 1, j <= k PROVE c[j] <= c[k]
      <3>1. CASE k \in first .. last
        <4>1. j \in first .. last
          BY <1>1, <1>10, <2>2, <3>1
        <4> QED BY <1>9, <1>11, <2>2, <3>1, <4>1
      <3>2. CASE k = last + 1 /\ j \in first .. last
        <4>1. c[j] \in Nat /\ c[j] <= Len(bytes) /\ c[k] = end
          BY <1>11, <1>17, <3>2
        <4> QED BY <1>1, <1>5, <2>1, <4>1
      <3>3. CASE k = last + 1 /\ j = last + 1
        BY <1>5, <1>11, <3>3
      <3>4. /\ k \in first .. last \/ k = last + 1
            /\ j \in first .. last \/ j = last + 1
        BY <1>1, <1>10
      <3> QED BY <3>1, <3>2, <3>3, <3>4
    <2> QED BY <2>2
  <1>13. ASSUME NEW k \in first .. last + 1 - 1
         PROVE  c[k + 1] = c[k] + h + Len(more[k + 1]) /\ Buffer!FrameAt(h, all, c[k], more[k + 1])
    <2>1. CASE k = last
      <3>1. c[k] = Len(bytes) /\ c[k + 1] = end /\ more[k + 1] = block
        BY <1>1, <1>8, <1>9, <1>10, <1>11, <2>1
      <3> QED BY <1>7, <3>1 DEF end
    <2>2. CASE k # last
      <3>1. k \in first .. last - 1 /\ k \in first .. last /\ k + 1 \in first .. last /\ k + 1 \in 1 .. last
        BY <1>1, <1>10, <2>2
      <3>2. c[k] = cut[k] /\ c[k + 1] = cut[k + 1] /\ more[k + 1] = blocks[k + 1]
        BY <1>8, <1>11, <3>1
      <3>3. cut[k + 1] = cut[k] + h + Len(blocks[k + 1]) /\ Buffer!FrameAt(h, bytes, cut[k], blocks[k + 1])
        BY <1>9, <3>1
      <3>4. PICK a \in Nat, n \in Nat : a = cut[k] /\ n = Len(blocks[k + 1])
        <4>1. cut[k] \in Nat
          BY <1>17, <3>1
        <4>2. Len(blocks[k + 1]) \in Nat
          BY <1>1, <3>1
        <4> QED BY <4>1, <4>2
      <3>8. a + h + n <= Len(bytes)
        BY <1>17, <3>1, <3>3, <3>4
      <3>5. ASSUME NEW i \in 1 .. h PROVE all[cut[k] + i] = bytes[cut[k] + i]
        <4>1. a + i \in 1 .. Len(bytes)
          BY <1>1, <3>8
        <4> QED BY <1>6, <3>4, <4>1
      <3>6. ASSUME NEW i \in 1 .. Len(blocks[k + 1]) PROVE all[cut[k] + h + i] = bytes[cut[k] + h + i]
        <4>2. i \in 1 .. n
          BY <3>4
        <4>1. a + h + i \in 1 .. Len(bytes)
          BY <1>1, <3>8, <4>2
        <4> QED BY <1>6, <3>4, <4>1
      <3>7. Buffer!FrameAt(h, all, cut[k], blocks[k + 1])
        BY <3>3, <3>5, <3>6 DEF Buffer!FrameAt
      <3> QED BY <3>2, <3>3, <3>7
    <2> QED BY <2>1, <2>2
  <1>14. c[first] = 0
    BY <1>1, <1>9, <1>10, <1>11
  <1>15. Buffer!Frames(c, h, all, first, more)
    <2>1. /\ c \in [first .. last + 1 -> Nat] /\ c[first] = 0 /\ c[last + 1] = Len(all)
          /\ \A j, k \in first .. last + 1 : j <= k => c[j] <= c[k]
          /\ \A k \in first .. last + 1 - 1 :
               c[k + 1] = c[k] + h + Len(more[k + 1]) /\ Buffer!FrameAt(h, all, c[k], more[k + 1])
      BY <1>5, <1>11, <1>12, <1>13, <1>14
    <2>2. Len(more) = last + 1
      BY <1>8
    <2>3. c \in [first .. Len(more) -> Nat] /\ c[first] = 0 /\ c[Len(more)] = Len(all)
      BY <2>1, <2>2
    <2>4. \A j, k \in first .. Len(more) : j <= k => c[j] <= c[k]
      BY <1>12, <2>2
    <2>5. ASSUME NEW k \in first .. Len(more) - 1
          PROVE  c[k + 1] = c[k] + h + Len(more[k + 1]) /\ Buffer!FrameAt(h, all, c[k], more[k + 1])
      <3>1. k \in first .. last + 1 - 1
        BY <1>1, <1>10, <2>2
      <3> QED BY <1>13, <3>1
    <2> QED BY <2>3, <2>4, <2>5 DEF Buffer!Frames
  <1>16. c \in [first .. Len(more) -> Nat]
    BY <1>8, <1>11
  <1> QED BY <1>15, <1>16 DEF all, start, head, more

(* The bytes behind the first n.                                           *)
LEMMA Behind ==
    ASSUME NEW s \in Seq(Int), NEW n \in 0 .. Len(s)
    PROVE  /\ SubSeq(s, n + 1, Len(s)) \in Seq(Int) /\ Len(SubSeq(s, n + 1, Len(s))) = Len(s) - n
           /\ \A i \in 1 .. Len(s) - n : SubSeq(s, n + 1, Len(s))[i] = s[n + i]
  <1>1. n \in Nat /\ Len(s) \in n .. Len(s)
    OBVIOUS
  <1> QED BY <1>1, Between

(* Without its first frame, the rest are frames.                           *)
LEMMA FramesLess ==
    ASSUME NEW h \in {2, 4}, NEW bytes \in Seq(Int), NEW blocks \in Seq(Seq(Int)),
           NEW first \in 0 .. Len(blocks) - 1, NEW cut, Buffer!Frames(cut, h, bytes, first, blocks)
    PROVE  LET n == h + Len(blocks[first + 1])
           IN  /\ n \in 0 .. Len(bytes) /\ Buffer!FrameAt(h, bytes, 0, blocks[first + 1])
               /\ \E c \in [first + 1 .. Len(blocks) -> Nat] :
                     Buffer!Frames(c, h, SubSeq(bytes, n + 1, Len(bytes)), first + 1, blocks)
  <1> DEFINE last == Len(blocks)
             n == h + Len(blocks[first + 1])
             rest == SubSeq(bytes, n + 1, Len(bytes))
             c == [k \in first + 1 .. last |-> cut[k] - n]
  <1>1. /\ last \in Nat /\ Len(bytes) \in Nat /\ h \in Nat
        /\ \A k \in 1 .. last : blocks[k] \in Seq(Int) /\ Len(blocks[k]) \in Nat
    OBVIOUS
  <1>2. /\ cut \in [first .. last -> Nat] /\ cut[first] = 0 /\ cut[last] = Len(bytes)
        /\ \A j, k \in first .. last : j <= k => cut[j] <= cut[k]
        /\ \A k \in first .. last - 1 :
             /\ cut[k + 1] = cut[k] + h + Len(blocks[k + 1])
             /\ Buffer!FrameAt(h, bytes, cut[k], blocks[k + 1])
    BY DEF Buffer!Frames
  <1> HIDE DEF last
  <1>3. first \in 0 .. last - 1
    BY DEF last
  <1>4. first \in first .. last - 1 /\ first + 1 \in first .. last /\ first + 1 \in 1 .. last
    BY <1>1, <1>3
  <1>5. Len(blocks[first + 1]) \in Nat /\ n \in Nat
    BY <1>1, <1>4
  <1>6. cut[first + 1] = n /\ n \in 0 .. Len(bytes) /\ Buffer!FrameAt(h, bytes, 0, blocks[first + 1])
    <2>1. cut[first + 1] = cut[first] + h + Len(blocks[first + 1]) /\ Buffer!FrameAt(h, bytes, cut[first], blocks[first + 1])
      BY <1>2, <1>4
    <2>2. cut[first + 1] = n
      BY <1>1, <1>2, <1>5, <2>1
    <2>3. cut[first + 1] <= Len(bytes)
      <3>1. last \in first .. last /\ first + 1 <= last
        BY <1>1, <1>3
      <3> QED BY <1>2, <1>4, <3>1
    <2> QED BY <1>1, <1>2, <1>5, <2>1, <2>2, <2>3
  <1> HIDE DEF n
  <1>7. /\ rest \in Seq(Int) /\ Len(rest) = Len(bytes) - n
        /\ \A i \in 1 .. Len(bytes) - n : rest[i] = bytes[n + i]
    BY <1>6, Behind
  <1> HIDE DEF rest
  <1>14. n \in Nat /\ \A k \in first .. last : cut[k] \in Nat
    BY <1>2, <1>5
  <1>8. \A k \in first + 1 .. last : cut[k] \in Nat /\ n <= cut[k] /\ cut[k] - n \in Nat
    <2>1. ASSUME NEW k \in first + 1 .. last PROVE cut[k] \in Nat /\ n <= cut[k] /\ cut[k] - n \in Nat
      <3>1. k \in first .. last /\ first + 1 <= k
        BY <1>1, <1>3
      <3>2. cut[k] \in Nat /\ n <= cut[k]
        BY <1>2, <1>4, <1>6, <3>1
      <3>3. \A a, b \in Nat : b <= a => a - b \in Nat
        OBVIOUS
      <3> QED BY <1>14, <3>2, <3>3
    <2> QED BY <2>1
  <1>9. /\ c \in [first + 1 .. last -> Nat]
        /\ \A k \in first + 1 .. last : c[k] = cut[k] - n
    BY <1>8
  <1> HIDE DEF c
  <1>10. c[first + 1] = 0 /\ c[last] = Len(rest)
    <2>1. first + 1 \in first + 1 .. last /\ last \in first + 1 .. last
      BY <1>1, <1>3
    <2>2. c[first + 1] = cut[first + 1] - n /\ c[last] = cut[last] - n
      BY <1>9, <2>1
    <2>3. cut[first + 1] - n = 0
      BY <1>5, <1>6
    <2> QED BY <1>2, <1>7, <2>2, <2>3
  <1>11. ASSUME NEW j \in first + 1 .. last, NEW k \in first + 1 .. last, j <= k PROVE c[j] <= c[k]
    <2>1. j \in first .. last /\ k \in first .. last
      BY <1>1, <1>3
    <2>2. cut[j] <= cut[k]
      BY <1>2, <1>11, <2>1
    <2> QED BY <1>5, <1>8, <1>9, <2>2
  <1>12. ASSUME NEW k \in first + 1 .. last - 1
         PROVE  c[k + 1] = c[k] + h + Len(blocks[k + 1]) /\ Buffer!FrameAt(h, rest, c[k], blocks[k + 1])
    <2>1. k \in first .. last - 1 /\ k + 1 \in 1 .. last /\ k \in first + 1 .. last /\ k + 1 \in first + 1 .. last /\ k + 1 \in first .. last
         /\ k \in first .. last
      BY <1>1, <1>3
    <2>2. PICK a \in Nat, b \in Nat, z \in Nat : a = cut[k] /\ b = cut[k + 1] /\ z = Len(blocks[k + 1])
      <3>1. cut[k] \in Nat /\ cut[k + 1] \in Nat
        BY <1>14, <2>1
      <3>2. Len(blocks[k + 1]) \in Nat
        BY <1>1, <2>1
      <3> QED BY <3>1, <3>2
    <2>3. b = a + h + z /\ Buffer!FrameAt(h, bytes, a, blocks[k + 1])
      BY <1>2, <2>1, <2>2
    <2>4. PICK d \in Nat : d = a - n
      BY <1>8, <2>1, <2>2
    <2>5. n + d = a /\ b - n = d + h + z
      BY <1>1, <1>5, <2>3, <2>4
    <2>6. c[k] = d /\ c[k + 1] = d + h + z
      BY <1>9, <2>1, <2>2, <2>4, <2>5
    <2>7. b <= Len(bytes)
      <3>1. last \in first .. last /\ k + 1 <= last
        BY <1>1, <1>3
      <3> QED BY <1>2, <2>1, <2>2, <3>1
    <2>8. n + d + h + z <= Len(bytes)
      BY <1>1, <1>5, <2>3, <2>5, <2>7
    <2>9. ASSUME NEW i \in 1 .. h PROVE rest[d + i] = Buffer!Header(h, Len(blocks[k + 1]))[i]
      <3>1. d + i \in 1 .. Len(bytes) - n /\ n + (d + i) = a + i
        BY <1>1, <1>5, <2>5, <2>8
      <3>2. rest[d + i] = bytes[n + (d + i)]
        BY <1>7, <3>1
      <3>3. bytes[a + i] = Buffer!Header(h, Len(blocks[k + 1]))[i]
        BY <2>3 DEF Buffer!FrameAt
      <3> QED BY <3>1, <3>2, <3>3
    <2>10. ASSUME NEW i \in 1 .. Len(blocks[k + 1]) PROVE rest[d + h + i] = blocks[k + 1][i]
      <3>4. i \in 1 .. z
        BY <2>2
      <3>1. d + h + i \in 1 .. Len(bytes) - n /\ n + (d + h + i) = a + h + i
        BY <1>1, <1>5, <2>5, <2>8, <3>4
      <3>2. rest[d + h + i] = bytes[n + (d + h + i)]
        BY <1>7, <3>1
      <3>3. bytes[a + h + i] = blocks[k + 1][i]
        BY <2>3 DEF Buffer!FrameAt
      <3> QED BY <3>1, <3>2, <3>3
    <2>11. Buffer!FrameAt(h, rest, d, blocks[k + 1])
      BY <2>9, <2>10 DEF Buffer!FrameAt
    <2> QED BY <2>2, <2>6, <2>11
  <1>13. Buffer!Frames(c, h, rest, first + 1, blocks)
    BY <1>9, <1>10, <1>11, <1>12 DEF Buffer!Frames, last
  <1> QED BY <1>6, <1>9, <1>13 DEF n, rest, last

LEMMA BufferInit == Buffer!SocketBufferInit => Buffer!BufferInv
  <1> SUFFICES ASSUME Buffer!SocketBufferInit PROVE Buffer!BufferInv
    OBVIOUS
  <1>1. /\ memory = <<>> /\ cap = 0 /\ size = 0 /\ read = 0 /\ header \in {2, 4}
        /\ wire = <<>> /\ stream = <<>> /\ written = <<>> /\ taken = <<>> /\ tooLong = FALSE
    BY BufferAssumption DEF Buffer!SocketBufferInit, Buffer!BufferAssumption
  <1>2. Buffer!BufferTypeOK
    <2>1. <<>> \in Seq(Int) /\ <<>> \in Seq(Seq(Int)) /\ 0 \in Nat /\ FALSE \in BOOLEAN
      OBVIOUS
    <2>2. Buffer!MemoryType
      BY <1>1, <2>1 DEF Buffer!MemoryType
    <2> QED BY <1>1, <2>1, <2>2 DEF Buffer!BufferTypeOK
  <1>3. Buffer!Bounds
    BY <1>1 DEF Buffer!Bounds
  <1>4. Buffer!Unread = stream
    BY <1>1 DEF Buffer!Unread
  <1>5. Buffer!BlocksLeft
    BY <1>1 DEF Buffer!BlocksLeft
  <1> QED BY <1>2, <1>3, <1>4, <1>5 DEF Buffer!BufferInv

LEMMA StepPush ==
    ASSUME NEW n \in 0 .. MaxPush
    PROVE  Buffer!BufferInv /\ Buffer!Push(n) => Buffer!BufferInv'
  <1> SUFFICES ASSUME Buffer!BufferInv, Buffer!Push(n) PROVE Buffer!BufferInv'
    OBVIOUS
  <1>1. Buffer!BufferTypeOK /\ Buffer!Bounds /\ Buffer!Unread = stream /\ Buffer!BlocksLeft
    BY DEF Buffer!BufferInv
  <1>2. /\ wire \in Seq(Int) /\ stream \in Seq(Int) /\ n \in 0 .. Len(wire)
    <2>1. wire \in Seq(Int) /\ stream \in Seq(Int) /\ Len(wire) \in Nat
      BY <1>1 DEF Buffer!BufferTypeOK
    <2> QED BY <2>1, BufferAssumption DEF Buffer!Push, Buffer!BufferAssumption
  <1>3. /\ Buffer!Stored(SubSeq(wire, 1, n))
        /\ wire' = SubSeq(wire, n + 1, Len(wire)) /\ stream' = stream \o SubSeq(wire, 1, n)
        /\ UNCHANGED <<header, written, taken, tooLong>>
    BY DEF Buffer!Push
  <1>4. /\ SubSeq(wire, 1, n) \in Seq(Int) /\ wire' \in Seq(Int)
        /\ stream' \o wire' = stream \o wire
    BY <1>2, <1>3, MovesOn
  <1>5. Buffer!MemoryType' /\ Buffer!Bounds' /\ Buffer!Unread' = Buffer!Unread \o SubSeq(wire, 1, n)
    BY <1>1, <1>3, <1>4, Pushed DEF Buffer!BufferTypeOK
  <1>6. Buffer!Unread' = stream'
    BY <1>1, <1>3, <1>5
  <1>7. stream' \in Seq(Int)
    BY <1>2, <1>3, <1>4, Joined
  <1>8. Buffer!BufferTypeOK'
    BY <1>1, <1>3, <1>4, <1>5, <1>7 DEF Buffer!BufferTypeOK
  <1>9. Buffer!BlocksLeft'
    BY <1>1, <1>3, <1>4 DEF Buffer!BlocksLeft
  <1> QED BY <1>5, <1>6, <1>8, <1>9 DEF Buffer!BufferInv

(* A reader that takes at most what is unread.                             *)
LEMMA StepTakes ==
    ASSUME NEW got \in Seq(Int), NEW n \in Nat
    PROVE  Buffer!BufferInv /\ n <= size - read /\ Buffer!Takes(got, n) =>
             /\ Buffer!BufferTypeOK' /\ Buffer!Bounds' /\ (Buffer!Unread = stream)'
             /\ n \in 0 .. Len(stream \o wire)
             /\ stream' \o wire' = SubSeq(stream \o wire, n + 1, Len(stream \o wire))
             /\ taken' = Append(taken, got) /\ UNCHANGED <<header, written, tooLong>>
  <1>0. ASSUME Buffer!BufferInv, n <= size - read, Buffer!Takes(got, n)
        PROVE  /\ Buffer!BufferTypeOK' /\ Buffer!Bounds' /\ Buffer!Unread' = stream'
               /\ n \in 0 .. Len(stream \o wire)
               /\ stream' \o wire' = SubSeq(stream \o wire, n + 1, Len(stream \o wire))
               /\ taken' = Append(taken, got) /\ UNCHANGED <<header, written, tooLong>>
    <2>1. Buffer!BufferTypeOK /\ Buffer!Bounds /\ Buffer!Unread = stream /\ Buffer!MemoryType
      BY <1>0 DEF Buffer!BufferInv, Buffer!BufferTypeOK
    <2>2. /\ read' = read + n /\ stream' = SubSeq(stream, n + 1, Len(stream)) /\ taken' = Append(taken, got)
          /\ UNCHANGED <<memory, cap, size, header, wire, written, tooLong>>
      BY <1>0 DEF Buffer!Takes
    <2>3. /\ memory \in Seq(Int) /\ cap \in Nat /\ size \in Nat /\ read \in Nat /\ read <= size
          /\ size <= Len(memory) /\ cap <= Len(memory)
          /\ stream \in Seq(Int) /\ wire \in Seq(Int) /\ Len(memory) \in Nat /\ Len(wire) \in Nat
      BY <2>1 DEF Buffer!MemoryType, Buffer!Bounds, Buffer!BufferTypeOK
    <2>4. /\ Len(stream) = size - read /\ \A i \in 1 .. size - read : stream[i] = memory[read + i]
      <3>1. read \in Nat /\ size \in read .. Len(memory)
        BY <2>3
      <3>2. Buffer!Unread = stream
        BY <2>1
      <3> QED BY <2>3, <3>1, <3>2, Between DEF Buffer!Unread
    <2>5. read' \in Nat /\ read' <= size /\ n \in 0 .. Len(stream) /\ Len(stream) \in Nat
      BY <1>0, <2>2, <2>3, <2>4
    <2>6. Buffer!MemoryType' /\ Buffer!Bounds'
      BY <2>2, <2>3, <2>5 DEF Buffer!MemoryType, Buffer!Bounds
    <2>7. /\ stream' \in Seq(Int) /\ Len(stream') = Len(stream) - n
          /\ \A i \in 1 .. Len(stream) - n : stream'[i] = stream[n + i]
      BY <2>2, <2>3, <2>5, Behind
    <2>8. Buffer!BufferTypeOK'
      <3>1. taken' \in Seq(Seq(Int))
        BY <2>1, <2>2 DEF Buffer!BufferTypeOK
      <3> QED BY <2>1, <2>2, <2>6, <2>7, <3>1 DEF Buffer!BufferTypeOK
    <2>9. Buffer!Unread' = stream'
      <3>1. /\ Buffer!Unread' = SubSeq(memory, read' + 1, size)
        BY <2>2 DEF Buffer!Unread
      <3>2. read' \in Nat /\ size \in read' .. Len(memory)
        BY <2>3, <2>5
      <3>3. /\ Buffer!Unread' \in Seq(Int) /\ Len(Buffer!Unread') = size - read'
            /\ \A i \in 1 .. size - read' : Buffer!Unread'[i] = memory[read' + i]
        BY <2>3, <3>1, <3>2, Between
      <3>4. Len(Buffer!Unread') = Len(stream')
        BY <2>2, <2>3, <2>4, <2>7, <3>3
      <3>5. ASSUME NEW i \in 1 .. Len(Buffer!Unread') PROVE Buffer!Unread'[i] = stream'[i]
        <4>1. i \in 1 .. size - read' /\ i \in 1 .. Len(stream) - n
          BY <2>7, <3>3, <3>4
        <4>2. n + i \in 1 .. size - read /\ read' + i = read + (n + i)
          BY <2>2, <2>3, <2>4, <4>1
        <4> QED BY <2>4, <2>7, <3>3, <4>1, <4>2
      <3> QED BY <2>7, <3>3, <3>4, <3>5, SeqEqual
    <2> DEFINE all == stream \o wire
               new == stream' \o wire
               part == SubSeq(all, n + 1, Len(all))
    <2>10. /\ all \in Seq(Int) /\ Len(all) = Len(stream) + Len(wire)
           /\ \A i \in 1 .. Len(stream) : all[i] = stream[i]
           /\ \A i \in 1 .. Len(wire) : all[Len(stream) + i] = wire[i]
      BY <2>3, Joined
    <2>11. /\ new \in Seq(Int) /\ Len(new) = Len(stream') + Len(wire)
           /\ \A i \in 1 .. Len(stream') : new[i] = stream'[i]
           /\ \A i \in 1 .. Len(wire) : new[Len(stream') + i] = wire[i]
      BY <2>3, <2>7, Joined
    <2> HIDE DEF all, new
    <2>12. n \in 0 .. Len(all)
      BY <2>3, <2>5, <2>10
    <2>13. /\ part \in Seq(Int) /\ Len(part) = Len(all) - n
           /\ \A i \in 1 .. Len(all) - n : part[i] = all[n + i]
      BY <2>10, <2>12, Behind
    <2> HIDE DEF part
    <2>14. Len(new) = Len(part)
      BY <2>3, <2>5, <2>7, <2>10, <2>11, <2>13
    <2>15. ASSUME NEW i \in 1 .. Len(new) PROVE new[i] = part[i]
      <3>0. i \in 1 .. Len(all) - n
        BY <2>13, <2>14
      <3>1. CASE i \in 1 .. Len(stream')
        <4>1. n + i \in 1 .. Len(stream)
          BY <2>5, <2>7, <3>1
        <4> QED BY <2>7, <2>10, <2>11, <2>13, <3>0, <3>1, <4>1
      <3>2. CASE i \notin 1 .. Len(stream')
        <4>1. PICK j \in 1 .. Len(wire) : i = Len(stream') + j
          <5>1. i - Len(stream') \in 1 .. Len(wire) /\ i = Len(stream') + (i - Len(stream'))
            BY <2>3, <2>5, <2>7, <2>11, <3>2
          <5> QED BY <5>1
        <4>2. n + i = Len(stream) + j
          <5>1. Len(stream') \in Int /\ Len(stream) \in Int /\ j \in Int /\ Len(stream') = Len(stream) - n
            BY <2>5, <2>7
          <5> QED BY <4>1, <5>1
        <4> QED BY <2>10, <2>11, <2>13, <3>0, <4>1, <4>2
      <3> QED BY <3>1, <3>2
    <2>16. new = part
      BY <2>11, <2>13, <2>14, <2>15, SeqEqual
    <2>17. wire' = wire
      BY <2>2
    <2> QED BY <2>2, <2>6, <2>8, <2>9, <2>12, <2>16, <2>17 DEF all, new, part
  <1> QED BY <1>0

LEMMA StepRead ==
    ASSUME NEW need \in 1 .. 2
    PROVE  Buffer!BufferInv /\ Buffer!Read(need) => Buffer!BufferInv'
  <1> SUFFICES ASSUME Buffer!BufferInv, Buffer!Read(need) PROVE Buffer!BufferInv'
    OBVIOUS
  <1>1. Buffer!BufferTypeOK /\ Buffer!Bounds
    BY DEF Buffer!BufferInv
  <1>2. /\ memory \in Seq(Int) /\ read \in Nat /\ need \in Nat /\ read + need <= Len(memory)
        /\ need <= size - read /\ written = <<>>
    BY <1>1 DEF Buffer!BufferTypeOK, Buffer!MemoryType, Buffer!Bounds, Buffer!Read
  <1>3. SubSeq(memory, read + 1, read + need) \in Seq(Int)
    BY <1>2, PartOf
  <1>4. Buffer!BufferTypeOK' /\ Buffer!Bounds' /\ (Buffer!Unread = stream)' /\ written' = written
    BY <1>2, <1>3, StepTakes DEF Buffer!Read
  <1>5. Buffer!BlocksLeft'
    BY <1>2, <1>4 DEF Buffer!BlocksLeft
  <1> QED BY <1>4, <1>5 DEF Buffer!BufferInv

LEMMA StepReadline == Buffer!BufferInv /\ Buffer!Readline => Buffer!BufferInv'
  <1> SUFFICES ASSUME Buffer!BufferInv, Buffer!Readline PROVE Buffer!BufferInv'
    OBVIOUS
  <1>1. Buffer!BufferTypeOK /\ Buffer!Bounds
    BY DEF Buffer!BufferInv
  <1>2. /\ memory \in Seq(Int) /\ read \in Nat /\ size \in Nat /\ size <= Len(memory) /\ written = <<>>
        /\ Len(Separator) \in Nat /\ Len(memory) \in Nat
    BY <1>1, BufferAssumption DEF Buffer!BufferTypeOK, Buffer!MemoryType, Buffer!Bounds, Buffer!Readline, Buffer!BufferAssumption
  <1>3. PICK i \in read .. size - Len(Separator) :
           Buffer!Takes(SubSeq(memory, read + 1, i), i - read + Len(Separator))
    BY DEF Buffer!Readline
  <1>4. /\ i \in read .. Len(memory)
        /\ i - read + Len(Separator) \in Nat /\ i - read + Len(Separator) <= size - read
    BY <1>2
  <1>5. SubSeq(memory, read + 1, i) \in Seq(Int)
    BY <1>2, <1>4, Between
  <1>6. Buffer!BufferTypeOK' /\ Buffer!Bounds' /\ (Buffer!Unread = stream)' /\ written' = written
    BY <1>3, <1>4, <1>5, StepTakes
  <1>7. Buffer!BlocksLeft'
    BY <1>2, <1>6 DEF Buffer!BlocksLeft
  <1> QED BY <1>6, <1>7 DEF Buffer!BufferInv

(* The block that _readblock takes is the next one.                        *)
LEMMA StepReadblock == Buffer!BufferInv /\ Buffer!Readblock => Buffer!BufferInv'
  <1> SUFFICES ASSUME Buffer!BufferInv, Buffer!Readblock PROVE Buffer!BufferInv'
    OBVIOUS
  <1>1. Buffer!BufferTypeOK /\ Buffer!Bounds /\ Buffer!Unread = stream /\ Buffer!BlocksLeft
    BY DEF Buffer!BufferInv
  <1>2. /\ memory \in Seq(Int) /\ read \in Nat /\ size \in read .. Len(memory) /\ Len(memory) \in Nat
        /\ stream \in Seq(Int) /\ wire \in Seq(Int) /\ header \in {2, 4}
        /\ written \in Seq(Seq(Int)) /\ taken \in Seq(Seq(Int))
    BY <1>1 DEF Buffer!BufferTypeOK, Buffer!MemoryType, Buffer!Bounds
  <1>3. PICK len \in Buffer!Length :
           /\ Buffer!WholeBlock(len)
           /\ Buffer!Takes(SubSeq(memory, read + header + 1, read + header + len), header + len)
    BY DEF Buffer!Readblock
  <1>4. /\ Len(stream) = size - read /\ Len(stream) \in Nat /\ Len(wire) \in Nat
        /\ \A i \in 1 .. size - read : stream[i] = memory[read + i]
    <2>1. /\ Len(Buffer!Unread) = size - read
          /\ \A i \in 1 .. size - read : Buffer!Unread[i] = memory[read + i]
      BY <1>2, Between DEF Buffer!Unread
    <2>2. Len(stream) \in Nat /\ Len(wire) \in Nat
      BY <1>2
    <2> QED BY <1>1, <2>1, <2>2
  <1>5. PICK b1 \in Buffer!HeaderByte(1), b2 \in Buffer!HeaderByte(2), b3 \in Buffer!HeaderByte(3), b4 \in Buffer!HeaderByte(4) :
           len = (IF header = 2 THEN b1 * Base + b2 ELSE b3 * Base + b4) % (Base * Base)
    BY DEF Buffer!Length
  <1>6. Base \in Nat \ {0} /\ Base * Base \in Nat \ {0}
    <2>1. Base \in Nat \ {0}
      BY BufferAssumption DEF Buffer!BufferAssumption
    <2> QED BY <2>1
  <1>7. \A i \in 1 .. 4 : Buffer!HeaderByte(i) \subseteq Int
    <2>1. ASSUME NEW i \in 1 .. 4 PROVE Buffer!HeaderByte(i) \subseteq Int
      <3>1. CASE read + i <= size
        <4>1. read + i \in 1 .. Len(memory)
          BY <1>2, <3>1
        <4>2. memory[read + i] \in Int
          BY <1>2, <4>1
        <4> QED BY <3>1, <4>2 DEF Buffer!HeaderByte
      <3>2. CASE ~ (read + i <= size)
        BY <3>2 DEF Buffer!HeaderByte, Buffer!Byte
      <3> QED BY <3>1, <3>2
    <2> QED BY <2>1
  <1>8. b1 \in Int /\ b2 \in Int /\ b3 \in Int /\ b4 \in Int
    BY <1>5, <1>7
  <1>9. len \in Nat
    <2>1. \A x \in Int, last \in Nat \ {0} : x % last \in Nat
      OBVIOUS
    <2>2. b1 * Base + b2 \in Int /\ b3 * Base + b4 \in Int
      BY <1>6, <1>8
    <2> QED BY <1>5, <1>6, <2>1, <2>2
  <1>10. header \in Nat /\ header + len \in Nat /\ header + len <= size - read /\ 2 <= size - read
    <2>1. size - read >= header + len
      BY <1>3 DEF Buffer!WholeBlock
    <2> QED BY <1>2, <1>9, <2>1
  <1> DEFINE got == SubSeq(memory, read + header + 1, read + header + len)
  <1>11. got \in Seq(Int) /\ Len(got) = len /\ \A i \in 1 .. len : got[i] = memory[read + header + i]
    <2>1. PICK a \in Nat : a = read + header
      BY <1>2, <1>10
    <2>2. a + len <= Len(memory)
      BY <1>2, <1>9, <1>10, <2>1
    <2>3. /\ SubSeq(memory, a + 1, a + len) \in Seq(Int) /\ Len(SubSeq(memory, a + 1, a + len)) = len
          /\ \A i \in 1 .. len : SubSeq(memory, a + 1, a + len)[i] = memory[a + i]
      BY <1>2, <1>9, <2>2, PartOf
    <2> QED BY <2>1, <2>3
  <1> HIDE DEF got
  <1>12. Buffer!Takes(got, header + len)
    BY <1>3 DEF got
  <1> DEFINE all == stream \o wire
  <1>13. /\ Buffer!BufferTypeOK' /\ Buffer!Bounds' /\ (Buffer!Unread = stream)'
         /\ stream' \o wire' = SubSeq(all, header + len + 1, Len(all))
         /\ taken' = Append(taken, got) /\ UNCHANGED <<header, written, tooLong>>
    BY <1>10, <1>11, <1>12, StepTakes
  <1>14. Buffer!BlocksLeft'
    <2> SUFFICES ASSUME written # <<>>, ~ tooLong
                 PROVE  /\ Len(taken') <= Len(written)
                        /\ \A k \in 1 .. Len(taken') : taken'[k] = written[k]
                        /\ \A k \in 1 .. Len(written) : Len(written[k]) < Base * Base
                        /\ \E cut \in [Len(taken') .. Len(written) -> Nat] :
                              Buffer!Frames(cut, header, stream' \o wire', Len(taken'), written)
      BY <1>13 DEF Buffer!BlocksLeft
    <2> DEFINE first == Len(taken)
    <2>1. /\ first <= Len(written) /\ first \in Nat /\ Len(written) \in Nat
          /\ \A k \in 1 .. first : taken[k] = written[k]
          /\ \A k \in 1 .. Len(written) : Len(written[k]) < Base * Base
      BY <1>1, <1>2 DEF Buffer!BlocksLeft
    <2>2. PICK cut : Buffer!Frames(cut, header, all, first, written)
      BY <1>1 DEF Buffer!BlocksLeft
    <2>3. /\ all \in Seq(Int) /\ Len(all) = Len(stream) + Len(wire)
          /\ \A i \in 1 .. Len(stream) : all[i] = stream[i]
      BY <1>2, Joined
    <2> HIDE DEF all, first
    <2>4. first # Len(written)
      <3>1. cut[first] = 0 /\ cut[Len(written)] = Len(all)
        BY <2>2 DEF Buffer!Frames
      <3>2. Len(stream) >= 2
        BY <1>2, <1>4, <1>10
      <3>3. Len(all) # 0
        BY <1>4, <2>3, <3>2
      <3> QED BY <3>1, <3>3
    <2>5. first \in 0 .. Len(written) - 1 /\ first + 1 \in 1 .. Len(written)
      BY <2>1, <2>4
    <2> DEFINE block == written[first + 1]
               n == header + Len(block)
    <2>6. /\ Buffer!FrameAt(header, all, 0, block)
          /\ \E c \in [first + 1 .. Len(written) -> Nat] :
                Buffer!Frames(c, header, SubSeq(all, n + 1, Len(all)), first + 1, written)
      BY <1>2, <2>2, <2>3, <2>5, FramesLess
    <2>7. block \in Seq(Int) /\ Len(block) \in Nat /\ Len(block) < Base * Base
      BY <1>2, <2>1, <2>5
    <2> HIDE DEF block
    <2> DEFINE word == Buffer!Header(header, Len(block))
    <2>8. ASSUME NEW i \in 1 .. header PROVE all[i] = word[i]
      <3>1. all[0 + i] = word[i]
        BY <2>6 DEF Buffer!FrameAt
      <3>2. 0 + i = i
        BY <1>10
      <3> QED BY <3>1, <3>2
    <2>9. ASSUME NEW i \in 1 .. 4, i <= header, NEW b \in Buffer!HeaderByte(i) PROVE b = word[i]
      <3>1. i \in 1 .. size - read /\ i \in 1 .. Len(stream) /\ i \in 1 .. header /\ read + i <= size
        <4>1. read \in Nat /\ size \in Nat /\ header \in Nat
          BY <1>2, <1>10
        <4>2. i <= size - read
          BY <1>9, <1>10, <2>9, <4>1
        <4> QED BY <1>4, <2>9, <4>1, <4>2
      <3>2. b = memory[read + i]
        BY <3>1 DEF Buffer!HeaderByte
      <3> QED BY <1>4, <2>3, <2>8, <3>1, <3>2
    <2>10. len = Len(block)
      <3>1. len = (IF header = 2 THEN word[1] * Base + word[2] ELSE word[3] * Base + word[4]) % (Base * Base)
        <4>1. CASE header = 2
          <5>1. b1 = word[1] /\ b2 = word[2]
            BY <1>5, <2>9, <4>1
          <5> QED BY <1>5, <4>1, <5>1
        <4>2. CASE header = 4
          <5>1. b3 = word[3] /\ b4 = word[4]
            BY <1>5, <2>9, <4>2
          <5> QED BY <1>5, <4>2, <5>1
        <4> QED BY <1>2, <4>1, <4>2
      <3> QED BY <1>2, <2>7, <3>1, Decoded
    <2>11. got = block
      <3>1. ASSUME NEW i \in 1 .. Len(got) PROVE got[i] = block[i]
        <4>1. i \in 1 .. len /\ i \in 1 .. Len(block)
          BY <1>11, <2>10
        <4>2. /\ header + i \in 1 .. size - read /\ header + i \in 1 .. Len(stream)
              /\ read + (header + i) = read + header + i /\ 0 + header + i = header + i
          BY <1>2, <1>4, <1>9, <1>10, <4>1
        <4>3. got[i] = memory[read + header + i]
          BY <1>11, <4>1
        <4>4. memory[read + (header + i)] = stream[header + i] /\ all[header + i] = stream[header + i]
          BY <1>4, <2>3, <4>2
        <4>5. all[0 + header + i] = block[i]
          BY <2>6, <4>1 DEF Buffer!FrameAt
        <4> QED BY <4>2, <4>3, <4>4, <4>5
      <3> QED BY <1>11, <2>7, <2>10, <3>1, SeqEqual
    <2>12. Len(taken') = first + 1 /\ taken'[first + 1] = got /\ \A k \in 1 .. first : taken'[k] = taken[k]
      BY <1>2, <1>11, <1>13, AppendProperties DEF first
    <2>13. first + 1 <= Len(written)
      BY <2>1, <2>5
    <2>14. ASSUME NEW k \in 1 .. first + 1 PROVE taken'[k] = written[k]
      <3>1. CASE k = first + 1
        BY <2>11, <2>12, <3>1 DEF block
      <3>2. CASE k # first + 1
        <4>1. k \in 1 .. first
          BY <2>1, <3>2
        <4> QED BY <2>1, <2>12, <4>1
      <3> QED BY <3>1, <3>2
    <2>15. stream' \o wire' = SubSeq(all, n + 1, Len(all))
      BY <1>13, <2>10
    <2> QED BY <2>1, <2>6, <2>12, <2>13, <2>14, <2>15
  <1> QED BY <1>13, <1>14 DEF Buffer!BufferInv

LEMMA Regrouped ==
    ASSUME NEW s \in Seq(Int), NEW w \in Seq(Int), NEW h \in Seq(Int), NEW b \in Seq(Int)
    PROVE  s \o ((w \o h) \o b) = ((s \o w) \o h) \o b
  <1> DEFINE wh == w \o h
  <1>1. (s \o w) \o h = s \o wh
    BY ConcatAssociative, SMTT(90)
  <1>2. wh \in Seq(Int)
    BY ConcatProperties
  <1> HIDE DEF wh
  <1>3. (s \o wh) \o b = s \o (wh \o b)
    BY <1>2, ConcatAssociative, SMTT(90)
  <1> QED BY <1>1, <1>3 DEF wh

LEMMA StepWriteBlock ==
    ASSUME NEW n \in 0 .. MaxBlock, NEW b \in Buffer!Byte
    PROVE  Buffer!BufferInv /\ Buffer!WriteBlock(n, b) => Buffer!BufferInv'
  <1> SUFFICES ASSUME Buffer!BufferInv, Buffer!WriteBlock(n, b) PROVE Buffer!BufferInv'
    OBVIOUS
  <1> DEFINE block == [i \in 1 .. n |-> b]
             all == stream \o wire
  <1>1. Buffer!BufferTypeOK /\ Buffer!Bounds /\ Buffer!Unread = stream /\ Buffer!BlocksLeft
    BY DEF Buffer!BufferInv
  <1>2. /\ wire \in Seq(Int) /\ stream \in Seq(Int) /\ header \in {2, 4}
        /\ written \in Seq(Seq(Int)) /\ taken \in Seq(Seq(Int))
    BY <1>1 DEF Buffer!BufferTypeOK
  <1>3. n \in Nat /\ b \in Int /\ Base * Base \in Nat
    BY BufferAssumption DEF Buffer!Byte, Buffer!BufferAssumption
  <1>4. block \in Seq(Int) /\ Len(block) = n
    BY <1>3
  <1>5. /\ written # <<>> \/ (wire = <<>> /\ stream = <<>> /\ taken = <<>>)
        /\ wire' = wire \o Buffer!Header(header, n) \o block
        /\ written' = Append(written, block)
        /\ tooLong' = (tooLong \/ n >= Base * Base)
        /\ UNCHANGED <<memory, cap, size, read, header, stream, taken>>
    BY DEF Buffer!WriteBlock
  <1> HIDE DEF block
  <1>6. Buffer!Header(header, n) \in Seq(Int)
    BY <1>2, <1>3, HeaderBytes
  <1>7. /\ wire' \in Seq(Int)
        /\ stream' \o wire' = all \o Buffer!Header(header, n) \o block
    <2> DEFINE head == Buffer!Header(header, n)
    <2> HIDE DEF head
    <2>1. head \in Seq(Int)
      BY <1>6 DEF head
    <2>2. wire \o head \in Seq(Int) /\ (wire \o head) \o block \in Seq(Int)
      BY <1>2, <1>4, <2>1, ConcatProperties
    <2>3. stream \o ((wire \o head) \o block) = ((stream \o wire) \o head) \o block
      <3>1. stream \in Seq(Int) /\ wire \in Seq(Int)
        BY <1>2
      <3> QED BY <1>4, <2>1, <3>1, Regrouped, SMTT(90)
    <2> QED BY <1>5, <2>2, <2>3 DEF head
  <1>8. Buffer!BufferTypeOK' /\ Buffer!Bounds' /\ Buffer!Unread' = stream'
    <2>1. written' \in Seq(Seq(Int))
      BY <1>2, <1>4, <1>5
    <2>2. tooLong' \in BOOLEAN
      BY <1>5
    <2> QED BY <1>1, <1>5, <1>7, <2>1, <2>2 DEF Buffer!BufferTypeOK, Buffer!MemoryType, Buffer!Bounds, Buffer!Unread
  <1>9. Buffer!BlocksLeft'
    <2> SUFFICES ASSUME ~ tooLong'
                 PROVE  /\ Len(taken) <= Len(written')
                        /\ \A k \in 1 .. Len(taken) : taken[k] = written'[k]
                        /\ \A k \in 1 .. Len(written') : Len(written'[k]) < Base * Base
                        /\ \E cut \in [Len(taken) .. Len(written') -> Nat] :
                              Buffer!Frames(cut, header, stream' \o wire', Len(taken), written')
      BY <1>5 DEF Buffer!BlocksLeft
    <2>1. ~ tooLong /\ n < Base * Base
      <3>1. ~ (tooLong \/ n >= Base * Base)
        BY <1>5, Zenon
      <3>2. ~ tooLong /\ ~ (n >= Base * Base)
        BY <3>1, Zenon
      <3> QED BY <1>3, <3>2
    <2>2. /\ Len(taken) <= Len(written) /\ Len(taken) \in Nat /\ Len(written) \in Nat
          /\ \A k \in 1 .. Len(taken) : taken[k] = written[k]
          /\ \A k \in 1 .. Len(written) : Len(written[k]) < Base * Base
          /\ \E cut : Buffer!Frames(cut, header, all, Len(taken), written)
      <3>1. CASE written # <<>>
        BY <1>1, <1>2, <2>1, <3>1 DEF Buffer!BlocksLeft
      <3>2. CASE written = <<>>
        <4>1. Len(taken) = 0 /\ Len(written) = 0 /\ Len(all) = 0
          BY <1>5, <3>2
        <4> DEFINE cut == [k \in 0 .. 0 |-> 0]
        <4>2. cut \in [0 .. 0 -> Nat] /\ cut[0] = 0 /\ \A j, k \in 0 .. 0 : j <= k => cut[j] <= cut[k]
          OBVIOUS
        <4> HIDE DEF cut, all
        <4>3. Buffer!Frames(cut, header, all, Len(taken), written)
          BY <4>1, <4>2 DEF Buffer!Frames
        <4> QED BY <4>1, <4>3
      <3> QED BY <3>1, <3>2
    <2>3. PICK cut : Buffer!Frames(cut, header, all, Len(taken), written)
      BY <2>2
    <2>4. all \in Seq(Int)
      BY <1>2, Joined
    <2>5. Len(taken) \in 0 .. Len(written)
      BY <2>2
    <2> HIDE DEF all
    <2>6. \E c \in [Len(taken) .. Len(Append(written, block)) -> Nat] :
             Buffer!Frames(c, header, all \o Buffer!Header(header, Len(block)) \o block, Len(taken), Append(written, block))
      BY <1>2, <1>4, <2>3, <2>4, <2>5, FramesMore
    <2>7. /\ Len(written') = Len(written) + 1 /\ written'[Len(written) + 1] = block
          /\ \A k \in 1 .. Len(written) : written'[k] = written[k]
      BY <1>2, <1>4, <1>5, AppendProperties
    <2>8. Len(taken) <= Len(written')
      BY <2>2, <2>7
    <2>9. \A k \in 1 .. Len(taken) : taken[k] = written'[k]
      BY <2>2, <2>7
    <2>10. ASSUME NEW k \in 1 .. Len(written') PROVE Len(written'[k]) < Base * Base
      <3>1. CASE k = Len(written) + 1
        BY <1>4, <2>1, <2>7, <3>1
      <3>2. CASE k # Len(written) + 1
        <4>1. k \in 1 .. Len(written)
          BY <2>2, <2>7, <3>2
        <4> QED BY <2>2, <2>7, <4>1
      <3> QED BY <3>1, <3>2
    <2> QED BY <1>4, <1>5, <1>7, <2>6, <2>8, <2>9, <2>10
  <1> QED BY <1>8, <1>9 DEF Buffer!BufferInv

LEMMA StepWriteBytes ==
    ASSUME NEW b \in Buffer!Byte, NEW c \in Buffer!Byte
    PROVE  Buffer!BufferInv /\ Buffer!WriteBytes(<<b, c>>) => Buffer!BufferInv'
  <1> SUFFICES ASSUME Buffer!BufferInv, Buffer!WriteBytes(<<b, c>>) PROVE Buffer!BufferInv'
    OBVIOUS
  <1>1. Buffer!BufferTypeOK /\ Buffer!Bounds /\ Buffer!Unread = stream
    BY DEF Buffer!BufferInv
  <1>2. /\ wire' = wire \o <<b, c>> /\ written = <<>>
        /\ UNCHANGED <<memory, cap, size, read, header, stream, written, taken, tooLong>>
    BY DEF Buffer!WriteBytes
  <1>3. wire' \in Seq(Int)
    <2>1. <<b, c>> \in Seq(Int) /\ wire \in Seq(Int)
      BY <1>1, BufferAssumption DEF Buffer!Byte, Buffer!BufferAssumption, Buffer!BufferTypeOK
    <2> QED BY <1>2, <2>1, Joined
  <1>4. Buffer!BlocksLeft'
    BY <1>2 DEF Buffer!BlocksLeft
  <1> QED BY <1>1, <1>2, <1>3, <1>4 DEF Buffer!BufferInv, Buffer!BufferTypeOK, Buffer!MemoryType, Buffer!Bounds, Buffer!Unread

LEMMA BufferStep == Buffer!BufferInv /\ Buffer!SocketBufferNext => Buffer!BufferInv'
  BY StepWriteBlock, StepWriteBytes, StepPush, StepRead, StepReadline, StepReadblock DEF Buffer!SocketBufferNext

LEMMA BufferRests == Buffer!BufferInv /\ UNCHANGED Buffer!socketBufferVars => Buffer!BufferInv'
  <1> SUFFICES ASSUME Buffer!BufferInv, UNCHANGED Buffer!socketBufferVars PROVE Buffer!BufferInv'
    OBVIOUS
  <1>1. Buffer!BufferTypeOK /\ Buffer!Bounds /\ Buffer!Unread = stream /\ Buffer!BlocksLeft
    BY DEF Buffer!BufferInv
  <1>2. UNCHANGED <<memory, cap, size, read, header, wire, stream, written, taken, tooLong>>
    BY DEF Buffer!socketBufferVars
  <1>3. Buffer!BufferTypeOK' /\ Buffer!Bounds'
    BY <1>1, <1>2 DEF Buffer!BufferTypeOK, Buffer!MemoryType, Buffer!Bounds
  <1>4. Buffer!Unread' = stream'
    BY <1>1, <1>2 DEF Buffer!Unread
  <1>5. Buffer!BlocksLeft'
    BY <1>1, <1>2 DEF Buffer!BlocksLeft
  <1> QED BY <1>3, <1>4, <1>5 DEF Buffer!BufferInv

LEMMA BufferKeepsStream == Buffer!BufferInv => Buffer!StreamKept
  <1> SUFFICES ASSUME Buffer!BufferInv PROVE Buffer!StreamKept
    OBVIOUS
  <1>1. Buffer!BufferTypeOK /\ Buffer!Bounds /\ Buffer!Unread = stream /\ Buffer!BlocksLeft
    BY DEF Buffer!BufferInv
  <1>2. ASSUME written # <<>>, ~ tooLong PROVE Buffer!IsPrefix(taken, written)
    <2>1. /\ taken \in Seq(Seq(Int)) /\ written \in Seq(Seq(Int)) /\ Len(taken) \in Nat /\ Len(written) \in Nat
          /\ Len(taken) <= Len(written) /\ \A k \in 1 .. Len(taken) : taken[k] = written[k]
      BY <1>1, <1>2 DEF Buffer!BufferTypeOK, Buffer!BlocksLeft
    <2> DEFINE s == SubSeq(taken, 1, Len(taken))
               t == SubSeq(written, 1, Len(taken))
    <2>2. /\ \A i \in 1 .. Len(taken) : taken[i] \in Seq(Int)
          /\ \A i \in 1 .. Len(taken) : written[i] \in Seq(Int)
      <3>1. \A i \in 1 .. Len(taken) : taken[i] \in Seq(Int)
        BY <2>1
      <3>2. \A i \in 1 .. Len(written) : written[i] \in Seq(Int)
        BY <2>1
      <3>3. \A i \in 1 .. Len(taken) : i \in 1 .. Len(written)
        BY <2>1
      <3> QED BY <3>1, <3>2, <3>3
    <2>3. /\ s \in Seq(Seq(Int)) /\ Len(s) = (IF 1 <= Len(taken) THEN Len(taken) - 1 + 1 ELSE 0)
          /\ \A i \in 1 .. Len(taken) - 1 + 1 : s[i] = taken[1 + i - 1]
      BY <2>1, <2>2, SubSeqProperties
    <2>4. /\ t \in Seq(Seq(Int)) /\ Len(t) = (IF 1 <= Len(taken) THEN Len(taken) - 1 + 1 ELSE 0)
          /\ \A i \in 1 .. Len(taken) - 1 + 1 : t[i] = written[1 + i - 1]
      BY <2>1, <2>2, SubSeqProperties
    <2> HIDE DEF s, t
    <2>5. Len(s) = Len(taken) /\ Len(t) = Len(taken)
      BY <2>1, <2>3, <2>4
    <2>6. ASSUME NEW i \in 1 .. Len(s) PROVE s[i] = t[i]
      <3>1. i \in 1 .. Len(taken) /\ i \in 1 .. Len(taken) - 1 + 1 /\ 1 + i - 1 = i
        BY <2>1, <2>5
      <3> QED BY <2>1, <2>3, <2>4, <3>1
    <2>7. s = t
      BY <2>3, <2>4, <2>5, <2>6, SeqEqual
    <2> QED BY <2>1, <2>7 DEF Buffer!IsPrefix, s, t
  <1> QED BY <1>1, <1>2 DEF Buffer!StreamKept, Buffer!Bounds
-----------------------------------------------------------------------------
(* Groups: the lemmas of GroupProofs, for the instances that MCNet checks, *)
(* whose definitions are the same.                                         *)

Casting == INSTANCE GroupProofs WITH inbox <- castInbox, data <- castData, Harbor <- HarborId

LEMMA SameAssumption == Casting!MulticastAssumption <=> Groups!MulticastAssumption
  BY DEF Casting!MulticastAssumption, Groups!MulticastAssumption, Casting!IsFiniteSet,
         Groups!IsFiniteSet

LEMMA SameInit == Casting!MulticastInit <=> Groups!MulticastInit
  BY DEF Casting!MulticastInit, Groups!MulticastInit, Casting!Caster, Groups!Caster,
         Casting!localcast, Groups!localcast, Casting!Inst, Groups!Inst, Casting!NoCast,
         Groups!NoCast

LEMMA SameNext == Casting!MulticastNext <=> Groups!MulticastNext
  BY DEF Casting!MulticastNext, Groups!MulticastNext, Casting!ServiceGroupCommand,
         Groups!ServiceGroupCommand, Casting!GroupEnter, Groups!GroupEnter, Casting!Created,
         Groups!Created, Casting!GroupOf, Groups!GroupOf, Casting!Inst, Groups!Inst,
         Casting!SendCommand, Groups!SendCommand, Casting!groupVars, Groups!groupVars,
         Casting!GroupLeave, Groups!GroupLeave, Casting!GroupQuery, Groups!GroupQuery,
         Casting!GroupClear, Groups!GroupClear, Casting!SendToGroup, Groups!SendToGroup,
         Casting!SendLocalcast, Groups!SendLocalcast, Casting!localcast, Groups!localcast,
         Casting!MemberDies, Groups!MemberDies, Casting!GroupCommand, Groups!GroupCommand,
         Casting!Idle, Groups!Idle, Casting!NoCast, Groups!NoCast, Casting!Received,
         Groups!Received, Casting!PushArray, Groups!PushArray, Casting!CastGroup, Groups!CastGroup,
         Casting!Combined, Groups!Combined, Casting!CombineLeave, Groups!CombineLeave,
         Casting!Ascending, Groups!Ascending, Casting!Sorts, Groups!Sorts, Casting!CombineEnter,
         Groups!CombineEnter, Casting!CastLocal, Groups!CastLocal, Casting!Copy, Groups!Copy,
         Casting!Caster, Groups!Caster, Casting!CastNext, Groups!CastNext, Casting!CastEnd,
         Groups!CastEnd, Casting!Receive, Groups!Receive, Casting!Use, Groups!Use, Casting!May,
         Groups!May

LEMMA SameCopies == Casting!CopiesCounted <=> Groups!CopiesCounted
  BY DEF Casting!CopiesCounted, Groups!CopiesCounted, Casting!Copies, Groups!Copies,
         Casting!CopiesDue, Groups!CopiesDue, Casting!Caster, Groups!Caster, Casting!localcast,
         Groups!localcast, Casting!Inst, Groups!Inst, Casting!Cardinality, Groups!Cardinality

LEMMA SameMembers == Casting!MembersCombined <=> Groups!MembersCombined
  BY DEF Casting!MembersCombined, Groups!MembersCombined, Casting!Inst, Groups!Inst, Casting!NoCast,
         Groups!NoCast, Casting!Elements, Groups!Elements

LEMMA GroupsStep ==
    ASSUME Casting!MulticastInv, [Next]_vars
    PROVE  /\ Casting!MulticastNext \/ UNCHANGED Casting!multicastVars
           /\ Casting!MulticastInv'
  <1>1. [Next]_vars => Groups!MulticastNext \/ UNCHANGED Groups!multicastVars
    BY DEF Next, vars, multicastVars, Groups!multicastVars
  <1>2. UNCHANGED Groups!multicastVars => UNCHANGED Casting!multicastVars
    BY DEF Groups!multicastVars, Casting!multicastVars
  <1>3. Casting!MulticastNext \/ UNCHANGED Casting!multicastVars
    BY <1>1, <1>2, SameNext
  <1>4. Casting!MulticastAssumption
    BY SameAssumption, GroupsAssumption
  <1> QED BY <1>3, <1>4, Casting!MulticastStep

LEMMA SameManager ==
    /\ Casting!ManagerAssumption <=> Manager!ManagerAssumption
    /\ Casting!GroupManagerInit <=> Manager!GroupManagerInit
    /\ Casting!TunnelsComplete <=> Manager!TunnelsComplete
  BY DEF Casting!ManagerAssumption, Manager!ManagerAssumption, Casting!IsFiniteSet, Manager!IsFiniteSet,
         Casting!GroupManagerInit, Manager!GroupManagerInit, Casting!TunnelsComplete,
         Manager!TunnelsComplete

LEMMA SameManagerNext == Casting!GroupManagerNext <=> Manager!GroupManagerNext
  BY DEF Casting!GroupManagerNext, Manager!GroupManagerNext, Casting!NewGroup, Manager!NewGroup,
         Casting!GroupCreated, Manager!GroupCreated, Casting!Orders, Manager!Orders,
         Casting!Cardinality, Manager!Cardinality, Casting!ToAgent, Manager!ToAgent,
         Casting!AgentsTold, Manager!AgentsTold, Casting!Master, Manager!Master,
         Casting!AgentCommand, Manager!AgentCommand, Casting!Delete, Manager!Delete,
         Casting!Enter, Manager!Enter, Casting!AgentSend, Manager!AgentSend, Casting!Leave,
         Manager!Leave, Casting!Use, Manager!Use, Casting!May, Manager!May
-----------------------------------------------------------------------------
(* skynet.lua: every response goes to the coroutine that waits for it,     *)
(* once, whatever sleeps, wake-ups, forks and errors are in between, and   *)
(* every reply to the request its coroutine was started for.               *)
THEOREM AnswersFindTheirCoroutines == Spec => []SessionsRight
  <1>1. Init => Lua!SessionInv
    BY SessionInit DEF Init
  <1>2. Lua!SessionInv /\ [Next]_vars => Lua!SessionInv'
    <2>1. [Next]_vars => Lua!LuaNext \/ UNCHANGED Lua!luaVars
      BY DEF Next, vars, luaVars, Lua!luaVars
    <2> QED BY <2>1, SessionStep
  <1>3. Lua!SessionInv => SessionsRight
    BY Matched DEF SessionsRight
  <1> QED BY <1>1, <1>2, <1>3, PTL DEF Spec

(* service/group_mgr.lua and group_agent.lua: a group is created once in a *)
(* harbor, and when all has arrived any two harbors that have one reach    *)
(* each other, in whatever order they entered and were created.            *)
THEOREM TunnelsArrive == Spec => []TunnelsRight
  <1>1. Init => Casting!ManagerInv
    BY SameManager, Casting!ManagerInit0 DEF Init
  <1>2. Casting!ManagerInv /\ [Next]_vars => Casting!ManagerInv'
    <2>1. [Next]_vars => Manager!GroupManagerNext \/ UNCHANGED Manager!groupManagerVars
      BY DEF Next, vars, managerVars, Manager!groupManagerVars
    <2>2. UNCHANGED Manager!groupManagerVars => UNCHANGED Casting!groupManagerVars
      BY DEF Manager!groupManagerVars, Casting!groupManagerVars
    <2>3. Casting!ManagerAssumption
      BY SameManager, ManagerAssumption
    <2> QED BY <2>1, <2>2, <2>3, SameManagerNext, Casting!ManagerStep
  <1>3. Casting!ManagerInv => TunnelsRight
    BY SameManager, Casting!Arrived DEF TunnelsRight
  <1> QED BY <1>1, <1>2, <1>3, PTL DEF Spec

(* lua-socket.c: however the bytes arrive and however the buffer is grown, *)
(* moved and reused, the reader finds inside the memory what was pushed    *)
(* and not taken, and takes the blocks that were written, in their order.  *)
THEOREM ReaderFindsTheStream == Spec => []StreamRight
  <1>1. Init => Buffer!BufferInv
    BY BufferInit DEF Init
  <1>2. Buffer!BufferInv /\ [Next]_vars => Buffer!BufferInv'
    <2>1. [Next]_vars => Buffer!SocketBufferNext \/ UNCHANGED Buffer!socketBufferVars
      BY DEF Next, vars, bufferVars, Buffer!socketBufferVars
    <2> QED BY <2>1, BufferStep, BufferRests
  <1>3. Buffer!BufferInv => StreamRight
    BY BufferKeepsStream DEF StreamRight
  <1> QED BY <1>1, <1>2, <1>3, PTL DEF Spec

(* skynet_multicast.c: a message that is cast is freed with its last copy, *)
(* neither before a receiver has dispatched it nor never, however fast the *)
(* receivers are and whichever of them die while it is cast.               *)
THEOREM CopiesAreCounted == Spec => []CopiesRight
  <1>1. Init => Casting!MulticastInv
    BY SameAssumption, GroupsAssumption, SameInit, Casting!MulticastBegins DEF Init
  <1>2. Casting!MulticastInv /\ [Next]_vars => Casting!MulticastInv'
    BY GroupsStep
  <1>3. Casting!MulticastInv => CopiesRight
    <2>1. Casting!MulticastInv => Casting!CopiesCounted
      BY DEF Casting!MulticastInv
    <2> QED BY <2>1, SameCopies DEF CopiesRight
  <1> QED BY <1>1, <1>2, <1>3, PTL DEF Spec

(* skynet_multicast.c, combine_queue: whatever was queued, in whatever     *)
(* order and however often, a cast finds the members in the group, sorted  *)
(* and each of them once.                                                  *)
THEOREM MembersAreCombined == Spec => GroupCombined
  <1>1. Init => Casting!MulticastInv
    BY SameAssumption, GroupsAssumption, SameInit, Casting!MulticastBegins DEF Init
  <1>2. Casting!MulticastInv /\ [Next]_vars => Casting!MulticastInv'
    BY GroupsStep
  <1>3. Casting!MulticastInv /\ [Next]_vars => [Groups!MembersCombined]_(Groups!multicastVars)
    <2>1. SUFFICES ASSUME Casting!MulticastInv, [Next]_vars
                   PROVE  Groups!MembersCombined \/ UNCHANGED Groups!multicastVars
      OBVIOUS
    <2>2. Casting!MulticastNext \/ UNCHANGED Casting!multicastVars
      BY <2>1, GroupsStep
    <2>3. UNCHANGED Casting!multicastVars => UNCHANGED Groups!multicastVars
      BY DEF Groups!multicastVars, Casting!multicastVars
    <2>4. Casting!MulticastAssumption
      BY SameAssumption, GroupsAssumption
    <2>5. Casting!MulticastNext => Groups!MembersCombined
      BY <2>1, <2>4, Casting!MembersStep, SameMembers
    <2> QED BY <2>2, <2>3, <2>5
  <1> QED BY <1>1, <1>2, <1>3, PTL DEF Spec, GroupCombined, Groups!GroupCombined
=============================================================================
