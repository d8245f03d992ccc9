----------------------------- MODULE LuaSession -----------------------------
(***************************************************************************)
(* lualib/skynet.lua: the coroutines of one Lua service.                   *)
(*                                                                         *)
(* A request starts a coroutine; a coroutine that calls another service or *)
(* sleeps is suspended until the response with its session arrives.  In    *)
(* between the service handles other messages.  Traces of the time a       *)
(* request takes (trace_service.c) follow the coroutines.  Only one        *)
(* coroutine runs at a time, and what it does next is its own choice.      *)
(***************************************************************************)
EXTENDS Common, Sequences, FiniteSets

CONSTANT
  Coroutine         \* coroutines the service may create: 1 .. n

VARIABLES
  inbox,            \* messages of the service: [type, session]
  phase,            \* what dispatch_message does: "idle", "run", "wake", "fork"
  running,          \* the coroutine that runs
  co,               \* coroutine -> [state, session, request]
  pool,             \* coroutine_pool[0]
  sessionCo,        \* session_id_coroutine
  coSession,        \* session_coroutine_id
  sleepSession,     \* sleep_session
  wakeupSession,    \* wakeup_session
  forkQueue,        \* fork_queue
  lastSession,      \* the session counter of the context
  requests,         \* how many requests have come; their sessions, which others give
  calls, timers,    \* sessions of calls and of timers to be answered
  trace,            \* trace_pool: [current, slot]
  replies,          \* responses sent: [to, by]
  luaFault          \* an assertion failed, or a response had no session

luaVars == <<inbox, phase, running, co, pool, sessionCo, coSession, sleepSession, wakeupSession, forkQueue,
             lastSession, requests, calls, timers, trace, replies, luaFault>>

Break == 0        \* the entry "BREAK" of session_id_coroutine

LuaInit ==
  /\ inbox = <<>> /\ phase = "idle" /\ running = Void
  /\ co = [c \in Coroutine |-> [state |-> "none", session |-> Void, request |-> Void]]
  /\ pool = Void /\ sessionCo = <<>> /\ coSession = <<>> /\ sleepSession = <<>> /\ wakeupSession = {}
  /\ forkQueue = <<>> /\ lastSession = 0 /\ requests = 0 /\ calls = {} /\ timers = {}
  /\ trace = [current |-> Void, slot |-> <<>>]
  /\ replies = <<>> /\ luaFault = FALSE
-----------------------------------------------------------------------------
(* trace_service.c.  A trace is the request that it was begun for.         *)

TraceNew(request)    == trace' = [trace EXCEPT !.current = request]
TraceRegister(t, s)  == IF t.current = Void THEN t ELSE [t EXCEPT !.slot = Put(@, s, t.current)]
\* trace_count: a trace that is not registered under a session ends here.
TraceCount(t)        == [t EXCEPT !.current = Void]
TraceSwitch(t, s)    == IF s \in DOMAIN t.slot THEN [current |-> t.slot[s], slot |-> Drop(t.slot, s)] ELSE t
-----------------------------------------------------------------------------
\* co_create: a new coroutine, or the one in the pool, which a table.remove
\* of an empty table gives back or not, as the version of Lua has it.
Creatable == {c \in Coroutine : co[c].state = "none"}
CoCreate(c, as) ==
  /\ c = pool \/ (c \in Creatable /\ \A d \in Creatable : c <= d)
  /\ pool' = IF c = pool THEN Void ELSE pool
  /\ co' = [co EXCEPT ![c] = as]

Resumed(c) == running' = c /\ phase' = "run"

\* After every yield and every end of a coroutine: trace_count, dispatch_wakeup.
Suspended == running' = Void /\ phase' = "wake"

Waiting(session) == [co[running] EXCEPT !.state = "wait", !.session = session]

\* suspend for CALL and SLEEP.
Yields(session) ==
  /\ lastSession' = session
  /\ sessionCo' = Put(sessionCo, session, running)
  /\ co' = [co EXCEPT ![running] = Waiting(session)]
  /\ trace' = TraceCount(TraceRegister(trace, session))
  /\ Suspended

Call ==
  /\ phase = "run" /\ Use("call")
  /\ Yields(lastSession + 1)
  /\ calls' = calls \cup {lastSession + 1}
  /\ UNCHANGED <<inbox, pool, coSession, sleepSession, wakeupSession, forkQueue, requests, timers, replies, luaFault>>

Sleep ==
  /\ phase = "run" /\ Use("sleep")
  /\ Yields(lastSession + 1)
  /\ timers' = timers \cup {lastSession + 1}
  /\ sleepSession' = Put(sleepSession, running, lastSession + 1)
  /\ UNCHANGED <<inbox, pool, coSession, wakeupSession, forkQueue, requests, calls, replies, luaFault>>

\* skynet.timeout: a coroutine that starts when the timer fires.
Timeout ==
  /\ phase = "run" /\ Use("timeout")
  /\ \E c \in Coroutine :
       /\ CoCreate(c, [state |-> "wait", session |-> lastSession + 1, request |-> Void])
       /\ sessionCo' = Put(sessionCo, lastSession + 1, c)
  /\ lastSession' = lastSession + 1
  /\ timers' = timers \cup {lastSession + 1}
  /\ UNCHANGED <<inbox, phase, running, coSession, sleepSession, wakeupSession, forkQueue, requests, calls, trace, replies, luaFault>>

Fork ==
  /\ phase = "run" /\ Use("fork")
  /\ \E c \in Coroutine :
       /\ CoCreate(c, [state |-> "forked", session |-> Void, request |-> Void])
       /\ forkQueue' = Append(forkQueue, c)
  /\ UNCHANGED <<inbox, phase, running, sessionCo, coSession, sleepSession, wakeupSession, lastSession, requests, calls, timers,
                 trace, replies, luaFault>>

Wakeup ==
  /\ phase = "run" /\ Use("wakeup")
  /\ \E c \in DOMAIN sleepSession \ wakeupSession : wakeupSession' = wakeupSession \cup {c}
  /\ UNCHANGED <<inbox, phase, running, co, pool, sessionCo, coSession, sleepSession, forkQueue, lastSession, requests, calls,
                 timers, trace, replies, luaFault>>

\* skynet.trace; assert(c.trace_new()) fails if there is a trace already.
Trace ==
  /\ phase = "run" /\ Use("trace") /\ trace.current = Void
  /\ TraceNew(running)
  /\ UNCHANGED <<inbox, phase, running, co, pool, sessionCo, coSession, sleepSession, wakeupSession, forkQueue,
                 lastSession, requests, calls, timers, replies, luaFault>>

\* An error: the coroutine is dead, and dispatch_message ends at once.
Fails ==
  /\ co' = [co EXCEPT ![running].state = "dead"]
  /\ running' = Void /\ phase' = "idle"
  /\ trace' = TraceCount(trace)

Error ==
  /\ phase = "run" /\ Use("error") /\ Fails
  /\ UNCHANGED <<inbox, pool, sessionCo, coSession, sleepSession, wakeupSession, forkQueue, lastSession, requests, calls, timers,
                 replies, luaFault>>

\* skynet.ret; c.send without an address is an error.
Ret ==
  /\ phase = "run" /\ Use("ret")
  /\ IF running \in DOMAIN coSession
     THEN /\ replies' = Append(replies, [to |-> coSession[running], by |-> co[running].request])
          /\ trace' = TraceCount(trace)
          /\ UNCHANGED <<running, phase, co>>
     ELSE Fails /\ UNCHANGED replies
  /\ UNCHANGED <<inbox, pool, sessionCo, coSession, sleepSession, wakeupSession, forkQueue, lastSession, requests, calls, timers,
                 luaFault>>

Cleared(c) == coSession' = Drop(coSession, c)

\* The function of the coroutine ends: the coroutine goes to the pool, and a
\* coroutine that was there is lost.
Exit ==
  /\ phase = "run"
  /\ co' = [c \in Coroutine |-> IF c = running THEN [state |-> "pooled", session |-> Void, request |-> Void]
                                ELSE IF c = pool THEN [co[c] EXCEPT !.state = "dead"] ELSE co[c]]
  /\ pool' = running
  /\ Cleared(running)
  /\ trace' = TraceCount(trace)
  /\ Suspended
  /\ UNCHANGED <<inbox, sessionCo, sleepSession, wakeupSession, forkQueue, lastSession, requests, calls, timers, replies, luaFault, left>>

\* Mutant: the session of a broken sleep is forgotten at once.
BrokenForgotten(c) == sessionCo' = Drop(sessionCo, sleepSession[c])

Broken(c) == sessionCo' = Put(sessionCo, sleepSession[c], Break)

\* A coroutine goes on after its wait; skynet.sleep forgets the session.
GoesOn(c) ==
  /\ co' = [co EXCEPT ![c] = [@ EXCEPT !.state = "run", !.session = Void]]
  /\ sleepSession' = Drop(sleepSession, c)
  /\ Resumed(c)

\* dispatch_wakeup: one coroutine, which skynet.sleep tells "BREAK"; its timer
\* is still to come.
DispatchWakeup ==
  /\ phase = "wake"
  /\ \/ /\ wakeupSession = {} /\ phase' = "fork"
        /\ UNCHANGED <<running, co, sessionCo, sleepSession, wakeupSession, trace, luaFault>>
     \/ \E c \in wakeupSession :
          /\ wakeupSession' = wakeupSession \ {c}
          /\ IF c \in DOMAIN sleepSession
             THEN /\ Broken(c)
                  /\ luaFault' = (luaFault \/ trace.current # Void)
                  /\ trace' = TraceSwitch(trace, sleepSession[c])
                  /\ GoesOn(c)
             ELSE phase' = "fork" /\ UNCHANGED <<running, co, sessionCo, sleepSession, trace, luaFault>>
  /\ UNCHANGED <<inbox, pool, coSession, forkQueue, lastSession, requests, calls, timers, replies, left>>

DispatchFork ==
  /\ phase = "fork"
  /\ IF forkQueue = <<>> THEN phase' = "idle" /\ UNCHANGED <<running, co, forkQueue>>
     ELSE /\ forkQueue' = Tail(forkQueue)
          /\ co' = [co EXCEPT ![Head(forkQueue)].state = "run"]
          /\ Resumed(Head(forkQueue))
  /\ UNCHANGED <<inbox, pool, sessionCo, coSession, sleepSession, wakeupSession, lastSession, requests, calls, timers, trace,
                 replies, luaFault, left>>

\* dispatch_message for a response.
DispatchResponse ==
  /\ phase = "idle" /\ inbox # <<>> /\ Head(inbox).type = "response"
  /\ inbox' = Tail(inbox)
  /\ LET s == Head(inbox).session
         c == Entry(sessionCo, s)
     IN  /\ sessionCo' = Drop(sessionCo, s)
         /\ IF c = Break
            THEN phase' = "fork" /\ UNCHANGED <<running, co, sleepSession, trace, luaFault>>
            ELSE IF c = Void
            THEN luaFault' = TRUE /\ UNCHANGED <<phase, running, co, sleepSession, trace>>
            ELSE /\ luaFault' = (luaFault \/ trace.current # Void)
                 /\ trace' = TraceSwitch(trace, s)
                 /\ GoesOn(c)
  /\ UNCHANGED <<pool, coSession, wakeupSession, forkQueue, lastSession, requests, calls, timers, replies, left>>

\* dispatch_message for a request.
DispatchRequest ==
  /\ phase = "idle" /\ inbox # <<>> /\ Head(inbox).type = "request"
  /\ inbox' = Tail(inbox)
  /\ \E c \in Coroutine :
       /\ CoCreate(c, [state |-> "run", session |-> Void, request |-> Head(inbox).session])
       /\ coSession' = Put(coSession, c, Head(inbox).session)
       /\ Resumed(c)
  /\ UNCHANGED <<sessionCo, sleepSession, wakeupSession, forkQueue, lastSession, requests, calls, timers, trace, replies, luaFault, left>>

\* The debug command GC, as a message that the service handles at once.
CollectGarbage ==
  /\ phase = "idle" /\ Use("gc") /\ pool' = Void
  /\ co' = [c \in Coroutine |-> IF c = pool THEN [co[c] EXCEPT !.state = "dead"] ELSE co[c]]
  /\ UNCHANGED <<inbox, phase, running, sessionCo, coSession, sleepSession, wakeupSession, forkQueue, lastSession, requests, calls,
                 timers, trace, replies, luaFault>>
-----------------------------------------------------------------------------
(* The other services and the timer thread.                                *)

SameLua == UNCHANGED <<phase, running, co, pool, sessionCo, coSession, sleepSession, wakeupSession, forkQueue, lastSession,
                       trace, replies, luaFault>>

Request ==
  /\ Use("request") /\ requests' = requests + 1
  /\ inbox' = Append(inbox, [type |-> "request", session |-> requests'])
  /\ SameLua /\ UNCHANGED <<calls, timers>>

Answer(s) ==
  /\ s \in calls /\ calls' = calls \ {s}
  /\ inbox' = Append(inbox, [type |-> "response", session |-> s])
  /\ SameLua /\ UNCHANGED <<requests, timers, left>>

Fires(s) ==
  /\ s \in timers /\ timers' = timers \ {s}
  /\ inbox' = Append(inbox, [type |-> "response", session |-> s])
  /\ SameLua /\ UNCHANGED <<requests, calls, left>>

LuaNext ==
  \/ Call \/ Sleep \/ Timeout \/ Fork \/ Wakeup \/ Trace \/ Error \/ Ret \/ Exit \/ CollectGarbage
  \/ DispatchWakeup \/ DispatchFork \/ DispatchResponse \/ DispatchRequest
  \/ Request \/ (\E s \in calls : Answer(s)) \/ (\E s \in timers : Fires(s))
-----------------------------------------------------------------------------
Arriving(s) == {i \in DOMAIN inbox : inbox[i].type = "response" /\ inbox[i].session = s}

\* A coroutine that waits is the one its session stands for, nobody else is
\* resumed in its place, and the response it waits for is still to come,
\* once; a session whose coroutine went on before its timer is remembered
\* until the timer fires.  So no response is unknown, and the assertions of
\* the traces hold (suspend, dispatch_wakeup, dispatch_message; wake-ups,
\* forks, errors and the reuse of coroutines in between).
AnswersMatched ==
  /\ ~luaFault
  /\ \A c \in Coroutine : co[c].state = "wait" =>
       /\ Entry(sessionCo, co[c].session) = c
       /\ Cardinality(Arriving(co[c].session)) + (IF co[c].session \in calls \cup timers THEN 1 ELSE 0) = 1
  /\ \A s \in DOMAIN sessionCo :
       IF sessionCo[s] = Break THEN s \in timers \/ Arriving(s) # {}
       ELSE co[sessionCo[s]].state = "wait" /\ co[sessionCo[s]].session = s

\* A reply goes to the request that the coroutine was started for: never to
\* one that the same coroutine served before it was used again for a timer,
\* a fork or another request (session_coroutine_id, EXIT).
RepliesToOwnRequest == \A i \in DOMAIN replies : replies[i].to = replies[i].by
-----------------------------------------------------------------------------
(* The inductive invariant.                                                *)
SessionAssumption ==
  /\ Coroutine \subseteq Nat \ {Break}
  /\ Void \notin Coroutine \cup {Break}

CoState == {"none", "pooled", "forked", "run", "wait", "dead"}
Message == [type : {"request", "response"}, session : Int]
CoRecord == [state : CoState, session : Int \cup {Void}, request : Int \cup {Void}]

SessionTypeOK ==
  /\ inbox \in Seq(Message) /\ forkQueue \in Seq(Coroutine)
  /\ co \in [Coroutine -> CoRecord]
  /\ lastSession \in Nat /\ requests \in Nat
  /\ calls \subseteq 1 .. lastSession /\ timers \subseteq 1 .. lastSession
  /\ wakeupSession \subseteq Coroutine
  /\ replies \in Seq([to : Int \cup {Void}, by : Int \cup {Void}])

\* One coroutine runs at a time, and it has the trace if there is one.
OneRuns ==
  /\ phase \in {"idle", "run", "wake", "fork"}
  /\ phase = "run" => running \in Coroutine /\ co[running].state = "run"
  /\ phase # "run" => trace.current = Void
  /\ ~luaFault

\* The pool and the fork queue hold coroutines that nobody waits for.
AtRest ==
  /\ pool # Void => pool \in Coroutine /\ co[pool].state = "pooled"
  /\ \A i \in 1 .. Len(forkQueue) : co[forkQueue[i]].state = "forked"
  /\ \A i, j \in 1 .. Len(forkQueue) : forkQueue[i] = forkQueue[j] => i = j

\* A response is on its way once, from the yield to dispatch_message, and as
\* long there is an entry for its session.
Response(i, s) == inbox[i].type = "response" /\ inbox[i].session = s
Outstanding ==
  /\ calls \cap timers = {}
  /\ DOMAIN sessionCo \subseteq 1 .. lastSession
  /\ \A i \in 1 .. Len(inbox) : inbox[i].type = "response" =>
       inbox[i].session \in DOMAIN sessionCo \ (calls \cup timers)
  /\ \A i, j \in 1 .. Len(inbox) : \A s \in 1 .. lastSession :
       Response(i, s) /\ Response(j, s) => i = j
  /\ calls \cup timers \subseteq DOMAIN sessionCo
  /\ \A s \in DOMAIN sessionCo :
       s \in calls \cup timers \/ \E i \in 1 .. Len(inbox) : Response(i, s)

\* The entry for a session is the coroutine that waits for it.
Waiters ==
  /\ \A s \in DOMAIN sessionCo :
       /\ sessionCo[s] \in Coroutine \cup {Break}
       /\ sessionCo[s] = Break => s \notin calls
       /\ sessionCo[s] # Break => co[sessionCo[s]].state = "wait" /\ co[sessionCo[s]].session = s
  /\ \A c \in Coroutine : co[c].state = "wait" =>
       co[c].session \in DOMAIN sessionCo /\ sessionCo[co[c].session] = c

\* Who sleeps waits for a timer.
Sleepers ==
  /\ DOMAIN sleepSession \subseteq Coroutine
  /\ \A c \in DOMAIN sleepSession :
       co[c].state = "wait" /\ co[c].session = sleepSession[c] /\ sleepSession[c] \notin calls

\* A coroutine has the request it was started for until it ends.
OwnRequest ==
  /\ \A c \in DOMAIN coSession :
       /\ c \in Coroutine /\ co[c].state \in {"run", "wait", "dead"}
       /\ coSession[c] = co[c].request
  /\ RepliesToOwnRequest

SessionInv ==
  /\ SessionTypeOK /\ OneRuns /\ AtRest /\ Outstanding /\ Waiters /\ Sleepers /\ OwnRequest
=============================================================================
