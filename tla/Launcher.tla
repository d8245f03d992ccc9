------------------------------ MODULE Launcher ------------------------------
(***************************************************************************)
(* How Lua services come to life: service/launcher.lua, service_mgr.lua    *)
(* and redis-mgr.lua, skynet.newservice and skynet.uniqueservice, and the  *)
(* start of a Lua service (service-src/service_lua.c).                     *)
(*                                                                         *)
(* The launcher creates the service and answers when the service says that *)
(* its start function is done.  The managers ask the launcher in a         *)
(* coroutine, and handle other requests while they wait.                   *)
(***************************************************************************)
EXTENDS Common, Sequences, FiniteSets

CONSTANTS
  Caller,           \* services that ask for another
  Unique,           \* names asked of service_mgr
  Database,         \* names asked of redis-mgr
  Known             \* the databases of the configuration

VARIABLES
  caller,           \* caller -> [state, name, handle]
  unique,           \* service_mgr: service, name -> handle or Launching
  connection,       \* redis-mgr: connection, name -> handle
  launches,         \* LAUNCH requests to the launcher: [name, for]
  services,         \* launcher: services, handle -> name
  instance,         \* launcher: instance, handle -> who waits for it
  notices,          \* texts to the launcher: [from, ok]
  answers,          \* answers of the launcher to a manager: [for, name, handle]
  life              \* handle -> [name, state]

launcherVars == <<caller, unique, connection, launches, services, instance, notices, answers, life>>

Launching == 0      \* false: the service is being launched

LauncherInit ==
  /\ caller = [c \in Caller |-> [state |-> "idle", name |-> Void, handle |-> Void]]
  /\ unique = <<>> /\ connection = <<>> /\ launches = <<>> /\ services = <<>> /\ instance = <<>>
  /\ notices = <<>> /\ answers = <<>> /\ life = <<>>

\* skynet.uniqueservice, or redis.connect.
Asks(c) ==
  /\ Use("ask") /\ caller[c].state = "idle"
  /\ \E n \in Unique \cup Database : caller' = [caller EXCEPT ![c] = [@ EXCEPT !.state = "asked", !.name = n]]
  /\ UNCHANGED <<unique, connection, launches, services, instance, notices, answers, life>>

Returns(c, handle) == caller' = [caller EXCEPT ![c] = [@ EXCEPT !.state = "done", !.handle = handle]]

\* The answer of a manager: false means that the service is being launched,
\* and uniqueservice asks again after a sleep.
Answered(c, handle) ==
  IF handle = Launching THEN caller' = [caller EXCEPT ![c].state = "again"] ELSE Returns(c, handle)

NewService(c) ==
  /\ launches' = Append(launches, [name |-> caller[c].name, for |-> c])
  /\ caller' = [caller EXCEPT ![c].state = "waits"]

Query(n) == unique' = Put(unique, n, Launching)

\* service_mgr: the dispatch function, up to the call of the launcher.
ServiceManager(c) ==
  /\ caller[c].state \in {"asked", "again"} /\ caller[c].name \in Unique
  /\ IF caller[c].name \in DOMAIN unique
     THEN Answered(c, unique[caller[c].name]) /\ UNCHANGED <<unique, launches>>
     ELSE Query(caller[c].name) /\ NewService(c)
  /\ UNCHANGED <<connection, services, instance, notices, answers, life, left>>

\* redis-mgr: a database that is being launched is launched again.
RedisManager(c) ==
  /\ caller[c].state = "asked" /\ caller[c].name \in Database
  /\ IF caller[c].name \in DOMAIN connection THEN Returns(c, connection[caller[c].name]) /\ UNCHANGED launches
     ELSE IF caller[c].name \notin Known THEN Returns(c, Void) /\ UNCHANGED launches
     ELSE NewService(c)
  /\ UNCHANGED <<unique, connection, services, instance, notices, answers, life, left>>

\* Mutant: a failed launch leaves the name taken.
LaunchedKept(n, handle) == unique' = IF handle = Void THEN unique ELSE Put(unique, n, handle)

Launched(n, handle) == unique' = IF handle = Void THEN Drop(unique, n) ELSE Put(unique, n, handle)

\* The manager's coroutine goes on with the launcher's answer.
ManagerResumes ==
  /\ answers # <<>> /\ answers' = Tail(answers)
  /\ LET a == Head(answers)
     IN  /\ Returns(a.for, a.handle)
         /\ IF a.name \in Unique THEN Launched(a.name, a.handle) /\ UNCHANGED connection
            ELSE /\ connection' = IF a.handle = Void THEN Drop(connection, a.name) ELSE Put(connection, a.name, a.handle)
                 /\ UNCHANGED unique
  /\ UNCHANGED <<launches, services, instance, notices, life, left>>

\* The launcher: LAUNCH.  Without a context the answer is nil at once.
Launch ==
  /\ launches # <<>> /\ launches' = Tail(launches)
  /\ LET r == Head(launches)
         h == Cardinality(DOMAIN life) + 1
     IN  \/ /\ life' = Put(life, h, [name |-> r.name, state |-> "loads"])
            /\ services' = Put(services, h, r.name)
            /\ instance' = Put(instance, h, r.for)
            /\ UNCHANGED <<answers, left>>
         \/ /\ Use("nocontext")
            /\ answers' = Append(answers, [for |-> r.for, name |-> r.name, handle |-> Void])
            /\ UNCHANGED <<life, services, instance>>
  /\ UNCHANGED <<caller, unique, connection, notices>>

\* The first message of the service: _launch loads and runs the file.
Loads(h) ==
  /\ life[h].state = "loads"
  /\ \/ life' = [life EXCEPT ![h].state = "starts"] /\ UNCHANGED <<notices, left>>
     \/ /\ Use("loaderror")
        /\ life' = [life EXCEPT ![h].state = "gone"]
        /\ notices' = Append(notices, [from |-> h, ok |-> FALSE])
  /\ UNCHANGED <<caller, unique, connection, launches, services, instance, answers>>

\* The timer of skynet.start: the start function runs, then the notice is
\* sent.  An error of the start function leaves the launcher without one.
Starts(h) ==
  /\ life[h].state = "starts"
  /\ \/ /\ life' = [life EXCEPT ![h].state = "runs"]
        /\ notices' = Append(notices, [from |-> h, ok |-> TRUE])
        /\ UNCHANGED left
     \/ Use("starterror") /\ life' = [life EXCEPT ![h].state = "broken"] /\ UNCHANGED notices
  /\ UNCHANGED <<caller, unique, connection, launches, services, instance, answers>>

\* The launcher: a text from a service.
Notice ==
  /\ notices # <<>> /\ notices' = Tail(notices)
  /\ LET n == Head(notices)
     IN  IF n.from \in DOMAIN instance
         THEN /\ answers' = Append(answers, [for |-> instance[n.from], name |-> life[n.from].name,
                                             handle |-> IF n.ok THEN n.from ELSE Void])
              /\ instance' = Drop(instance, n.from)
              /\ services' = IF n.ok THEN services ELSE Drop(services, n.from)
         ELSE UNCHANGED <<answers, instance, services>>
  /\ UNCHANGED <<caller, unique, connection, launches, life, left>>

\* skynet.exit, or KILL at the console: the launcher forgets the service but
\* not who waits for it.
Remove ==
  /\ Use("remove")
  /\ \E h \in DOMAIN services :
       /\ services' = Drop(services, h)
       /\ life' = [life EXCEPT ![h].state = "gone"]
  /\ UNCHANGED <<caller, unique, connection, launches, instance, notices, answers>>

LauncherStep ==
  \/ \E c \in Caller : ServiceManager(c) \/ RedisManager(c)
  \/ ManagerResumes \/ Launch \/ Notice
  \/ \E h \in DOMAIN life : Loads(h) \/ Starts(h)

LauncherNext == LauncherStep \/ Remove \/ \E c \in Caller : Asks(c)

LauncherFairness ==
  /\ WF_launcherVars(ManagerResumes) /\ WF_launcherVars(Launch) /\ WF_launcherVars(Notice)
  /\ \A c \in Caller : WF_launcherVars(ServiceManager(c)) /\ WF_launcherVars(RedisManager(c))
  /\ \A h \in 1 .. 2 * Cardinality(Caller) : WF_launcherVars(h \in DOMAIN life /\ (Loads(h) \/ Starts(h)))
-----------------------------------------------------------------------------
\* A service asked of service_mgr exists once, and everybody is given the
\* same one, although requests arrive while it is being launched and a
\* launch may fail (service_mgr.lua, query).
UniqueInstance ==
  \A n \in Unique :
    /\ Cardinality({h \in DOMAIN life : life[h].name = n /\ life[h].state # "gone"}) <= 1
    /\ \A c, d \in Caller : /\ caller[c].state = "done" /\ caller[c].name = n /\ caller[c].handle # Void
                            /\ caller[d].state = "done" /\ caller[d].name = n /\ caller[d].handle # Void
                            => caller[c].handle = caller[d].handle \/ life[caller[c].handle].state = "gone"
                                 \/ life[caller[d].handle].state = "gone"

\* The launcher gets no word of a service whose start function fails or that
\* goes before its start function is done.
Silent == \E h \in DOMAIN instance : life[h].state \in {"broken", "gone"} /\ ~\E i \in DOMAIN notices : notices[i].from = h

\* Whoever asks for a service has an answer in the end, also when the
\* service cannot be made or loaded, unless a service went without a word
\* (launcher.lua, the two kinds of text; uniqueservice's loop).
QueriesReturn == \A c \in Caller : []<>(caller[c].state \in {"idle", "done"} \/ Silent)
=============================================================================
