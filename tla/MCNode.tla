-------------------------------- MODULE MCNode --------------------------------
(***************************************************************************)
(* What a node is made of below its services, for TLC: the buffer of a     *)
(* message queue, the handle storage, the timer, the modules with the      *)
(* environment, and the memory of messages.  As in MCHall a behaviour      *)
(* follows the part its mix names.                                         *)
(***************************************************************************)
EXTENDS MessageQueue, Common, TLC

CONSTANTS
    Context, Thread, Name, NULL, HANDLE_MASK, DEFAULT_SLOT_SIZE, Handles,  \* HandleStorage
    Node, TIME_NEAR, TIME_LEVEL, Timeouts, MaxTick, MaxDue,                \* TimerWheel
    Loader, ModuleName, NoFile, NoSymbols, MaxModule, Key, Setting,        \* Modules
    Actor, NamedActor, Mute, MaxBuffers                                    \* Payload

VARIABLES
    slotSize, slot, handleIndex, names, handleOf, given, threadPc, arg, grabbed, old,
    storageFault, early, moved,
    time, near, t, expire, pc, diff, current, now, due, log, order, fault,
    count, table, lock, loader, opened, wasFull, env, read, aborted,
    heap, made, alive, inbox, handling, held, orphan, misused

queueVars   == <<cap, head, tail, buffer, result>>
storageVars == <<slotSize, slot, handleIndex, names, handleOf, given, threadPc, arg,
                 grabbed, old, storageFault, early, moved>>
timerVars   == <<time, near, t, expire, pc, diff, current, now, due, log, order, fault>>
moduleVars  == <<count, table, lock, loader, opened, wasFull, env, read, aborted>>
payloadVars == <<heap, made, alive, inbox, handling, held, orphan, misused>>

Storage == INSTANCE HandleStorage WITH
    Garbage <- Handles, pc <- threadPc, held <- grabbed
Timer   == INSTANCE TimerWheel
Loading == INSTANCE Modules
Memory  == INSTANCE Payload

ASSUME NodeAssumption ==
    /\ Storage!StorageAssumption /\ Timer!WheelAssumption
    /\ Loading!ModulesAssumption /\ Memory!PayloadAssumption

Of(part, mixes) == {(part :> 1) @@ mix : mix \in mixes}

(* Registrations that fill the table of two slots and wrap around the four *)
(* handles, names whose services retire, and an ABORT while services       *)
(* register and retire; three threads, of which two may be between taking a *)
(* slot and storing the handle.                                            *)
NodeMixes ==
    Of("HandleStorage", {
        [register |-> 5, retire |-> 2, grab |-> 2],
        [register |-> 3, retire |-> 1, name |-> 3],
        [register |-> 3, retire |-> 2, abort |-> 1]}) \cup
    Of("Modules", {
        [launch |-> 3],
        [getenv |-> 2, setenv |-> 3]}) \cup
    Of("Payload", {
        [in |-> 1, send |-> 3, retire |-> 1],
        [in |-> 1, forward |-> 2, send |-> 1, retire |-> 1],
        [in |-> 2, forward |-> 1, send |-> 1, retire |-> 1]}) \cup
    {"MessageQueue" :> 1, "TimerWheel" :> 1}

(* Registrations and retires, of several threads at once.                  *)
RegisterMix == Of("HandleStorage", {[register |-> 5, retire |-> 2]})

TimerMix == {"TimerWheel" :> 1}

-----------------------------------------------------------------------------
Part(p) == p \in DOMAIN left

NodeInit ==
    /\ MixInit /\ Init /\ Storage!HandlesInit /\ Timer!WheelInit /\ Loading!ModulesInit
    /\ Memory!PayloadInit

(* The capacity does not grow beyond MaxCap.                               *)
QueueStep ==
    /\ Part("MessageQueue") /\ Next /\ cap' <= MaxCap
    /\ UNCHANGED <<storageVars, timerVars, moduleVars, payloadVars, left>>

StorageStep ==
    /\ Part("HandleStorage") /\ Storage!HandlesNext
    /\ UNCHANGED <<queueVars, timerVars, moduleVars, payloadVars>>

TimerStep ==
    /\ Part("TimerWheel") /\ Timer!WheelNext
    /\ UNCHANGED <<queueVars, storageVars, moduleVars, payloadVars, left>>

NodeNext ==
    \/ QueueStep
    \/ StorageStep
    \/ TimerStep
    \/ /\ Part("Modules") /\ Loading!ModulesNext
       /\ UNCHANGED <<queueVars, storageVars, timerVars, payloadVars>>
    \/ /\ Part("Payload") /\ Memory!PayloadNext
       /\ UNCHANGED <<queueVars, storageVars, timerVars, moduleVars>>

nodeVars == <<queueVars, storageVars, timerVars, moduleVars, payloadVars, left>>

NodeSpec == NodeInit /\ [][NodeNext]_nodeVars

(* Threads use the storage while a registration is between its unlock and  *)
(* its store to ctx->handle.                                               *)
RegisterSpec == NodeInit /\ [][StorageStep]_nodeVars

TimerSpec == NodeInit /\ [][TimerStep]_nodeVars

-----------------------------------------------------------------------------
(* The constants: timeouts of every length that the wheel sorts            *)
(* differently, within the near lists, to the next list and the one after, *)
(* and to each level; and some ticks into the second list of the highest.  *)
SomeTimeouts ==
    {1, 2, TIME_NEAR + 1} \cup
    {TIME_NEAR * TIME_LEVEL ^ i + 1 : i \in 1 .. 3}

HighestLevel == TIME_NEAR * TIME_LEVEL ^ 3 + 2

(* The memory of one context is as good as that of another.                *)
StorageSymmetry == Permutations(Context)

-----------------------------------------------------------------------------
(* skynet_handle.c: a registered service is found under its handle, a grab *)
(* returns the service that was asked for, names are found, and ABORT      *)
(* leaves nothing behind (Reachable, GrabFindsOwner, NamesFound and        *)
(* AbortEmpties of HandleStorage), whatever other threads do between the   *)
(* unlock of skynet_handle_register and its store to ctx->handle.  What    *)
(* they do by the old content of that memory is exempt: a grab that finds  *)
(* a context before the store (early), and a context that a growing table  *)
(* moves before it (moved).                                                *)
HandlesRight ==
    Part("HandleStorage") =>
        /\ Storage!Reachable /\ Storage!GrabFindsOwner /\ Storage!NamesFound
        /\ Storage!AbortEmpties

(* skynet_handle.c: a name leaves the list only with its service           *)
(* (NamesKept of HandleStorage).                                           *)
NamesKept == Storage!NamesKept

(* skynet_timer.c: timeouts are dispatched once, in their tick, and in the *)
(* order in which they were asked for (OnTime and InOrder of TimerWheel).  *)
TimeoutsRight == Part("TimerWheel") => Timer!OnTime /\ Timer!InOrder

(* skynet_module.c and skynet_env.c: a service gets the module it asked    *)
(* for, complete and loaded once, and what GETENV answered stays           *)
(* (ModuleReady, LoadedOnce and ReadStays of Modules).                     *)
ModulesRight ==
    Part("Modules") => Loading!ModuleReady /\ Loading!LoadedOnce /\ Loading!ReadStays

(* lua-skynet.c and skynet_server.c: the memory of a message has one       *)
(* owner, who frees it once, and is not lost (OneOwner and NothingLost of  *)
(* Payload).                                                               *)
PayloadRight == Part("Payload") => Memory!OneOwner /\ Memory!NothingLost

(* skynet_handle.c: assert(new_slot[hash] == NULL) in                      *)
(* skynet_handle_register.                                                 *)
RehashAssertion == Storage!RehashAssertion

(* skynet_timer.c: "when cs > 0xffffffff(about 497 days), time rewind".    *)
TimeRewinds == Timer!TimeRewinds
=============================================================================
