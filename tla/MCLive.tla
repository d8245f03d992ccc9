-------------------------------- MODULE MCLive --------------------------------
(***************************************************************************)
(* What must happen in the end, for TLC: a writer gets the lock, a message *)
(* queue that is scheduled is taken, who asks for a service is answered,   *)
(* and a match ends.  As in MCHall a behaviour follows the part its mix    *)
(* names.                                                                  *)
(***************************************************************************)
EXTENDS RWLock, Common, Sequences, TLC

CONSTANTS
    Queue, Boot, Worker, None, MAX_GLOBAL_MQ, WIDTH,   \* GlobalMQ
    Caller, Unique, Database, Known,                   \* Launcher
    Player, Purse, Hand, BullType, BullAdd, Upling, Bet, BaseBets, PlayerFee, BankerFee,
    MinMoney                                           \* BullfightGame

VARIABLES
    head, tail, slots, flag, idle, has, ringPc, pos, arg,
    caller, unique, connection, launches, services, instance, notices, answers, life,
    game, agent, inbox, shut, fees, cut

lockVars      == <<write, read, pc>>
ringVars      == <<head, tail, slots, flag, idle, has, ringPc, pos, arg>>
launcherVars  == <<caller, unique, connection, launches, services, instance, notices,
                   answers, life>>
bullfightVars == <<game, agent, inbox, shut, fees, cut>>

Ring     == INSTANCE GlobalMQ WITH pc <- ringPc
Launches == INSTANCE Launcher
Match    == INSTANCE BullfightGame

ASSUME LiveAssumption == Ring!RingAssumption

(* The mixes name the part they are for.                                   *)
Of(part, mixes) == {(part :> 1) @@ mix : mix \in mixes}

LiveMixes ==
    Of("RWLock", {<<>>}) \cup
    Of("GlobalMQ", {<<>>}) \cup
    Of("Launcher", {
        [ask |-> 3, loaderror |-> 1, nocontext |-> 1, starterror |-> 1],
        [ask |-> 3, remove |-> 1]}) \cup
    Of("BullfightGame", {[enter |-> 2, sit |-> 2, match |-> 1, close |-> 1]})

-----------------------------------------------------------------------------
Part(p) == p \in DOMAIN left

LiveInit ==
    /\ MixInit
    /\ Init /\ Ring!Init /\ Launches!LauncherInit /\ Match!BullfightInit

LiveNext ==
    \/ Part("RWLock") /\ Next
       /\ UNCHANGED <<ringVars, launcherVars, bullfightVars, left>>
    \/ Part("GlobalMQ") /\ Ring!Next /\ Ring!Pace
       /\ UNCHANGED <<lockVars, launcherVars, bullfightVars, left>>
    \/ Part("Launcher") /\ Launches!LauncherNext
       /\ UNCHANGED <<lockVars, ringVars, bullfightVars>>
    \/ Part("BullfightGame") /\ Match!BullfightNext
       /\ UNCHANGED <<lockVars, ringVars, launcherVars>>

liveVars == <<lockVars, ringVars, launcherVars, bullfightVars, left>>

(* The fairness of the ring, whose workers never rest, where the mix names *)
(* it (Fairness of GlobalMQ); the fair actions of the other parts cannot   *)
(* be taken while they rest.                                               *)
RingFairness ==
    \A t \in Worker :
        /\ WF_ringVars(Part("GlobalMQ") /\ Ring!Inside(t))
        /\ WF_ringVars(Part("GlobalMQ") /\ Ring!PopHead(t))
        /\ SF_ringVars(Part("GlobalMQ") /\ (Ring!PutBack(t) \/ Ring!LeaveOut(t)))

LiveSpec ==
    /\ LiveInit /\ [][LiveNext]_liveVars
    /\ \A t \in Thread : WF_lockVars(Work(t))
    /\ RingFairness
    /\ Launches!LauncherFairness
    /\ Match!BullfightFairness

-----------------------------------------------------------------------------
(* The constants.                                                          *)
LivePurse    == <<40, 22, 33>>
LiveBullType == <<0, 14>>
LiveBullAdd  == 0 :> 1 @@ 14 :> 10
LiveBets     == <<1, 2>>

-----------------------------------------------------------------------------
(* skynet_mq.c: the global queue is an atomic FIFO (ImplementsFifo of      *)
(* GlobalMQ).                                                              *)
ImplementsFifo == Ring!ImplementsFifo

(* skynet_mq.c: what is pushed to the global queue is popped in the end    *)
(* (EventuallyPopped of GlobalMQ).                                         *)
EventuallyPopped == Part("GlobalMQ") => Ring!EventuallyPopped

(* launcher.lua, service_mgr.lua and redis-mgr.lua: a unique service       *)
(* exists once, and who asks for a service is answered (UniqueInstance and *)
(* QueriesReturn of Launcher).                                             *)
QueriesReturn == []Launches!UniqueInstance /\ Launches!QueriesReturn

(* bfgame.lua: a match ends, and a table that is to be closed says so      *)
(* (MatchEnds of BullfightGame).                                           *)
MatchEnds == Match!MatchEnds
=============================================================================
