------------------------------- MODULE TimerWheel ------------------------------
(***************************************************************************)
(* The timing wheel of skynet_timer.c: lists of nodes for the next         *)
(* TIME_NEAR ticks, and four levels of lists for later ones, whose nodes   *)
(* move down when the time gets near.  The timer thread advances it one    *)
(* tick at a time (timer_update) as often as the clock says, and runs the  *)
(* expired lists without the lock, while service threads add nodes.  What  *)
(* LOCK(T)/UNLOCK(T) encloses is one step.                                 *)
(***************************************************************************)
EXTENDS Integers, Sequences

CONSTANTS
    Node,        \* the timer nodes
    TIME_NEAR,   \* 2^8
    TIME_LEVEL,  \* 2^6
    Timeouts,    \* the timeouts that services ask for
    MaxTick,     \* how far the clock goes (a bound)
    MaxDue       \* the last tick that a node is added for (a bound)

LEVELS == 4

(* How long a stretch of time of level i is: the mask of add_node.         *)
Size(i) ==
    TIME_NEAR * <<1, TIME_LEVEL, TIME_LEVEL * TIME_LEVEL, TIME_LEVEL * TIME_LEVEL * TIME_LEVEL,
                  TIME_LEVEL * TIME_LEVEL * TIME_LEVEL * TIME_LEVEL>>[i + 1]

WIDTH == Size(LEVELS)   \* 2^32: time is an int

(* A timeout is a positive int, less than half of 2^32.                    *)
WheelAssumption ==
    /\ TIME_NEAR \in Nat \ {0} /\ TIME_LEVEL \in Nat \ {0, 1}
    /\ Timeouts \subseteq 1 .. WIDTH \div 2 /\ MaxTick \in Nat /\ MaxDue \in Nat

VARIABLES
    time,     \* T->time
    near, t,  \* T->near, T->t: lists of nodes
    expire,   \* node->expire
    pc,       \* where the timer thread is in timer_update
    diff,     \* the ticks that skynet_updatetime has still to do
    current,  \* the list that dispatch_list works on
    now,      \* the ticks since the start, without overflow
    due,      \* when a node should be dispatched; 0 if it was not added
    log,      \* the nodes that were dispatched, and when
    order,    \* the nodes in the order in which they were added
    fault

wheel == <<time, near, t, expire>>
wheelVars == <<wheel, pc, diff, current, now, due, log, order, fault>>

(* timer_create_timer *)
WheelInit ==
    /\ time = 0
    /\ near = [j \in 0 .. TIME_NEAR - 1 |-> <<>>]
    /\ t = [i \in 0 .. LEVELS - 1 |-> [j \in 0 .. TIME_LEVEL - 2 |-> <<>>]]
    /\ expire = [n \in Node |-> 0]
    /\ pc = "wait" /\ diff = 0 /\ current = <<>>
    /\ now = 0 /\ due = [n \in Node |-> 0] /\ log = <<>> /\ order = <<>>
    /\ fault = "none"

-----------------------------------------------------------------------------
(* add_node: where a node that expires at e goes, if it is cur now.        *)

(* The number of the stretch of time that x lies in, at level i.           *)
Stretch(x, i) == x \div Size(i)

(* The lowest level at which both are in the same stretch, at most the     *)
(* highest one.                                                            *)
Level(e, cur) ==
    LET same == {i \in 0 .. LEVELS - 2 : Stretch(e, i + 1) = Stretch(cur, i + 1)}
    IN  IF same = {} THEN LEVELS - 1 ELSE CHOOSE i \in same : \A k \in same : i <= k

Index(e, i) == (Stretch(e, i) % TIME_LEVEL) - 1

(* Mutant: the node is linked in front of the others.                      *)
LinkedFirst(w, n, e, cur) ==
    IF Stretch(e, 0) = Stretch(cur, 0)
    THEN [w EXCEPT !.near[e % TIME_NEAR] = <<n>> \o @]
    ELSE LET i == Level(e, cur) IN [w EXCEPT !.t[i][Index(e, i)] = <<n>> \o @]

Linked(w, n, e, cur) ==
    IF Stretch(e, 0) = Stretch(cur, 0)
    THEN [w EXCEPT !.near[e % TIME_NEAR] = Append(@, n)]
    ELSE LET i == Level(e, cur) IN [w EXCEPT !.t[i][Index(e, i)] = Append(@, n)]

(* The level's lists have no index -1.                                     *)
OutOfRange(e, cur) ==
    Stretch(e, 0) # Stretch(cur, 0) /\ Index(e, Level(e, cur)) < 0

(* timer_add, by the thread of a service.                                  *)
Add == \E n \in Node, d \in Timeouts :
    LET e == (time + d) % WIDTH IN
    /\ due[n] = 0 /\ now + d <= MaxDue
    /\ due' = [due EXCEPT ![n] = now + d]
    /\ order' = Append(order, n)
    /\ expire' = [expire EXCEPT ![n] = e]
    /\ IF OutOfRange(e, time)
       THEN fault' = "index" /\ UNCHANGED <<near, t>>
       ELSE LET w == Linked([near |-> near, t |-> t], n, e, time) IN
            near' = w.near /\ t' = w.t /\ UNCHANGED fault
    /\ UNCHANGED <<time, pc, diff, current, now, log>>

-----------------------------------------------------------------------------
(* skynet_updatetime, by the timer thread: the clock has gone on by d; a   *)
(* clock that has gone back is ignored.                                    *)
Update == \E d \in 1 .. 2 :
    /\ pc = "wait" /\ now + d <= MaxTick
    /\ diff' = d
    /\ pc' = "first"
    /\ UNCHANGED <<wheel, current, now, due, log, order, fault>>

(* timer_execute: take the list of this tick, until it is found empty.     *)
Execute ==
    LET j == time % TIME_NEAR IN
    /\ pc \in {"first", "second"} /\ current = <<>>
    /\ IF near[j] # <<>>
       THEN /\ current' = near[j]
            /\ near' = [near EXCEPT ![j] = <<>>]
            /\ UNCHANGED <<pc, diff>>
       ELSE /\ pc' = IF pc = "first" THEN "shift" ELSE IF diff = 1 THEN "wait" ELSE "first"
            /\ diff' = IF pc = "second" THEN diff - 1 ELSE diff
            /\ UNCHANGED <<near, current>>
    /\ UNCHANGED <<time, t, expire, now, due, log, order, fault>>

(* dispatch_list, one node: skynet_context_push.                           *)
Fire ==
    /\ current # <<>>
    /\ log' = Append(log, [node |-> Head(current), at |-> now])
    /\ current' = Tail(current)
    /\ UNCHANGED <<wheel, pc, diff, now, due, order, fault>>

(* The level whose list moves down when the time becomes x: the lowest one *)
(* at which x does not begin a stretch of the next level.                  *)
Turning(x) == {i \in 0 .. LEVELS - 1 :
    /\ x % Size(i) = 0
    /\ Stretch(x, i) % TIME_LEVEL # 0
    /\ \A k \in 0 .. i - 1 : Stretch(x, k) % TIME_LEVEL = 0}

(* The list is linked again node by node, each where it belongs at x.      *)
Relinked(w, list, x) ==
    LET v[k \in 0 .. Len(list)] ==
            IF k = 0 THEN w ELSE Linked(v[k - 1], list[k], expire[list[k]], x)
    IN  v[Len(list)]

(* timer_shift.  If the time is 0 again the loop over the levels does not  *)
(* end: the mask has been shifted out of its 32 bits.                      *)
Shift ==
    LET x == (time + 1) % WIDTH IN
    /\ pc = "shift"
    /\ time' = x /\ now' = now + 1
    /\ pc' = "second"
    /\ fault' = IF x = 0 THEN "endless" ELSE fault
    /\ IF Turning(x) = {}
       THEN UNCHANGED <<near, t>>
       ELSE \E i \in Turning(x) :
            LET j == Index(x, i)
                w == Relinked([near |-> near, t |-> [t EXCEPT ![i][j] = <<>>]], t[i][j], x)
            IN  near' = w.near /\ t' = w.t
    /\ UNCHANGED <<expire, diff, current, due, log, order>>

WheelNext == fault = "none" /\ (Add \/ Update \/ Execute \/ Fire \/ Shift)

-----------------------------------------------------------------------------
Done == {log[k].node : k \in DOMAIN log}

(* Every timeout is dispatched in its tick, not earlier and not later,     *)
(* however long it was and through however many levels the node has moved; *)
(* none is lost, and none dispatched twice.                                *)
OnTime ==
    /\ \A k \in DOMAIN log : log[k].at = due[log[k].node]
    /\ \A k, l \in DOMAIN log : log[k].node = log[l].node => k = l
    /\ \A n \in Node \ Done :
         due[n] # 0 => due[n] > now \/ (due[n] = now /\ pc = "second")

(* Timeouts of the same tick are dispatched in the order in which services *)
(* asked for them, also if one has come down from a level and the other    *)
(* has been added later.                                                   *)
InOrder ==
    \A k, l \in DOMAIN log : k < l /\ log[k].at = log[l].at =>
        \E i, j \in DOMAIN order : i < j /\ order[i] = log[k].node /\ order[j] = log[l].node

(* A tick ends, and every node gets a list: skynet_timer.c: "when cs >     *)
(* 0xffffffff(about 497 days), time rewind".                               *)
TimeRewinds == fault = "none"
=============================================================================
