----------------------------- MODULE ActorMailbox -----------------------------
(***************************************************************************)
(* What skynet promises to a service, without threads, references, queues  *)
(* of queues or flags: a service has a mailbox; it works on one message at *)
(* a time, in the order of the mailbox; while it waits in a blockcall      *)
(* nothing is given to it, and what it waits for overtakes the rest; once  *)
(* it is retired no message is taken up for it any more, apart from at     *)
(* most one that had been claimed before; and its mailbox is discarded     *)
(* only when it is retired and at rest.                                    *)
(***************************************************************************)
EXTENDS Naturals, Sequences

CONSTANTS Handle, Message, None

VARIABLES
    state,     \* "none", "starting" (its init runs), "ready", "gone"
    alive,     \* the services that have not been retired
    mbox,      \* the mailbox of each service
    claimed,   \* the services a worker is about to take a message for
    running,   \* the message each service works on, or None
    waiting    \* the session each service waits for in a blockcall, or 0

vars == <<state, alive, mbox, claimed, running, waiting>>

Create(h) ==
    /\ state[h] = "none"
    /\ state' = [state EXCEPT ![h] = "starting"]
    /\ alive' = alive \cup {h}
    /\ UNCHANGED <<mbox, claimed, running, waiting>>

Ready(h) ==
    /\ state[h] = "starting"
    /\ state' = [state EXCEPT ![h] = "ready"]
    /\ UNCHANGED <<alive, mbox, claimed, running, waiting>>

Awaited(h, m) == waiting[h] # 0 /\ m.session = waiting[h]

(* A message arrives, and goes to the end of the mailbox.                  *)
Deliver(h) ==
    /\ state[h] \in {"starting", "ready"}
    /\ Len(mbox'[h]) = Len(mbox[h]) + 1
    /\ LET m == mbox'[h][Len(mbox[h]) + 1] IN
         /\ m \in Message /\ ~Awaited(h, m)
         /\ mbox' = [mbox EXCEPT ![h] = Append(@, m)]
    /\ UNCHANGED <<state, alive, claimed, running, waiting>>

(* The message the service waits for arrives, and overtakes the others.    *)
Answer(h) ==
    /\ state[h] \in {"starting", "ready"}
    /\ mbox'[h] # <<>> /\ Tail(mbox'[h]) = mbox[h]
    /\ Head(mbox'[h]) \in Message /\ Awaited(h, Head(mbox'[h]))
    /\ mbox' = [mbox EXCEPT ![h] = mbox'[h]]
    /\ waiting' = [waiting EXCEPT ![h] = 0]
    /\ UNCHANGED <<state, alive, claimed, running>>

Claim(h) ==
    /\ h \in alive /\ h \notin claimed /\ running[h] = None /\ waiting[h] = 0
    /\ claimed' = claimed \cup {h}
    /\ UNCHANGED <<state, alive, mbox, running, waiting>>

Begin(h) ==
    /\ h \in claimed /\ state[h] = "ready" /\ mbox[h] # <<>>
    /\ claimed' = claimed \ {h}
    /\ running' = [running EXCEPT ![h] = Head(mbox[h])]
    /\ mbox' = [mbox EXCEPT ![h] = Tail(@)]
    /\ UNCHANGED <<state, alive, waiting>>

Idle(h) ==
    /\ h \in claimed /\ mbox[h] = <<>>
    /\ claimed' = claimed \ {h}
    /\ UNCHANGED <<state, alive, mbox, running, waiting>>

End(h) ==
    /\ running[h] # None
    /\ running' = [running EXCEPT ![h] = None]
    /\ UNCHANGED <<state, alive, mbox, claimed, waiting>>

Wait(h) ==
    /\ running[h] # None /\ waiting[h] = 0
    /\ waiting'[h] \in Nat \ {0}
    /\ waiting' = [waiting EXCEPT ![h] = waiting'[h]]
    /\ UNCHANGED <<state, alive, mbox, claimed, running>>

RetireService(h) ==
    /\ h \in alive
    /\ alive' = alive \ {h}
    /\ UNCHANGED <<state, mbox, claimed, running, waiting>>

Discard(h) ==
    /\ state[h] \in {"starting", "ready"} /\ h \notin alive
    /\ h \notin claimed /\ running[h] = None
    /\ state' = [state EXCEPT ![h] = "gone"]
    /\ mbox' = [mbox EXCEPT ![h] = <<>>]
    /\ UNCHANGED <<alive, claimed, running, waiting>>

Start ==
    /\ state \in [Handle -> {"none", "ready"}]
    /\ alive = {h \in Handle : state[h] = "ready"}
    /\ mbox \in [Handle -> Seq(Message)]
    /\ claimed = {}
    /\ running = [h \in Handle |-> None]
    /\ waiting = [h \in Handle |-> 0]

Step(h) ==
    \/ Create(h) \/ Ready(h) \/ Deliver(h) \/ Answer(h) \/ Wait(h)
    \/ Claim(h) \/ Begin(h) \/ Idle(h) \/ End(h)
    \/ RetireService(h) \/ Discard(h)

Mailboxes == Start /\ [][\E h \in Handle : Step(h)]_vars
=============================================================================
