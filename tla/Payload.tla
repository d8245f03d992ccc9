------------------------------ MODULE Payload -------------------------------
(***************************************************************************)
(* Who owns the memory of a message (skynet_server.c, lua-skynet.c,        *)
(* service_harbor.c).  A buffer is made when a Lua service packs its       *)
(* arguments or when a string is copied; it then belongs to the queue of   *)
(* its receiver, to the handler of the message, which passes it on with    *)
(* skynet_forward or leaves it to be freed, or to the harbor.              *)
(*                                                                         *)
(* A handler sends while its own message is in use; sends of services that *)
(* run on other threads, and their ends, come in between.                  *)
(***************************************************************************)
EXTENDS Common, Sequences

CONSTANTS
    Actor,          \* local services
    Mute,           \* services without a callback
    NamedActor,     \* services with a local name
    MaxBuffers      \* how many buffers are made

Harbors == 0                \* the harbor service, and what is behind it
Owners  == Actor \cup {Harbors}

VARIABLES
    heap,           \* buffers that are allocated
    made,           \* how many have been made
    alive,          \* services
    inbox,          \* the queue of each service: buffers, 0 for NULL
    handling,       \* nil, or what a service works on: [buf, forward, over]
    held,           \* buffers the harbor keeps for names it does not know
    orphan,         \* history: buffers of sends that were refused
    misused         \* history: a buffer was freed that was not allocated

payloadVars == <<heap, made, alive, inbox, handling, held, orphan, misused>>

PayloadInit ==
    /\ heap = {} /\ made = 0 /\ alive = Owners /\ held = {} /\ orphan = {} /\ misused = FALSE
    /\ inbox = [s \in Owners |-> <<>>] /\ handling = [s \in Owners |-> Void]

\* Buffers bs are freed; h is the heap before.
Frees(h, bs) ==
    /\ heap' = h \ bs
    /\ misused' = (misused \/ ~(bs \subseteq h \cup {0}))

-----------------------------------------------------------------------------
(* Sending.  Where a message is sent: the number of a service, 0, a remote  *)
(* number, a local name, a name that begins with a digit, a global name.    *)

Addresses == {[t |-> "number", to |-> a] : a \in Actor} \cup {[t |-> "name", to |-> a] : a \in Actor}
             \cup {[t |-> x, to |-> Harbors] : x \in {"zero", "remote", "digit", "global"}}

\* skynet_queryname: a name nobody has, or has any more, is 0.
Unnamed(a) == a.t = "name" /\ ~(a.to \in NamedActor \cap alive)

\* _send fails in Lua: the address is wrong.  Nobody frees what was packed.
Refused(a) == a.t = "digit" \/ Unnamed(a)

\* skynet_context_push fails: the message is freed.
Dropped(h, b) == Frees(h, {b})

Receiver(a) == IF a.t \in {"remote", "global"} THEN Harbors ELSE a.to

\* The end of skynet_send; h is the heap with buffer b.
Delivered(h, a, b) ==
    IF a.t = "zero" \/ Receiver(a) \in alive
    THEN /\ heap' = h /\ UNCHANGED misused
         /\ orphan' = IF a.t = "zero" THEN orphan \cup {b} ELSE orphan
         /\ inbox' = IF a.t = "zero" THEN inbox ELSE [inbox EXCEPT ![Receiver(a)] = Append(@, b)]
    ELSE Dropped(h, b) /\ UNCHANGED <<inbox, orphan>>

Failed(a) == Refused(a) \/ Receiver(a) \notin alive

Handling == [buf : Nat, forward : Addresses \cup {Void}, over : BOOLEAN]

\* nil is not a table, and no service has the number 0.
PayloadAssumption == Void \notin Handling \cup Addresses /\ Harbors \notin Actor

Working(s) == handling[s] # Void /\ ~handling[s].over /\ s # Harbors

\* _filter_args.  data is a string, which is copied, an empty one, for which
\* NULL is sent, or memory that skynet.pack has made, which is sent as it is.
Buffer(data)  == IF data = "empty" THEN 0 ELSE made + 1
Makes(data)   == (data # "empty" => made < MaxBuffers) /\ made' = IF data = "empty" THEN made ELSE made + 1
HeapWith(data) == heap \cup ({Buffer(data)} \ {0})

\* skynet.send, skynet.call.  A failed send ends the handler.
Send(s, a, data) ==
    /\ Use("send")
    /\ Working(s) /\ a.t # "global"
    /\ handling' = [handling EXCEPT ![s].over = Failed(a)]
    /\ IF ~Refused(a)
       THEN Makes(data) /\ Delivered(HeapWith(data), a, Buffer(data))
       ELSE IF data = "packed"
       THEN Makes(data) /\ heap' = HeapWith(data) /\ orphan' = orphan \cup {Buffer(data)} /\ UNCHANGED <<inbox, misused>>
       ELSE UNCHANGED <<heap, made, orphan, inbox, misused>>
    /\ UNCHANGED <<alive, held>>

\* _sendname: any name that is neither local nor a number.  "empty" is nil
\* here; an empty string gets a buffer of one byte, as any other string.
SendName(s, a, data) ==
    /\ Use("send")
    /\ Working(s) /\ a.t = "global"
    /\ Makes(data) /\ Delivered(HeapWith(data), a, Buffer(data))
    /\ UNCHANGED <<alive, held, handling>>

\* skynet.redirect: a message that cannot be delivered is only lost.
Redirect(s, a, data) ==
    /\ Use("send")
    /\ Working(s) /\ a.t \in {"number", "zero", "remote"}
    /\ Makes(data) /\ Delivered(HeapWith(data), a, Buffer(data))
    /\ UNCHANGED <<alive, held, handling>>

\* skynet_forward, whose assertion (context->forward == 0) is the guard: its
\* callers call it once for a message.
Forward(s, a) ==
    /\ Use("forward")
    /\ Working(s) /\ handling[s].forward = Void
    /\ a.t \in {"number", "remote"}
    /\ handling' = [handling EXCEPT ![s].forward = a]
    /\ UNCHANGED <<heap, made, alive, inbox, held, orphan, misused>>

-----------------------------------------------------------------------------
(* Handling *)

\* skynet_context_message_dispatch: a service without a callback.
DispatchMute(s) ==
    /\ s \in Mute \cap alive /\ inbox[s] # <<>>
    /\ Frees(heap, {Head(inbox[s])})
    /\ inbox' = [inbox EXCEPT ![s] = Tail(@)]
    /\ UNCHANGED <<made, alive, handling, held, orphan>>

DispatchBegin(s) ==
    /\ s \in alive \ Mute /\ inbox[s] # <<>> /\ handling[s] = Void
    /\ handling' = [handling EXCEPT ![s] = [buf |-> Head(inbox[s]), forward |-> Void, over |-> FALSE]]
    /\ inbox' = [inbox EXCEPT ![s] = Tail(@)]
    /\ UNCHANGED <<heap, made, alive, held, orphan, misused>>

\* Mutant: the message that was forwarded is freed as well.
DispatchEndFrees(s) ==
    /\ handling[s] # Void /\ s # Harbors
    /\ Frees(heap, {handling[s].buf})
    /\ inbox' = IF handling[s].forward # Void /\ handling[s].forward.t = "number"
                THEN [inbox EXCEPT ![handling[s].forward.to] = Append(@, handling[s].buf)] ELSE inbox
    /\ handling' = [handling EXCEPT ![s] = Void]
    /\ UNCHANGED <<made, alive, held, orphan>>

\* _forwarding and _send_message
Forwarded(s) == Delivered(heap, handling[s].forward, handling[s].buf)

\* The end of _dispatch_message: the message is forwarded, or freed.
DispatchEnd(s) ==
    /\ handling[s] # Void /\ s # Harbors
    /\ IF handling[s].forward # Void
       THEN Forwarded(s)
       ELSE Frees(heap, {handling[s].buf}) /\ UNCHANGED <<inbox, orphan>>
    /\ handling' = [handling EXCEPT ![s] = Void]
    /\ UNCHANGED <<made, alive, held>>

\* A remote message goes out: it is written and freed, or sent to a service
\* of this harbor, or kept until its name is known.
HarborOut ==
    /\ handling[Harbors] # Void
    /\ LET b == handling[Harbors].buf IN
       \/ Frees(heap, {b}) /\ UNCHANGED <<inbox, held, orphan>>
       \/ \E a \in Actor : Delivered(heap, [t |-> "number", to |-> a], b) /\ UNCHANGED held
       \/ held' = held \cup {b} /\ UNCHANGED <<heap, inbox, orphan, misused>>
    /\ handling' = [handling EXCEPT ![Harbors] = Void]
    /\ UNCHANGED <<made, alive>>

\* The name is known: what was kept is written and freed.
NameKnown ==
    /\ held # {}
    /\ Frees(heap, held)
    /\ held' = {}
    /\ UNCHANGED <<made, alive, inbox, handling, orphan>>

\* A message of another harbor: the buffer of the gate is passed on.
HarborIn(a) ==
    /\ Use("in") /\ made < MaxBuffers
    /\ made' = made + 1
    /\ Delivered(heap \cup {made + 1}, [t |-> "number", to |-> a], made + 1)
    /\ UNCHANGED <<alive, handling, held>>

\* EXIT, KILL: the service is not found any more.
Retire(s) ==
    /\ Use("retire")
    /\ s \in alive \ {Harbors}
    /\ alive' = alive \ {s}
    /\ UNCHANGED <<heap, made, inbox, handling, held, orphan, misused>>

\* skynet_mq_release and _drop_queue
DropQueue(s) ==
    /\ s \notin alive /\ handling[s] = Void /\ inbox[s] # <<>>
    /\ Frees(heap, {inbox[s][i] : i \in DOMAIN inbox[s]})
    /\ inbox' = [inbox EXCEPT ![s] = <<>>]
    /\ UNCHANGED <<made, alive, handling, held, orphan>>

PayloadNext ==
    \/ \E s \in Owners :
         \/ \E a \in Addresses, data \in {"string", "empty", "packed"} : Send(s, a, data) \/ SendName(s, a, data) \/ Redirect(s, a, data)
         \/ \E a \in Addresses : Forward(s, a)
         \/ Retire(s)
         \/ (DispatchMute(s) \/ DispatchBegin(s) \/ DispatchEnd(s) \/ DropQueue(s)) /\ UNCHANGED left
    \/ (HarborOut \/ NameKnown) /\ UNCHANGED left
    \/ \E a \in Actor : HarborIn(a)

-----------------------------------------------------------------------------
(* Properties *)

\* Where buffer b is: in the hands of a service, <<s, 0>>, at index i of the
\* queue of one, <<s, i>>, or with the harbor until a name is known.
InHands(s, b)    == handling[s] # Void /\ handling[s].buf = b
InQueue(s, i, b) == i \in DOMAIN inbox[s] /\ inbox[s][i] = b

InHandsOf(b)     == {<<s, 0>> : s \in {s \in Owners : InHands(s, b)}}
InQueueOf(s, b)  == {<<s, i>> : i \in {i \in DOMAIN inbox[s] : InQueue(s, i, b)}}
WithHarbor(b)    == {p \in {<<Harbors, -1>>} : b \in held}

Places(b) == InHandsOf(b) \cup WithHarbor(b) \cup UNION {InQueueOf(s, b) : s \in Owners}

\* A buffer has at most one owner, its owner's buffer is allocated, and no
\* buffer is freed twice: forwarding, redirecting, dropping and the end of a
\* handler agree on who frees a message.
OneOwner ==
    /\ ~misused
    /\ \A b \in 1..made : Places(b) # {} => b \in heap
    /\ \A b \in 1..made : \A p, q \in Places(b) : p = q

\* Memory without an owner is that of a send that failed before the message
\* went anywhere: the address was 0, or Lua refused it after the arguments
\* were packed.
NothingLost == \A b \in heap : Places(b) = {} => b \in orphan

-----------------------------------------------------------------------------
(* Why they hold: the inductive invariant, one buffer at a time. *)

PayloadTypeOK ==
    /\ made \in Nat /\ heap \subseteq 1..made /\ held \subseteq 0..made
    /\ alive \subseteq Owners
    /\ inbox \in [Owners -> Seq(0..made)]
    /\ handling \in [Owners -> Handling \cup {Void}]
    /\ \A s \in Owners : handling[s] # Void => handling[s].buf \in 0..made

InOneQueue(b) ==
    \A s, u \in Owners : \A i \in DOMAIN inbox[s], j \in DOMAIN inbox[u] :
        InQueue(s, i, b) /\ InQueue(u, j, b) => s = u /\ i = j

Handed(b) == \E s \in Owners : InHands(s, b)
Queued(b) == \E s \in Owners : \E i \in DOMAIN inbox[s] : InQueue(s, i, b)

Sole(b) ==
    /\ \A s, u \in Owners : InHands(s, b) /\ InHands(u, b) => s = u
    /\ InOneQueue(b)
    /\ ~(Handed(b) /\ Queued(b))
    /\ b \in held => ~Handed(b) /\ ~Queued(b)

Somewhere(b) == Handed(b) \/ Queued(b) \/ b \in held

BufferInv(b) ==
    /\ Sole(b)
    /\ Somewhere(b) => b \in heap
    /\ b \in heap /\ ~Somewhere(b) => b \in orphan

PayloadInv == PayloadTypeOK /\ ~misused /\ \A b \in 1..made : BufferInv(b)
=============================================================================
