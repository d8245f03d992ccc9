----------------------------- MODULE HandleStorage -----------------------------
(***************************************************************************)
(* The handle storage of skynet_handle.c: an open table of contexts that   *)
(* is indexed by the low bits of a handle and doubles when it is full, and *)
(* the sorted list of local names.  What runs under the rwlock is one step *)
(* (module RWLock shows what that takes).  Two functions work outside of   *)
(* it: skynet_handle_register stores ctx->handle after it has unlocked,    *)
(* and skynet_handle_retireall looks at a context it has read before.      *)
(* Until the store, other threads go by what that memory holds: early and  *)
(* moved remember what they did so.                                        *)
(* The harbor bits of a handle, the same in all of them, are left out.     *)
(***************************************************************************)
EXTENDS Common, Sequences, FiniteSets

CONSTANTS
    Context,            \* the memory that contexts are allocated in
    Thread,
    Name,               \* local names, integers in the order of strcmp
    NULL,
    HANDLE_MASK,        \* 0xffffff: handles are taken modulo HANDLE_MASK + 1
    DEFAULT_SLOT_SIZE,
    Garbage             \* what ctx->handle can be before it is written

Handle == 0 .. HANDLE_MASK

StorageAssumption ==
    /\ HANDLE_MASK \in Nat /\ DEFAULT_SLOT_SIZE \in Nat \ {0}
    /\ (HANDLE_MASK + 1) % DEFAULT_SLOT_SIZE = 0
    /\ NULL \notin Context /\ Name \subseteq Nat /\ Garbage \subseteq Handle

VARIABLES
    slotSize, slot,  \* s->slot_size, s->slot
    handleIndex,     \* s->handle_index
    names,           \* s->name, with s->name_count entries
    handleOf,        \* ctx->handle, as it is in memory
    given,           \* the handle skynet_handle_register chose for ctx last
    pc, arg,         \* the local state of the threads
    held,            \* what a thread's skynet_handle_grab has returned
    old,             \* the contexts that were there when a thread's retireall began
    storageFault,    \* what has gone wrong
    early,           \* history: the contexts that a grab found before the store
    moved            \* history: those that a rehash moved before the store

table == <<slotSize, slot, handleIndex>>
past  == <<early, moved>>
handleVars == <<table, names, handleOf, given, pc, arg, held, old, storageFault, past>>

NoGrab == [ctx |-> NULL, handle |-> 0]
NoArg  == [ctx |-> NULL, handle |-> 0, i |-> 0, n |-> 0]

Registered == {slot[i] : i \in DOMAIN slot} \ {NULL}
Hash(h, size) == h % size

(* Registered, but ctx->handle is still to be stored.                      *)
Unstored == {arg[t].ctx : t \in {t \in Thread : pc[t] = "init"}}

(* The handles that have been given to some service.                       *)
Known == {given[c] : c \in Context} \ {-1}

(* Freed memory: neither the storage nor a thread refers to the context.   *)
Freed(c) ==
    /\ c \notin Registered
    /\ \A t \in Thread : held[t].ctx # c /\ ~(pc[t] = "init" /\ arg[t].ctx = c)

(* skynet_handle_init *)
HandlesInit ==
    /\ slotSize = DEFAULT_SLOT_SIZE
    /\ slot = [i \in 0 .. slotSize - 1 |-> NULL]
    /\ handleIndex = 1
    /\ names = <<>>
    /\ handleOf \in [Context -> Garbage]
    /\ given = [c \in Context |-> -1]
    /\ pc = [t \in Thread |-> "run"]
    /\ arg = [t \in Thread |-> NoArg]
    /\ held = [t \in Thread |-> NoGrab]
    /\ old = [t \in Thread |-> {}]
    /\ storageFault = "none"
    /\ early = {} /\ moved = {}

-----------------------------------------------------------------------------
(* skynet_handle_register(ctx).                                            *)

(* The handle of the first free slot from handle_index on, if any.         *)
Chosen(sl, size) ==
    LET at(i) == (i + handleIndex) % (HANDLE_MASK + 1)
        free  == {i \in 0 .. size - 1 : sl[Hash(at(i), size)] = NULL}
    IN  {at(i) : i \in {i \in free : \A j \in free : i <= j}}

(* The table of twice the size, by the handles that the contexts have in   *)
(* memory; a later one of the same hash would replace an earlier one.      *)
Rehash(size) ==
    [i \in 0 .. 2 * size - 1 |->
        LET here == {j \in 0 .. size - 1 : Hash(handleOf[slot[j]], 2 * size) = i}
        IN  IF here = {} THEN NULL ELSE slot[CHOOSE j \in here : \A k \in here : k <= j]]

(* assert(new_slot[hash] == NULL)                                          *)
Collision(size) == \E i, j \in 0 .. size - 1 :
    i # j /\ Hash(handleOf[slot[i]], 2 * size) = Hash(handleOf[slot[j]], 2 * size)

(* The slot is taken, ctx->handle is not written yet.                      *)
Taken(t, c, sl, size) == \E h \in Chosen(sl, size) :
    /\ slotSize' = size
    /\ slot' = [sl EXCEPT ![Hash(h, size)] = c]
    /\ handleIndex' = h + 1
    /\ given' = [given EXCEPT ![c] = h]
    /\ pc' = [pc EXCEPT ![t] = "init"]
    /\ arg' = [arg EXCEPT ![t] = [NoArg EXCEPT !.ctx = c, !.handle = h]]

Register(t) == \E c \in Context :
    /\ pc[t] = "run" /\ Freed(c) /\ Use("register")
    /\ IF NULL \in {slot[i] : i \in DOMAIN slot}
       THEN /\ Taken(t, c, slot, slotSize) /\ moved' = moved \ {c}
            /\ UNCHANGED storageFault
       ELSE /\ 2 * slotSize - 1 <= HANDLE_MASK
            /\ IF Collision(slotSize)
               THEN storageFault' = "rehash" /\ UNCHANGED <<table, given, pc, arg, moved>>
               ELSE /\ Taken(t, c, Rehash(slotSize), 2 * slotSize)
                    /\ moved' = (moved \cup Unstored) \ {c}
                    /\ UNCHANGED storageFault
    /\ early' = early \ {c}
    /\ old' = [u \in Thread |-> old[u] \ {c}]
    /\ UNCHANGED <<names, handleOf, held>>

(* skynet_context_init(ctx, handle), after rwlock_wunlock.                 *)
InitHandle(t) ==
    /\ pc[t] = "init"
    /\ handleOf' = [handleOf EXCEPT ![arg[t].ctx] = arg[t].handle]
    /\ pc' = [pc EXCEPT ![t] = "run"]
    /\ arg' = [arg EXCEPT ![t] = NoArg]
    /\ UNCHANGED <<table, names, given, held, old, left, storageFault, past>>

-----------------------------------------------------------------------------
(* Under the read lock: skynet_handle_grab(h), and the release after use.  *)
(* A caller may ask for any handle: of a service that is there, or of one  *)
(* that is gone.                                                           *)

(* Mutant: the handle of the context that is found is not compared.        *)
FoundAnyHandle(h) == slot[Hash(h, slotSize)]

(* The context that is found for handle h, or NULL.                        *)
Found(h) ==
    LET c == slot[Hash(h, slotSize)]
    IN  IF c # NULL /\ handleOf[c] = h THEN c ELSE NULL

Grab(t) == \E h \in Handle \ {0} :
    /\ pc[t] = "run" /\ held[t] = NoGrab /\ Use("grab")
    /\ held' = [held EXCEPT ![t] = IF Found(h) = NULL THEN NoGrab
                                   ELSE [ctx |-> Found(h), handle |-> h]]
    /\ early' = early \cup ({Found(h)} \cap Unstored)
    /\ UNCHANGED <<table, names, handleOf, given, pc, arg, old, storageFault, moved>>

Release(t) ==
    /\ pc[t] = "run" /\ held[t] # NoGrab
    /\ held' = [held EXCEPT ![t] = NoGrab]
    /\ UNCHANGED <<table, names, handleOf, given, pc, arg, old, left, storageFault, past>>

-----------------------------------------------------------------------------
(* Under the write lock: skynet_handle_retire(h).                          *)

(* Mutant: the names behind the first one of the handle are lost as well.  *)
NamesBefore(h) ==
    LET here == {i \in DOMAIN names : names[i].handle = h}
    IN  IF here = {} THEN names
        ELSE SubSeq(names, 1, (CHOOSE i \in here : \A j \in here : i <= j) - 1)

NamesWithout(h) ==
    LET kept[i \in 0 .. Len(names)] ==
            IF i = 0 THEN <<>>
            ELSE IF names[i].handle = h THEN kept[i - 1]
            ELSE Append(kept[i - 1], names[i])
    IN  kept[Len(names)]

Retired(h) ==
    IF Found(h) # NULL
    THEN /\ slot' = [slot EXCEPT ![Hash(h, slotSize)] = NULL]
         /\ names' = NamesWithout(h)
    ELSE UNCHANGED <<slot, names>>

Retire(t) == \E h \in Handle \ {0} :
    /\ pc[t] = "run" /\ Use("retire")
    /\ Retired(h)
    /\ UNCHANGED <<slotSize, handleIndex, handleOf, given, pc, arg, held, old, storageFault,
                   past>>

-----------------------------------------------------------------------------
(* The local names, sorted.                                                *)

(* The binary search of skynet_handle_findname and _insert_name, over the  *)
(* entries begin .. end of the list s: the position of nm, or minus the    *)
(* position (from 1) it is to be inserted at.                              *)
Search(s, nm) ==
    LET look[r \in (1 .. Len(s) + 1) \X (0 .. Len(s))] ==
            LET mid == (r[1] + r[2]) \div 2 IN
            IF r[1] > r[2] THEN -r[1]
            ELSE IF s[mid].name = nm THEN mid
            ELSE IF s[mid].name < nm THEN look[<<mid + 1, r[2]>>]
            ELSE look[<<r[1], mid - 1>>]
    IN  look[<<1, Len(s)>>]

(* skynet_handle_findname *)
FindName(nm) ==
    LET at == Search(names, nm) IN IF at > 0 THEN names[at].handle ELSE 0

(* _insert_name: before the first greater one, unless it is there already. *)
Inserted(nm, h) ==
    LET at == Search(names, nm) IN
    IF at > 0 THEN names
    ELSE SubSeq(names, 1, -at - 1) \o <<[name |-> nm, handle |-> h]>>
         \o SubSeq(names, -at, Len(names))

(* skynet_handle_namehandle, for a handle that was given out (REG, NAME).  *)
NameHandle(t) == \E nm \in Name, h \in Known :
    /\ pc[t] = "run" /\ Use("name")
    /\ names' = Inserted(nm, h)
    /\ UNCHANGED <<table, handleOf, given, pc, arg, held, old, storageFault, past>>

-----------------------------------------------------------------------------
(* skynet_handle_retireall(), by the command ABORT: pass after pass over   *)
(* the table until one finds nothing.                                      *)
AbortStart(t) ==
    /\ pc[t] = "run" /\ Use("abort")
    /\ pc' = [pc EXCEPT ![t] = "scan"]
    /\ arg' = [arg EXCEPT ![t] = NoArg]
    /\ old' = [old EXCEPT ![t] = Registered]
    /\ UNCHANGED <<table, names, handleOf, given, held, storageFault, past>>

(* ctx = s->slot[i], under the read lock.                                  *)
AllRead(t) ==
    /\ pc[t] = "scan" /\ arg[t].i < slotSize
    /\ LET c == slot[arg[t].i] IN
       IF c = NULL
       THEN arg' = [arg EXCEPT ![t].i = @ + 1] /\ UNCHANGED pc
       ELSE /\ arg' = [arg EXCEPT ![t].ctx = c, ![t].n = 1]
            /\ pc' = [pc EXCEPT ![t] = "deref"]
    /\ UNCHANGED <<table, names, handleOf, given, held, old, left, storageFault, past>>

(* skynet_context_handle(ctx), without a lock or a reference.              *)
AllDeref(t) ==
    /\ pc[t] = "deref"
    /\ IF Freed(arg[t].ctx)
       THEN storageFault' = "freed_context" /\ UNCHANGED <<pc, arg>>
       ELSE /\ arg' = [arg EXCEPT ![t].handle = handleOf[arg[t].ctx]]
            /\ pc' = [pc EXCEPT ![t] = "retire"]
            /\ UNCHANGED storageFault
    /\ UNCHANGED <<table, names, handleOf, given, held, old, left, past>>

AllRetire(t) ==
    /\ pc[t] = "retire"
    /\ Retired(arg[t].handle)
    /\ arg' = [arg EXCEPT ![t].i = @ + 1]
    /\ pc' = [pc EXCEPT ![t] = "scan"]
    /\ UNCHANGED <<slotSize, handleIndex, handleOf, given, held, old, left, storageFault, past>>

(* The end of a pass; the last one found nothing.                          *)
AllEnd(t) ==
    /\ pc[t] = "scan" /\ arg[t].i >= slotSize
    /\ arg' = [arg EXCEPT ![t] = NoArg]
    /\ pc' = [pc EXCEPT ![t] = IF arg[t].n = 0 THEN "aborted" ELSE "scan"]
    /\ UNCHANGED <<table, names, handleOf, given, held, old, left, storageFault, past>>

-----------------------------------------------------------------------------
Step(t) ==
    \/ Register(t) \/ InitHandle(t) \/ Grab(t) \/ Release(t)
    \/ Retire(t) \/ NameHandle(t)
    \/ AbortStart(t) \/ AllRead(t) \/ AllDeref(t) \/ AllRetire(t) \/ AllEnd(t)

HandlesNext == storageFault = "none" /\ \E t \in Thread : Step(t)

-----------------------------------------------------------------------------
(* A registered service is found under the handle it was given as soon as  *)
(* that is stored, through growth of the table and wrap-around of          *)
(* handle_index, so that no two have the same handle; unless the table     *)
(* grew before the store and moved it to where the old content led.        *)
Reachable == \A c \in Registered \ (Unstored \cup moved) : Found(given[c]) = c

(* skynet_handle_grab returns the service whose handle was asked for,      *)
(* unless it finds one before the store, under the handle that an earlier  *)
(* owner of the memory has left there.                                     *)
GrabFindsOwner ==
    \A t \in Thread :
        held[t].ctx \notin early \cup {NULL} => given[held[t].ctx] = held[t].handle

(* The binary search finds every name there is, and no other.              *)
NamesFound ==
    \A nm \in Name :
        FindName(nm) = LET at == {i \in DOMAIN names : names[i].name = nm}
                       IN  IF at = {} THEN 0 ELSE names[CHOOSE i \in at : TRUE].handle

(* A name leaves the list only with the service it stands for, and never   *)
(* stands for another one before that.                                     *)
NamesStay ==
    \A nm \in Name, h \in Known \ {0} :
        FindName(nm) = h /\ FindName(nm)' # h =>
            FindName(nm)' = 0 /\ Found(h) # NULL /\ Found(h)' = NULL

NamesKept == [][NamesStay]_handleVars

(* When skynet_handle_retireall returns, every service that was registered *)
(* before it began has been retired, although the table may have grown     *)
(* under it; unless it moved one before the store, maybe to a slot that    *)
(* this pass has left behind.                                              *)
AbortEmpties ==
    \A t \in Thread : pc[t] = "aborted" => Registered \cap old[t] \subseteq moved

(* The inductive invariant of these.  The types:                           *)
HandlesTypeOK ==
    /\ slotSize \in Nat \ {0} /\ slot \in [0 .. slotSize - 1 -> Context \cup {NULL}]
    /\ handleIndex \in Nat
    /\ names \in Seq([name : Name, handle : Nat])
    /\ handleOf \in [Context -> Nat] /\ given \in [Context -> Nat \cup {-1}]
    /\ pc \in [Thread -> {"run", "init", "scan", "deref", "retire", "aborted"}]
    /\ arg \in [Thread -> [ctx : Context \cup {NULL}, handle : Nat, i : Nat, n : Nat]]
    /\ held \in [Thread -> [ctx : Context \cup {NULL}, handle : Nat]]
    /\ old \in [Thread -> SUBSET Context]
    /\ early \subseteq Context /\ moved \subseteq Context

(* A context is in the slot of the handle it was given, unless it was      *)
(* moved, and has it in memory, unless it is still to be stored.           *)
Placed ==
    \A i \in 0 .. slotSize - 1 : slot[i] # NULL =>
        /\ given[slot[i]] \in Nat
        /\ slot[i] \notin moved => Hash(given[slot[i]], slotSize) = i
        /\ slot[i] \notin Unstored => handleOf[slot[i]] = given[slot[i]]

(* What a registration is about to store.                                  *)
Storing ==
    \A t \in Thread : pc[t] = "init" =>
        arg[t].ctx \in Context /\ arg[t].handle = given[arg[t].ctx]

(* strcmp orders the names; the binary search depends on it.               *)
NamesSorted ==
    \A i, j \in 1 .. Len(names) : i < j => names[i].name < names[j].name

(* What a pass of retireall has left behind it, if it found nothing so     *)
(* far: a context moves only to a slot that comes later, if its handle is  *)
(* stored.                                                                 *)
PassBehind ==
    \A t \in Thread :
        /\ pc[t] \in {"deref", "retire"} => arg[t].n = 1
        /\ pc[t] = "deref" => arg[t].ctx # NULL
        /\ pc[t] = "scan" /\ arg[t].n = 0 =>
               \A j \in 0 .. slotSize - 1 :
                   j < arg[t].i /\ slot[j] \in old[t] => slot[j] \in moved

HandlesInv ==
    /\ HandlesTypeOK /\ Placed /\ Storing /\ GrabFindsOwner /\ NamesSorted
    /\ PassBehind /\ AbortEmpties

(* assert(new_slot[hash] == NULL) in skynet_handle_register.               *)
RehashAssertion == storageFault # "rehash"
=============================================================================
