------------------------------ MODULE Modules -------------------------------
(***************************************************************************)
(* The C services a node has loaded and its environment                    *)
(* (skynet-src/skynet_module.c, skynet_env.c), used by worker threads that *)
(* launch services (LAUNCH, skynet_context_new) and read and set variables *)
(* (GETENV, SETENV).  The table of modules is searched without its lock;   *)
(* the count is read again for every entry.  Stores are seen in the order  *)
(* in which they are made, as on the processors the program is built for.  *)
(***************************************************************************)
EXTENDS Common, Sequences, FiniteSets

CONSTANTS
    Loader,         \* worker threads
    ModuleName,     \* modules
    NoFile,         \* modules whose file cannot be opened
    NoSymbols,      \* modules without an init function
    MaxModule,      \* MAX_MODULE_TYPE, 32
    Key, Setting    \* variables of the environment and their values

\* nil is neither a thread nor an index.
ModulesAssumption == MaxModule \in Nat /\ Void \notin Loader \cup Nat

VARIABLES
    count,          \* M->count
    table,          \* M->m: 0..MaxModule-1 -> [name, symbols]
    lock,           \* M->lock: nil or the thread that has it
    loader,         \* thread -> [at, name, i, result]
    opened,         \* history: how often each module was opened
    wasFull,        \* history: launches that met a full table
    env,            \* the variables
    read,           \* history: what GETENV has answered, which points into the environment
    aborted         \* the assertion of skynet_setenv failed

moduleVars == <<count, table, lock, loader, opened, wasFull, env, read, aborted>>

Idle == [at |-> "idle", name |-> Void, i |-> 0, result |-> Void]

ModulesInit ==
    /\ count = 0 /\ table = [i \in 0..MaxModule - 1 |-> [name |-> Void, symbols |-> FALSE]]
    /\ lock = Void /\ loader = [w \in Loader |-> Idle] /\ opened = [m \in ModuleName |-> 0] /\ wasFull = {}
    /\ env = <<>> /\ read = <<>> /\ aborted = FALSE

At(w, at) == loader[w].at = at /\ ~aborted
Goes(w, at) == loader' = [loader EXCEPT ![w].at = at, ![w].i = 0]

-----------------------------------------------------------------------------
(* skynet_module_query *)

\* LAUNCH: skynet_context_new looks for the module.
Launch(w, m) ==
    /\ Use("launch") /\ At(w, "idle")
    /\ loader' = [loader EXCEPT ![w] = [at |-> "look", name |-> m, i |-> 0, result |-> Void]]
    /\ UNCHANGED <<count, table, lock, opened, wasFull, env, read, aborted>>

\* One round of the loop of _query, without the lock or, again, with it.
Look(w, at, found, missing) ==
    /\ At(w, at)
    /\ LET i == loader[w].i IN
       IF i >= count THEN Goes(w, missing)
       ELSE IF table[i].name = loader[w].name
       THEN loader' = [loader EXCEPT ![w].at = found, ![w].result = i]
       ELSE loader' = [loader EXCEPT ![w].i = i + 1]
    /\ UNCHANGED <<count, table, lock, opened, wasFull, env, read, aborted>>

Lock(w) ==
    /\ At(w, "lock") /\ lock = Void
    /\ lock' = w
    /\ Goes(w, "check")
    /\ UNCHANGED <<count, table, opened, wasFull, env, read, aborted>>

\* _try_open, and the first stores into the entry.
TryOpen(w) ==
    /\ At(w, "open")
    /\ wasFull' = IF count < MaxModule THEN wasFull ELSE wasFull \cup {loader[w].name}
    /\ IF count < MaxModule /\ loader[w].name \notin NoFile
       THEN /\ opened' = [opened EXCEPT ![loader[w].name] = @ + 1]
            /\ table' = [table EXCEPT ![count].name = loader[w].name]
            /\ Goes(w, "symbols")
       ELSE UNCHANGED <<opened, table>> /\ Goes(w, "unlock")
    /\ UNCHANGED <<count, lock, env, read, aborted>>

\* Mutant: the entry counts before its symbols are there.
OpenSymEarly(w) ==
    /\ At(w, "symbols")
    /\ count' = count + 1
    /\ Goes(w, "count")
    /\ UNCHANGED <<table, lock, opened, wasFull, env, read, aborted>>

\* _open_sym
OpenSym(w) ==
    /\ At(w, "symbols")
    /\ table' = [table EXCEPT ![count].symbols = loader[w].name \notin NoSymbols]
    /\ Goes(w, IF loader[w].name \in NoSymbols THEN "unlock" ELSE "count")
    /\ UNCHANGED <<count, lock, opened, wasFull, env, read, aborted>>

Count(w) ==
    /\ At(w, "count")
    /\ count' = count + 1
    /\ loader' = [loader EXCEPT ![w].at = "unlock", ![w].result = count]
    /\ UNCHANGED <<table, lock, opened, wasFull, env, read, aborted>>

Unlock(w) ==
    /\ At(w, "unlock")
    /\ lock' = Void
    /\ Goes(w, IF loader[w].result = Void THEN "failed" ELSE "create")
    /\ UNCHANGED <<count, table, opened, wasFull, env, read, aborted>>

\* skynet_module_instance_create and skynet_module_instance_init, or the
\* launch has failed.
Create(w) ==
    /\ loader[w].at \in {"create", "failed"} /\ ~aborted
    /\ loader' = [loader EXCEPT ![w] = Idle]
    /\ UNCHANGED <<count, table, lock, opened, wasFull, env, read, aborted>>

-----------------------------------------------------------------------------
(* The environment.  Its functions hold a lock from end to end. *)

\* GETENV hands out the string itself.
Getenv(k) ==
    /\ Use("getenv") /\ ~aborted
    /\ read' = IF k \in DOMAIN env THEN Put(read, k, env[k]) ELSE read
    /\ UNCHANGED <<count, table, lock, loader, opened, wasFull, env, aborted>>

\* A variable is set once: a second time ends the process.
Setenv(k, v) ==
    /\ Use("setenv") /\ ~aborted
    /\ IF k \in DOMAIN env THEN aborted' = TRUE /\ UNCHANGED env ELSE env' = Put(env, k, v) /\ UNCHANGED aborted
    /\ UNCHANGED <<count, table, lock, loader, opened, wasFull, read>>

ModulesNext ==
    \/ \E w \in Loader :
         \/ \E m \in ModuleName : Launch(w, m)
         \/ (\/ Look(w, "look", "create", "lock") \/ Lock(w) \/ Look(w, "check", "unlock", "open")
             \/ TryOpen(w) \/ OpenSym(w) \/ Count(w) \/ Unlock(w) \/ Create(w)) /\ UNCHANGED left
    \/ \E k \in Key : Getenv(k) \/ \E v \in Setting : Setenv(k, v)

-----------------------------------------------------------------------------
(* Properties *)

\* A service is created from a module that is the one that was asked for and
\* has its functions, although the table is read without the lock while
\* another thread fills an entry.
ModuleReady ==
    \A w \in Loader : loader[w].at = "create" =>
        /\ table[loader[w].result].name = loader[w].name
        /\ table[loader[w].result].symbols

\* A module is in the table once, whoever asked for it at the same time; one
\* that can be loaded was opened once, and a launch of it fails only if the
\* table was full.
LoadedOnce ==
    /\ \A i, j \in 0..count - 1 : table[i].name = table[j].name => i = j
    /\ \A m \in ModuleName \ NoSymbols : opened[m] <= 1
    /\ \A w \in Loader : loader[w].at = "failed" => loader[w].name \in NoFile \cup NoSymbols \cup wasFull

\* What GETENV has answered stays the value of the variable: the pointer it
\* gave away is used after the lock is released.
ReadStays == \A k \in DOMAIN read : k \in DOMAIN env /\ env[k] = read[k]

-----------------------------------------------------------------------------
(* Why they hold: the inductive invariant. *)

Within == {"check", "open", "symbols", "count", "unlock"}

LoaderState ==
    [at : Within \cup {"idle", "look", "lock", "create", "failed"},
     name : ModuleName \cup {Void}, i : Nat, result : Nat \cup {Void}]

ModulesTypeOK ==
    /\ count \in 0..MaxModule
    /\ table \in [0..MaxModule - 1 -> [name : ModuleName \cup {Void}, symbols : BOOLEAN]]
    /\ loader \in [Loader -> LoaderState]
    /\ opened \in [ModuleName -> Nat]
    /\ \A w \in Loader : loader[w].at # "idle" => loader[w].name \in ModuleName

\* Between SPIN_LOCK and SPIN_UNLOCK there is one thread, and it has the lock.
Locked == \A w \in Loader : loader[w].at \in Within => lock = w

\* An entry below the count is complete, and no two have one name.
Complete ==
    /\ \A i \in 0..count - 1 : table[i].symbols
    /\ \A i, j \in 0..count - 1 : table[i].name = table[j].name => i = j

\* What a thread knows of the table when it opens and fills an entry: the
\* second search found nothing, and nobody else has added one since.
SearchedBy(w) ==
    LET me == loader[w] IN
    /\ me.at = "check" => me.i <= count /\ \A j \in 0..me.i - 1 : table[j].name # me.name
    /\ me.at \in {"open", "symbols", "count"} => \A j \in 0..count - 1 : table[j].name # me.name
    /\ me.at \in {"symbols", "count"} => count < MaxModule /\ table[count].name = me.name
    /\ me.at = "count" => table[count].symbols

Searched == \A w \in Loader : SearchedBy(w)

\* What a thread has found is an entry that counts, of the module it wants.
FoundBy(w) ==
    LET me == loader[w] IN
    /\ me.at \in {"idle", "look", "lock", "check", "open", "symbols", "count", "failed"} => me.result = Void
    /\ me.at = "create" => me.result # Void
    /\ me.result # Void => me.result \in 0..count - 1 /\ table[me.result].name = me.name
    /\ me.at \in {"unlock", "failed"} /\ me.result = Void => me.name \in NoFile \cup NoSymbols \cup wasFull

Found == \A w \in Loader : FoundBy(w)

\* A module that has been opened, and can be used, is in the table or about
\* to be.
OpenedOnce ==
    \A m \in ModuleName \ NoSymbols :
        /\ opened[m] <= 1
        /\ opened[m] = 1 =>
             \/ \E j \in 0..count - 1 : table[j].name = m
             \/ \E w \in Loader : loader[w].at \in {"symbols", "count"} /\ loader[w].name = m

ModulesInv == ModulesTypeOK /\ Locked /\ Complete /\ Searched /\ Found /\ OpenedOnce /\ ReadStays
=============================================================================
