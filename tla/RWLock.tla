--------------------------------- MODULE RWLock --------------------------------
(***************************************************************************)
(* The spinning read-write lock of rwlock.h that protects the handle       *)
(* storage, the environment and the groups' tables, one atomic access of   *)
(* lock->write or lock->read at a time.  A writer announces itself before  *)
(* it waits for the readers to leave; a reader counts itself in before it  *)
(* looks for a writer a second time.                                       *)
(***************************************************************************)
EXTENDS Integers, FiniteSets

CONSTANT Thread

ASSUME ThreadAssumption == IsFiniteSet(Thread)

VARIABLES
    write,  \* lock->write
    read,   \* lock->read
    pc      \* where a thread is in one of the four functions

vars == <<write, read, pc>>

Init == write = 0 /\ read = 0 /\ pc = [t \in Thread |-> "out"]

Goto(t, from, to) == pc[t] = from /\ pc' = [pc EXCEPT ![t] = to]

(* A thread calls one of the lock functions.                               *)
Start(t) ==
    /\ Goto(t, "out", "reader") \/ Goto(t, "out", "writer")
    /\ UNCHANGED <<write, read>>

(* rwlock_rlock: while (lock->write).                                      *)
ReadWait(t) == Goto(t, "reader", "add") /\ write = 0 /\ UNCHANGED <<write, read>>

ReadAdd(t) == Goto(t, "add", "look") /\ read' = read + 1 /\ UNCHANGED write

(* Mutant: the second look at lock->write is left out.                     *)
ReadLookNot(t) == Goto(t, "look", "reading") /\ UNCHANGED <<write, read>>

(* if (lock->write)                                                        *)
ReadLook(t) ==
    /\ IF write # 0 THEN Goto(t, "look", "back") ELSE Goto(t, "look", "reading")
    /\ UNCHANGED <<write, read>>

(* Mutant: a reader that gives way does not wait for the writer.           *)
ReadBackAtOnce(t) == Goto(t, "back", "add") /\ read' = read - 1 /\ UNCHANGED write

(* A writer was faster: the reader gives way and starts again.             *)
ReadBack(t) == Goto(t, "back", "reader") /\ read' = read - 1 /\ UNCHANGED write

(* rwlock_runlock *)
ReadUnlock(t) == Goto(t, "reading", "out") /\ read' = read - 1 /\ UNCHANGED write

(* rwlock_wlock: test_and_set(&lock->write, 1), then while (lock->read).   *)
WriteSet(t) == Goto(t, "writer", "wait") /\ write = 0 /\ write' = 1 /\ UNCHANGED read

WriteWait(t) == Goto(t, "wait", "writing") /\ read = 0 /\ UNCHANGED <<write, read>>

(* rwlock_wunlock *)
WriteUnlock(t) == Goto(t, "writing", "out") /\ write' = 0 /\ UNCHANGED read

Work(t) ==
    \/ ReadWait(t) \/ ReadAdd(t) \/ ReadLook(t) \/ ReadBack(t) \/ ReadUnlock(t)
    \/ WriteSet(t) \/ WriteWait(t) \/ WriteUnlock(t)

Next == \E t \in Thread : Start(t) \/ Work(t)

Spec == Init /\ [][Next]_vars

(* Threads are scheduled fairly and critical sections end.                 *)
FairSpec == Spec /\ \A t \in Thread : WF_vars(Work(t))

-----------------------------------------------------------------------------
(* Type correctness; lock->read counts and never goes below zero.          *)
TypeOK ==
    /\ write \in {0, 1} /\ read \in Nat
    /\ pc \in [Thread -> {"out", "reader", "add", "look", "back", "reading",
                          "writer", "wait", "writing"}]

(* A writer is alone: no reader and no other writer is in a critical       *)
(* section, although lock->write and lock->read are read and written one   *)
(* at a time.                                                              *)
Exclusion ==
    \A t, u \in Thread :
        pc[t] = "writing" /\ pc[u] \in {"reading", "writing"} => t = u

(* A writer that has set lock->write does not wait for ever: it gets in,   *)
(* however many readers try.                                               *)
WriterGetsIn == \A t \in Thread : []<>(pc[t] # "wait")

-----------------------------------------------------------------------------
(* Why the lock excludes: the inductive invariant.                         *)

(* The readers that lock->read counts, and the writers that have set       *)
(* lock->write.                                                            *)
Counted == {t \in Thread : pc[t] \in {"look", "back", "reading"}}
Holds(t) == pc[t] \in {"wait", "writing"}

Single == \A t, u \in Thread : Holds(t) /\ Holds(u) => t = u
Set    == \A t \in Thread : Holds(t) => write = 1
Alone  == \A t, u \in Thread : ~(pc[t] = "writing" /\ pc[u] = "reading")

LockInv == TypeOK /\ read = Cardinality(Counted) /\ Single /\ Set /\ Alone
=============================================================================
