-------------------------------- MODULE Common --------------------------------
(***************************************************************************)
(* What the modules of the parts share: how often the environment does     *)
(* each operation, and Lua tables.                                         *)
(***************************************************************************)
EXTENDS Integers

CONSTANTS
    Mixes,      \* records from the names of operations to how often they happen
    Void        \* nil

VARIABLE left   \* how often each operation may still happen

(* A behaviour picks one of several mixes, so that a run explores every    *)
(* mix only as deep as its question needs.  The bounds are not part of the *)
(* program.                                                                *)
MixInit == left \in Mixes

May(op) == op \in DOMAIN left /\ left[op] > 0
Use(op) == May(op) /\ left' = [left EXCEPT ![op] = @ - 1]

(* Lua tables as functions: a key without a value is not in the domain.    *)
Entry(f, k)  == IF k \in DOMAIN f THEN f[k] ELSE Void
Put(f, k, v) == [x \in DOMAIN f \cup {k} |-> IF x = k THEN v ELSE f[x]]
Drop(f, k)   == [x \in DOMAIN f \ {k} |-> f[x]]
=============================================================================
