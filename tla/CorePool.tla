------------------------------- MODULE CorePool -------------------------------
(***************************************************************************)
(* What the governor promises (crates/stuffr-core/src/governor/mod.rs):    *)
(* one pool of Workers cores for the whole process.  A unit of work takes  *)
(* one or more free cores in one go, keeps them, and gives them all back.  *)
(***************************************************************************)
EXTENDS Naturals

CONSTANTS
  Units,      (* the units of work that may hold cores *)
  Workers     (* the size of the pool                  *)

VARIABLES
  free,       (* the cores nobody holds                *)
  held        (* held[u]: the cores unit u holds       *)

Init ==
  /\ free = Workers
  /\ held = [u \in Units |-> 0]

Take(u) ==
  /\ held[u] = 0
  /\ \E n \in 1 .. free :
       /\ free' = free - n
       /\ held' = [held EXCEPT ![u] = n]

GiveBack(u) ==
  /\ held[u] > 0
  /\ free' = free + held[u]
  /\ held' = [held EXCEPT ![u] = 0]

Next == \E u \in Units : Take(u) \/ GiveBack(u)

Spec == Init /\ [][Next]_<<free, held>>

===============================================================================
