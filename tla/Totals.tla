-------------------------------- MODULE Totals --------------------------------
(***************************************************************************)
(* Sums over a finite set, for the modules whose counters must equal a sum *)
(* of shares (leases, kept payloads).  The sum is the cardinality of a set *)
(* with one element per unit of each share, which the provers can reason   *)
(* about by the finite-set theorems; a fold would need an induction whose  *)
(* hypothesis is an operator.                                              *)
(***************************************************************************)
EXTENDS Naturals, FiniteSets

Parts(D, amount) == UNION {{d} \X (1 .. amount[d]) : d \in D}
Total(D, amount) == Cardinality(Parts(D, amount))

===============================================================================
