------------------------------ MODULE Conversion ------------------------------
(***************************************************************************)
(* What a run of gzip, xz or compress owes the person who started it,      *)
(* whatever interrupts it: at every moment each file exists, as the input  *)
(* it was or as a whole output.                                            *)
(***************************************************************************)
CONSTANT Files

VARIABLES
  kept,       (* files whose input is still there                            *)
  made        (* files whose output is there, whole                          *)

ConversionInit == kept = Files /\ made = {}

Make(f) == made' = made \cup {f} /\ UNCHANGED kept

(* An output is taken back only while the input is there ...                *)
Withdraw(f) == f \in kept /\ made' = made \ {f} /\ UNCHANGED kept

(* ... and an input is given up only for its output.                        *)
Spend(f) == f \in made /\ kept' = kept \ {f} /\ UNCHANGED made

ConversionNext == \E f \in Files : Make(f) \/ Withdraw(f) \/ Spend(f)

ConversionSpec == ConversionInit /\ [][ConversionNext]_<<kept, made>>
===============================================================================
