------------------------------ MODULE MCZipTools ------------------------------
(* Instances of ZipTools for TLC: the order of a -sp archive's parts does not *)
(* matter.                                                                    *)
EXTENDS ZipTools, TLC

ZipSymmetry == Permutations(Archives)
===============================================================================
