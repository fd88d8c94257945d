----------------------------- MODULE MCZipReplace -----------------------------
(* Instances of ZipReplace for TLC: the order of the parts does not matter.  *)
EXTENDS ZipReplace, TLC

ZipSymmetry == Permutations(Archives)
===============================================================================
