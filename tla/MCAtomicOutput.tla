---------------------------- MODULE MCAtomicOutput ----------------------------
(* Instances of AtomicOutput for TLC: the calls are interchangeable.         *)
EXTENDS AtomicOutput, TLC

FourNumbers == 0 .. 3
AllOptions == [sync : BOOLEAN, forced : BOOLEAN]
RunSymmetry == Permutations(Runs)
===============================================================================
