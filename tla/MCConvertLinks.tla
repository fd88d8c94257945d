---------------------------- MODULE MCConvertLinks ----------------------------
(* Instances of ConvertLinks for TLC: the names are interchangeable.         *)
EXTENDS ConvertLinks, TLC

Tar == [links |-> TRUE, symlinks |-> TRUE, dirs |-> TRUE, unique |-> FALSE]
Zip == [links |-> FALSE, symlinks |-> TRUE, dirs |-> TRUE, unique |-> TRUE]
Ar == [links |-> FALSE, symlinks |-> FALSE, dirs |-> FALSE, unique |-> FALSE]

InMemory(n) == [mem |-> n, total |-> n, disk |-> FALSE, announced |-> FALSE]
Spilling == [mem |-> 3, total |-> 8, disk |-> TRUE, announced |-> TRUE]

(* A tar into a zip keeps three units and their overhead in memory; a cpio  *)
(* into an ar or a tar goes to a file.                                      *)
AllConversions ==
  {[caps |-> Zip, limits |-> InMemory(6)], [caps |-> Ar, limits |-> Spilling],
   [caps |-> Tar, limits |-> Spilling]}
TarToTar == {[caps |-> Tar, limits |-> InMemory(0)]}

NameSymmetry == Permutations(Names)
===============================================================================
