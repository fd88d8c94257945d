------------------------------- MODULE MCConvert -------------------------------
(* Instances of Convert for TLC: ConvertLinks' conversions (MCConvertLinks),   *)
(* and archives of up to two entries, of true and false lengths, under a codec *)
(* or not, whole or damaged, to be sought in or not, asked for from a file and *)
(* a pipe.                                                                     *)
EXTENDS Convert, MCConvertLinks

Kinds == {[declared |-> Undeclared, carries |-> 3], [declared |-> 1, carries |-> 1],
          [declared |-> 3, carries |-> 3], [declared |-> 3, carries |-> 1],
          [declared |-> 1, carries |-> 3], [declared |-> 0, carries |-> 0]}

(* A tar under a codec, an ARJ under one, a bare tar and a bare zip.         *)
Archive(list, coded, packed, whole, length, seeks) ==
  [entries |-> list, tail |-> 2, coded |-> coded, packed |-> packed, intact |-> whole,
   size |-> length, seeks |-> seeks]
Stored(list) == 2 + Len(list) + MapThenSumSet(LAMBDA i : list[i].carries, DOMAIN list)

ReadLayouts ==
  LET lists == UNION {[1 .. n -> Kinds] : n \in 0 .. 2}
      short == UNION {[1 .. n -> Kinds] : n \in 0 .. 1}
  IN  {Archive(list, TRUE, FALSE, whole, length, "never") :
         list \in lists, whole \in BOOLEAN, length \in {1, 4}}
      \cup {Archive(list, TRUE, FALSE, whole, 4, "always") : list \in short, whole \in BOOLEAN}
      \cup {Archive(list, FALSE, FALSE, TRUE, Stored(list), "never") : list \in lists}
      \cup {Archive(list, FALSE, TRUE, TRUE, 2 + Len(list), "convert") : list \in lists}

MemoryOrFile == [mem |-> 2, total |-> 5]
SpillChoices == {MemoryOrFile, [mem |-> 0, total |-> 0], [mem |-> 3, total |-> 3]}
ReadRequests ==
  {r \in [ratio : {1, 2}, sized : BOOLEAN, converts : BOOLEAN, upTo : {0, 1}, spill : SpillChoices] :
     /\ r.converts \/ r.spill = MemoryOrFile
     /\ r.converts => r.upTo = 0}
===============================================================================
