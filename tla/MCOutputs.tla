------------------------------ MODULE MCOutputs ------------------------------
(* Instances of Outputs for TLC.  The calls are interchangeable; the scenes  *)
(* `pack` starts from are small trees, each with the changes another program *)
(* may make to it.                                                           *)
EXTENDS Outputs, TLC

FourNumbers == 0 .. 3
AllOptions == [sync : BOOLEAN, forced : BOOLEAN]
RunSymmetry == Permutations(Runs)

NotUtf8 == {8, 9}

D == Folder(TRUE, TRUE)
Unchanged == {}
PutAt(path, node) == [what |-> "path", path |-> path, node |-> node]
Write(i, bytes, reads) ==
  [what |-> "file", ino |-> i, file |-> [bytes |-> bytes, reads |-> reads], was |-> <<>>]
Read1(bytes) == [bytes |-> bytes, reads |-> TRUE]

All == [dirs |-> TRUE, links |-> TRUE]          \* tar, cpio, zip
NoLinks == [dirs |-> TRUE, links |-> FALSE]     \* lha, arj
FilesOnly == [dirs |-> FALSE, links |-> FALSE]  \* ar

Path(p) == [at |-> p, dotted |-> FALSE]
Dot(p) == [at |-> p, dotted |-> TRUE]
Ask(paths, dst, force, holds) ==
  [paths |-> paths, dst |-> dst, force |-> force, holds |-> holds, unspeakable |-> {}]

(* A tree another program changes: its directory 1/1 and its files.          *)
LiveTree ==
  (<<>> :> D) @@ (<<1>> :> D) @@ (<<1, 1>> :> D) @@ (<<1, 1, 1>> :> File(1))
  @@ (<<1, 2>> :> File(2)) @@ (<<1, 3>> :> Link(<<3>>)) @@ (<<3>> :> File(3))
  @@ (<<4>> :> D) @@ (<<4, 1>> :> File(4))
LiveFiles == [i \in 1 .. 4 |-> Read1(IF i = 1 THEN <<1, 2>> ELSE <<i + 1>>)]
Live ==
  [tree |-> LiveTree, files |-> LiveFiles, asked |-> Ask(<<Path(<<1>>)>>, <<5>>, FALSE, All),
   changes |-> {PutAt(<<1, 1>>, Gone), PutAt(<<1, 1>>, Link(<<4>>)), PutAt(<<1, 2>>, Gone),
                PutAt(<<1, 2>>, Link(<<3>>)), PutAt(<<1, 2>>, Special), PutAt(<<1, 2>>, D),
                PutAt(<<1, 3>>, File(3)), PutAt(<<5>>, File(3)),
                Write(1, <<1>>, TRUE), Write(1, <<1, 2, 7>>, TRUE), Write(2, <<3>>, FALSE)}]

(* Last night's archive, 1/1, in the tree packed over it, with a link to it  *)
(* or beside a file; named itself, through a link to its directory (2), or   *)
(* by the link to it (1/2).                                                  *)
NightlyTree(beside) ==
  (<<>> :> D) @@ (<<1>> :> D) @@ (<<1, 1>> :> File(1)) @@ (<<2>> :> Link(<<1>>)) @@ beside
Nightly ==
  [tree : {NightlyTree(<<>>), NightlyTree(<<1, 2>> :> Link(<<1, 1>>)),
           NightlyTree(<<1, 2>> :> File(2))},
   files : {[i \in 1 .. 2 |-> Read1(<<i>>)]},
   asked : {Ask(paths, dst, force, holds) :
              paths \in {<<Path(<<1>>)>>, <<Dot(<<1>>)>>, <<Path(<<1, 1>>)>>, <<Path(<<2>>)>>},
              dst \in {<<1, 1>>, <<2, 1>>, <<1, 2>>, <<1>>}, force \in BOOLEAN,
              holds \in {All, NoLinks, FilesOnly}},
   changes : {{PutAt(<<1, 1>>, Gone), PutAt(<<2>>, D)}}]

(* What cannot be listed, examined, read or named; and a file whose name is  *)
(* what a name that is not UTF-8 is rendered as.                             *)
OddTree ==
  (<<>> :> D) @@ (<<1>> :> D)
  @@ (<<1, 0>> :> File(1)) @@ (<<1, 1>> :> Folder(FALSE, TRUE)) @@ (<<1, 1, 1>> :> File(1))
  @@ (<<1, 2>> :> Folder(TRUE, FALSE)) @@ (<<1, 2, 1>> :> File(2)) @@ (<<1, 2, 8>> :> File(2))
  @@ (<<1, 3>> :> Special) @@ (<<1, 4>> :> Link(<<8>>)) @@ (<<1, 5>> :> File(3))
  @@ (<<1, 8>> :> D) @@ (<<1, 8, 1>> :> File(2)) @@ (<<1, 9>> :> File(2))
Odd ==
  [tree : {OddTree},
   files : {[i \in 1 .. 3 |-> [bytes |-> <<i>>, reads |-> i # 3]]},
   asked : {[Ask(paths, <<7>>, FALSE, holds) EXCEPT !.unspeakable = names] :
              paths \in {<<Path(<<1>>)>>, <<Path(<<1, 8>>)>>, <<Path(<<1, 3>>)>>, <<Dot(<<>>)>>},
              holds \in {All, FilesOnly}, names \in {{}, {<<1, 0>>}}},
   changes : {{PutAt(<<1, 1>>, D)}}]

(* Two paths: of one name, of one directory, or of one file by hard links.   *)
TwiceTree ==
  (<<>> :> D) @@ (<<1>> :> D) @@ (<<1, 1>> :> File(1)) @@ (<<1, 2>> :> File(1))
  @@ (<<2>> :> D) @@ (<<2, 1>> :> File(1)) @@ (<<2, 2>> :> File(2)) @@ (<<3>> :> Link(<<1>>))
Twice ==
  [tree : {TwiceTree}, files : {[i \in 1 .. 2 |-> Read1(<<i>>)]},
   asked : {Ask(<<Path(p), Path(q)>>, <<7>>, FALSE, All) :
              p \in {<<1>>, <<3>>, <<1, 1>>}, q \in {<<2>>, <<2, 1>>, <<2, 2>>, <<1>>, <<6>>}},
   changes : {{PutAt(<<6>>, File(2)), PutAt(<<3>>, Link(<<2>>)), PutAt(<<1, 1>>, File(2))}}]

AllScenes == {Live} \cup Nightly \cup Odd \cup Twice
===============================================================================
