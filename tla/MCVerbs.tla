------------------------------ MODULE MCVerbs ------------------------------
(* Instances of Verbs for TLC.                                             *)
EXTENDS Verbs, Annotation

a == <<"a">>
A == <<"A">>
b == <<"b">>
l == <<"l">>
long == <<"long">>
up == <<"..">>
s2 == <<"a", "s2">>
part == <<"a", "partial">>

\* `a`, `./a` and `A` may be one file; `a/b` sits under the first two.
Spellings == "a" :> <<a>> @@ "./a" :> <<a>> @@ "A" :> <<A>> @@ "l" :> <<l>>
             @@ "a/b" :> <<a, b>> @@ "a/long" :> <<a, long>> @@ "." :> <<>>
             @@ "../a" :> <<up>> @@ "a.s2" :> <<s2>> @@ "a.partial" :> <<part>>

Outside == <<up>>

Positions == <<"s1", "s2", "s3">>

File(says) == [kind |-> "file", data |-> <<says>>]
Dir(says) == [kind |-> "dir", data |-> <<says>>]

UnpackEntries ==
    LET Of(kind, spelled, texts, targets) ==
          [kind : {kind}, name : spelled, says : texts, to : targets]
    IN  Of("file", {"a", "./a", "A", "a/b", "a/long", "../a"}, {<<>>}, {""})
        \cup Of("dir", {"a"}, {<<"open">>, <<"locked">>}, {""})
        \cup Of("dir", {"A", "a/b", "."}, {<<"open">>}, {""})
        \cup Of("symlink", {"a", "l"}, {<<"b">>}, {""})
        \cup Of("symlink", {"a/b"}, {<<"..">>, <<"x", "..">>, <<"..", "..">>}, {""})
        \cup Of("hardlink", {"l"}, {<<>>}, {"a", "./a", "A", "l", "../a"})
        \cup Of("hardlink", {"a", "A"}, {<<>>}, {"l", "a"})
        \cup Of("other", {"l"}, {<<>>}, {""})

SalvageRecords ==
    [kind : {"file"}, name : {"a", "A", "a.s2", "a.partial"}, status : {"whole"}]
    \cup [kind : {"file"}, name : {"a", "A"}, status : {"partial"}]
    \cup [kind : {"file"}, name : {"a/b", "a/long", "../a"}, status : {"unattested"}]
    \cup [kind : {"dir"}, name : {"a", "a.s2"}, status : {"whole"}]

Same == [t \in {"a", "A", "b", "l", "long", "..", "partial", "s1", "s2", "s3"} |-> t]
CaseBlind == [Same EXCEPT !["A"] = "a"]

\* The destination is empty, holds a file, the archive itself or a directory.
Empty == [holds |-> <<>>, archive |-> <<>>]
HeldFile == [holds |-> <<a>> :> File("held"), archive |-> <<>>]
HeldDir == [holds |-> <<a>> :> Dir("held"), archive |-> <<>>]
Found == {Empty, HeldFile, HeldDir, [holds |-> <<a>> :> File("held"), archive |-> <<a>>]}

Invocation(verb, fold, force, others, found) ==
    [verb |-> verb, fold |-> fold, force |-> force, others |-> others,
     strict |-> FALSE, partials |-> TRUE] @@ found

Invocations ==
    {Invocation("unpack", f, TRUE, FALSE, found) : f \in {Same, CaseBlind}, found \in Found}
    \cup {Invocation("unpack", f, FALSE, FALSE, found) :
            f \in {Same, CaseBlind}, found \in {Empty, HeldFile}}
    \cup {Invocation("unpack", Same, TRUE, TRUE, found) : found \in {Empty, HeldDir}}
    \cup {Invocation("salvage", Same, FALSE, FALSE, found) : found \in {Empty, HeldDir}}
    \cup {Invocation("salvage", CaseBlind, FALSE, FALSE, found) : found \in {Empty, HeldFile}}
    \cup {Invocation(verb, Same, FALSE, FALSE, Empty) : verb \in {"scan", "hunt"}}

\* One `salvage` into an empty directory.
Salvaging == {Invocation("salvage", Same, FALSE, FALSE, Empty)}

EntryPayloads == <<<<"p1">>, <<"p2">>, <<"p3">>, <<"p4">>>>
TooLong == {long}
Locked == {<<"locked">>}

\* Tapes of up to `most` agreeing blocks, the first at offset 0: chains that
\* converge on a header, chains that spend the budget, and damage.
Agrees(role, says, span) == [role |-> role, says |-> says, span |-> span]
TapesIn(places, kinds, most) ==
    UNION {[{0} \cup rest -> kinds] :
             rest \in {r \in SUBSET (places \ {0}) : Cardinality(r) < most}}
TapesOf(kinds, most) == TapesIn(Offsets, kinds, most)
DamagedTapes ==
    TapesOf({Agrees("K", "none", 1), Agrees("x", "name", 0), Agrees("real", "empty", 0)}, 4)
    \cup TapesOf({Agrees("K", "none", 2), Agrees("x", "none", 0), Agrees("real", "empty", 0)}, 4)
    \cup TapesOf({Agrees("real", "name", 0), Agrees("real", "name", 3), Agrees("real", "name", 9),
                  Agrees("L", "name", 0), Agrees("copy", "name", 0),
                  Agrees("ungateable", "name", 0)}, 3)
\* Archives of up to three headers, the first at 0: short of budget, or with
\* all ScanBudget gives.
Short == 3
Full == 2 * End
Part(bill, len) == [bill |-> bill, len |-> len]
Header(parts, is, span) == [parts |-> parts, is |-> is, span |-> span]
Row(at, span) == [at |-> at, span |-> span]

DumpsOf(format, kinds, directories, padding, allowances) ==
    [format : {format}, headers : TapesIn(Places, kinds, 3), directory : directories,
     zeros : padding, allowance : allowances]

ZipHeaders ==
    {Header(<<Part(1, 1)>>, "entry", 0), Header(<<Part(1, 1)>>, "entry", 3),
     Header(<<Part(1, 1), Part(3, 3)>>, "entry", Absent), Header(<<Part(1, 2)>>, "noise", 0)}
Directories ==
    {<<>>, <<Row(0, 1)>>, <<Row(2, 9), Row(2, 0)>>, <<Row(3, 1), Row(1, 2)>>}
ZooHeaders ==
    {Header(<<>>, "entry", 1), Header(<<Part(2, 2)>>, "entry", 0),
     Header(<<Part(2, 2)>>, "noise", 9), Header(<<>>, "entry", 9)}
LhaHeaders ==
    {Header(<<Part(1, 1), Part(2, 2)>>, "entry", 2), Header(<<Part(2, 2)>>, "variant", 0),
     Header(<<Part(1, 1), Part(4, 4)>>, "entry", 0)}
ArjHeaders ==
    {Header(<<Part(1, 1), Part(2, 2)>>, "entry", 1),
     Header(<<Part(1, 1), Part(2, 3)>>, "entry", 4), Header(<<Part(2, 2)>>, "noise", 0)}
ArcHeaders ==
    {Header(<<>>, "entry", 0), Header(<<>>, "entry", 2), Header(<<>>, "entry", 9)}
CpioHeaders ==
    {Header(<<Part(1, 1)>>, "entry", 0), Header(<<Part(1, 1)>>, "entry", 2),
     Header(<<Part(1, 1)>>, "symlink", 1), Header(<<Part(1, 1)>>, "trailer", 0),
     Header(<<Part(1, 1)>>, "variant", 9), Header(<<Part(4, 4)>>, "noise", 0)}

Paddings == {{}, {4, 5}, {4, 5, 6}, {2, 3, 6}, {2, 4, 5, 6}}
AnyDumps ==
    UNION {DumpsOf("zip", ZipHeaders, Directories, {{}}, {2}),
           DumpsOf("zoo", ZooHeaders, {<<>>}, {{}}, {Short}),
           DumpsOf("lha", LhaHeaders, {<<>>}, {{}}, {Short, Full}),
           DumpsOf("arj", ArjHeaders, {<<>>}, {{}}, {Short, Full}),
           DumpsOf("arc", ArcHeaders, {<<>>}, {{}}, {Full}),
           DumpsOf("cpio", CpioHeaders, {<<>>}, Paddings, {Short}),
           DumpsOf("cpio", CpioHeaders, {<<>>}, {{}}, {Full})}
HeaderDumps == {d \in AnyDumps : d.zeros \cap DOMAIN d.headers = {}}

Numbering == Permutations(Inos)

\* Every list of up to three candidates of two names, lengths and checksums.
Listed ==
    [name : {"a", "b"}, declared : {0, 1, 2}, available : {0}, whole : {TRUE, FALSE},
     verifier : {NoVerifier, "crc1"}, verdict : {"complete"}]

\* annotate_candidates says of each list what the reference claims of it.
ASSUME AnnotationHolds ==
    \A n \in 0 .. 3 : \A list \in [1 .. n -> Listed] : AnnotatedRight(list)
=============================================================================
