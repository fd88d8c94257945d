------------------------------- MODULE Verbs -------------------------------
(***************************************************************************)
(* `unpack` and `salvage` over the destination they share the rules of     *)
(* (place, MadeByRun): one invocation runs one of them.  What an unpacked  *)
(* destination promises is Unpacking; what both promise is stated here.    *)
(* `salvage` scans the whole archive before it places anything: the scan   *)
(* of a tar is TarSalvage, of a zip, zoo, lha, arj or cpio HeaderScan, each *)
(* an invocation ("scan", "hunt") that ends where the placing, of whatever *)
(* records a scan of any format reports, begins.                           *)
(***************************************************************************)
EXTENDS Extract, Salvage, TarSalvage, HeaderScan

allVars == <<destination, phase, read, entry, extraction, salvaging, scanning, hunting>>

NoDump ==
    [format |-> "zip", headers |-> <<>>, directory |-> <<>>, zeros |-> {}, allowance |-> 0]

Init ==
    /\ ExtractInit /\ SalvageInit /\ ScanStart
    /\ tape \in IF setup.verb = "scan" THEN Tapes ELSE {<<>>}
    /\ HuntStart
    /\ dump \in IF setup.verb = "hunt" THEN Dumps ELSE {NoDump}

Next ==
    \/ setup.verb = "unpack" /\ ExtractNext /\ UNCHANGED <<salvaging, scanning, hunting>>
    \/ /\ setup.verb = "salvage" /\ SalvageNext
       /\ UNCHANGED <<phase, read, entry, extraction, scanning, hunting>>
    \/ /\ setup.verb = "scan" /\ ScanNext
       /\ UNCHANGED <<destination, phase, read, entry, extraction, salvaging, hunting>>
    \/ /\ setup.verb = "hunt" /\ HuntNext
       /\ UNCHANGED <<destination, phase, read, entry, extraction, salvaging, scanning>>

Spec == Init /\ [][Next]_allVars

(***************************************************************************)
(* What an onlooker sees.                                                  *)
(***************************************************************************)
Tree == [q \in DOMAIN disk |-> inode[disk[q]]]

Promise == INSTANCE Unpacking WITH tree <- Tree, over <- phase = "failed"

\* `unpack` implements its abstract promise: each entry's own path gets what
\* the entry says, or a warning; no other name's content changes, whichever
\* inodes the names share and however the file system folds them.
ImplementsUnpacking ==
    /\ setup.verb = "unpack" => Promise!Init
    /\ [][setup.verb = "unpack" => Promise!Next]_<<setup, Tree, read, entry, warned, phase = "failed">>

TypeOK ==
    /\ DestinationTypeOK /\ ScanTypeOK /\ HuntTypeOK
    /\ phase \in {"entries", "dirs", "failed"} /\ read \in 0 .. MaxEntries
    /\ warned \subseteq 1 .. MaxEntries /\ lost \subseteq 1 .. MaxEntries
    /\ stage \in {"placing", "done", "failed"} /\ scanned \in 0 .. MaxRecords
    /\ claims.paths \in [DOMAIN claims.paths -> 1 .. MaxRecords]
    /\ claims.ids \in [Inos -> 0 .. MaxRecords]

\* Neither verb ever removes, replaces, re-modes or writes through what the
\* destination held, unless `unpack --force` replaces a file or a symlink;
\* never a directory, never the archive being read (EXTRACT-1, -2, -8).
KeptWhatWasHeld ==
    \A q \in DOMAIN setup.holds :
        \/ q \in DOMAIN disk /\ Tree[q] = setup.holds[q]
        \/ /\ setup.verb = "unpack" /\ setup.force
           /\ setup.holds[q].kind # "dir" /\ q # setup.archive

\* A directory's archived mode is lost only when another program replaced
\* the directory or an earlier entry of the same path locked it: no parent's
\* mode is applied before its children's (deepest first), whatever the order
\* the archive lists them in.
ModesSurviveTheirParents ==
    [][lost' # lost => \/ away # {}
                       \/ There(Head(deferred).path).data \in Locking]_lost

\* Every record `salvage` said it wrote is still there, with the bytes it
\* wrote, under the path it named, and whole unless the name says partial:
\* no later record, folded name or freed inode takes its place.  And none is
\* dropped because a file has its name: it lands beside it (NAME.salvaged-N).
RecoveredKept ==
    \A n \in DOMAIN told :
        /\ told[n].what # "exists"
        /\ told[n].what \in {"written", "aside", "partial"} =>
              /\ There(told[n].path) = [kind |-> "file", data |-> told[n].data]
              /\ told[n].what = "written" => told[n].data = Contents[n]

\* So neither what the destination held nor what was recovered into it goes.
NothingTakenAway == KeptWhatWasHeld /\ RecoveredKept

\* No scan loses an entry silently: what it does not recover it tells of
\* (salvage.rs:1381 "a genuine header starved by forgeries elsewhere is named,
\* never lost silently").
NoneLostSilently == TarNoneLost /\ HeadersNoneLost

\* A record proven whole is kept only whole, whatever name it landed under
\* (entries.rs:3465: "writing a short file under the entry's REAL name would
\* recreate the exact hazard `.partial` naming exists to prevent").
KeptWhole ==
    \A n \in DOMAIN told :
        told[n].what \in {"written", "aside"} /\ ~told[n].partial =>
            told[n].data = Contents[n]
=============================================================================
