------------------------------ MODULE Salvage ------------------------------
(***************************************************************************)
(* `salvage`: what becomes of each record a damaged archive's scan found   *)
(* (entries.rs salvage, place_salvaged_entry, place_salvaged_file).  It    *)
(* shares place and MadeByRun with `unpack`, but has no force: a record    *)
(* whose name is taken, by an earlier record or by what the destination    *)
(* held, lands beside it as NAME.salvaged-N, and one whose bytes are not   *)
(* all there as NAME.partial.  Every failure is the record's own, except   *)
(* the archive changing under the run.                                     *)
(***************************************************************************)
EXTENDS Destination

CONSTANTS
    Records,    \* what a scan may find: [kind, name, status]
    RecordPath, \* record name -> the path safe_join gives it, or Escaping
    Escaping,   \* what safe_join refuses
    Contents,   \* the payload of the n-th record
    MaxRecords, \* bound on the scan's length
    Position,   \* the token `salvaged-N` of scan position N
    MaxSuffixes \* bound on how often the suffix is applied

ASSUME RecordsBound == MaxRecords \in Nat

VARIABLES
    stage,      \* "placing", then "done" or "failed"
    scanned,    \* the scan position reached
    claims,     \* Claimed: [paths, ids], scan positions (0: unclaimed)
    told        \* the disposition of each record placed so far

salvaging == <<stage, scanned, claims, told>>

(***************************************************************************)
(* Names.                                                                  *)
(***************************************************************************)
Suffixed(p, tokens) == [p EXCEPT ![Len(p)] = @ \o tokens]
PartialPath(p) == Suffixed(p, <<"partial">>)
\* disambiguated_path, applied k times.
Disambiguated(p, n, k) == Suffixed(p, [j \in 1 .. k |-> Position[n]])

AsWritten(p, partial) == IF partial THEN PartialPath(p) ELSE p

(***************************************************************************)
(* Claimed: by exact spelling, then by the identity of a file written.     *)
(***************************************************************************)
Holder(p) ==
    IF p \in DOMAIN claims.paths THEN claims.paths[p]
    ELSE IF Identity(p) # None THEN claims.ids[Identity(p)]
    ELSE 0

HeldName(p, partial) == Holder(p) # 0 \/ Holder(AsWritten(p, partial)) # 0
RunMade(p, partial) == Made(p) \/ Made(AsWritten(p, partial))

\* What dest held before the run, never removed; the archive included.
PreExisting(p, partial) ==
    LET w == AsWritten(p, partial)
    IN  IsArchive(w) \/ (IsOther(w) /\ ~Made(w))

Taken(p, partial) == HeldName(p, partial) \/ PreExisting(p, partial)

\* The first candidate nothing holds.
NothingAt(p, n, partial, k) ==
    LET c == Disambiguated(p, n, k)
    IN  ~HeldName(c, partial) /\ ~RunMade(c, partial) /\ ~PreExisting(c, partial)

FirstFree(p, n, partial, k) ==
    NothingAt(p, n, partial, k) /\ \A j \in 1 .. k - 1 : ~NothingAt(p, n, partial, j)

BaseTargets(p, n, partial) ==
    IF ~Taken(p, partial) THEN {p}
    ELSE {Disambiguated(p, n, k) : k \in {i \in 1 .. MaxSuffixes : FirstFree(p, n, partial, i)}}

\* The name asked for and the name given, to their earliest claimant.
Claiming(p, w, n) ==
    [paths |-> Over(claims.paths, [q \in {p, w} |-> n]), ids |-> claims.ids]

(***************************************************************************)
(* What every record does.                                                 *)
(***************************************************************************)
NextRecord == stage = "placing" /\ scanned < MaxRecords /\ scanned' = scanned + 1

Tell(what, path, data, partial) ==
    told' = Append(told, [what |-> what, path |-> path, data |-> data,
                          partial |-> partial])
Skip(why) == Tell(why, <<>>, <<>>, FALSE)

SafePath(r) ==
    /\ RecordPath[r.name] # Escaping
    /\ RecordPath[r.name] = <<>> => r.kind = "dir"
    /\ ~SymlinkedAncestor(RecordPath[r.name])

\* Variant: place removes what is in the way, as it did before EXTRACT-1.
Forcing == TRUE

\* place_salvaged, which never forces: a refusal is the record's own.
SalvageForce == FALSE
Why(p, placingDir) ==
    IF ~placingDir /\ Clear(p) /\ IsOther(p) THEN "exists" ELSE "destination"

PlaceDeclined(p, placingDir) ==
    /\ ~Proceeds(p, placingDir, SalvageForce)
    /\ Skip(Why(p, placingDir))
    /\ UNCHANGED destination

\* place_salvaged proceeded, and then node is made at p and recorded ...
OpenAt(p, node, kind, kept) ==
    \E fresh \in Fresh(MissingParents(p) \cup {p}, disk) :
        /\ disk' = IF kept THEN Put(PlacedDisk(p, fresh), Folded(p), fresh[p])
                   ELSE PlacedDisk(p, fresh)
        /\ inode' = IF kept THEN [PlacedInode(p, fresh) EXCEPT ![fresh[p]] = node]
                    ELSE PlacedInode(p, fresh)
        /\ made' = Recorded(PlacedMade(p, fresh), p, kind, <<>>, fresh[p])
        /\ UNCHANGED <<setup, away, archive>>

\* ... or the create fails, for its name or for the destination's reasons.
OpenFails(p) ==
    /\ \E fresh \in Fresh(MissingParents(p), disk) :
          /\ disk' = PlacedDisk(p, fresh)
          /\ inode' = PlacedInode(p, fresh)
          /\ made' = PlacedMade(p, fresh)
    /\ Skip("io")
    /\ UNCHANGED <<setup, away, archive>>

(***************************************************************************)
(* Records.                                                                *)
(***************************************************************************)
\* Declined above the file system: a shadow, a status or policy that keeps
\* nothing, an entry with no shape here, or an unsafe path.
KeepsPartials == setup.partials /\ ~setup.strict

Accepted(r) ==
    /\ r.kind \in {"dir", "file"} /\ r.status # "shadow"
    /\ r.status = "unattested" => ~setup.strict
    /\ r.kind = "file" => /\ r.status # "unverified"
                          /\ r.status = "partial" => KeepsPartials
    /\ SafePath(r)

DeclinedRecord(r) ==
    /\ NextRecord
    /\ ~Accepted(r)
    /\ Skip("declined")
    /\ UNCHANGED <<destination, stage, claims>>

DirRecord(r) ==
    /\ NextRecord
    /\ r.kind = "dir" /\ Accepted(r)
    /\ UNCHANGED <<stage, claims>>
    /\ LET p == RecordPath[r.name] IN
       IF p = <<>> THEN Tell("dir", p, <<>>, FALSE) /\ UNCHANGED destination
       ELSE \/ PlaceDeclined(p, TRUE)
            \/ /\ Proceeds(p, TRUE, SalvageForce)
               /\ \/ ~IsDir(p) /\ OpenFails(p)
                  \/ /\ ~NameRefused(p)
                     /\ IF IsDir(p)
                        THEN /\ made' = Recorded(made, p, "dir", <<>>, Identity(p))
                             /\ UNCHANGED <<setup, disk, inode, away, archive>>
                        ELSE OpenAt(p, FreshDir, "dir", TRUE)
                     /\ Tell("dir", p, <<>>, FALSE)

\* The payload's bytes at w: all of them, some (a read fails, or the archive
\* changed since the scan), or the write fails and nothing is kept.
Decoded(r, n) == {Contents[n], <<"cut">>}

\* The disposition, in the code's order: a disambiguated record first.
Disposed(r, w, data, n, aside) ==
    LET partial == r.status = "partial" IN
    /\ claims' = [Claiming(RecordPath[r.name], w, n) EXCEPT !.ids[disk'[Folded(w)]] = n]
    /\ Tell(IF aside THEN "aside" ELSE IF partial THEN "partial" ELSE "written",
            w, data, partial)
    /\ UNCHANGED stage

\* A record proven whole decoded short: the archive changed; the run ends.
ShortOfTheScan(r, data, n, aside) ==
    ~aside /\ r.status # "partial" /\ data # Contents[n]

WriteRecord(r, w, n, aside) ==
    \/ \E data \in Decoded(r, n) :
          IF ShortOfTheScan(r, data, n, aside)
          THEN /\ OpenAt(w, FreshDir, "file", FALSE)
               /\ stage' = "failed" /\ claims' = Claiming(RecordPath[r.name], w, n)
               /\ UNCHANGED told
          ELSE /\ OpenAt(w, [kind |-> "file", data |-> data], "file", TRUE)
               /\ Disposed(r, w, data, n, aside)
    \/ /\ OpenAt(w, FreshDir, "file", FALSE)        \* written, then removed
       /\ Skip("io")
       /\ claims' = Claiming(RecordPath[r.name], w, n)
       /\ UNCHANGED stage
    \/ /\ \E data \in Decoded(r, n) \cup {<<"empty">>} :   \* the format refuses it now
             OpenAt(w, [kind |-> "file", data |-> data], "file", TRUE)
       /\ stage' = "failed" /\ claims' = Claiming(RecordPath[r.name], w, n)
       /\ UNCHANGED told

FileRecord(r) ==
    /\ NextRecord
    /\ r.kind = "file" /\ Accepted(r)
    /\ LET n == scanned + 1
           p == RecordPath[r.name]
           partial == r.status = "partial"
       IN  \E base \in BaseTargets(p, n, partial) :
           LET w == AsWritten(base, partial) IN
           \/ /\ PlaceDeclined(w, FALSE) \/ (Proceeds(w, FALSE, SalvageForce) /\ OpenFails(w))
              /\ claims' = Claiming(p, w, n)
              /\ UNCHANGED stage
           \/ /\ Proceeds(w, FALSE, SalvageForce) /\ ~NameRefused(w)
              /\ WriteRecord(r, w, n, Taken(p, partial))

EndOfScan ==
    /\ stage = "placing"
    /\ stage' = "done"
    /\ UNCHANGED <<destination, scanned, claims, told>>

SalvageInit ==
    /\ FoundDestination
    /\ stage = "placing" /\ scanned = 0 /\ told = <<>>
    /\ claims = [paths |-> <<>>, ids |-> [i \in Inos |-> 0]]

SalvageNext ==
    \/ \E r \in Records : DeclinedRecord(r) \/ DirRecord(r) \/ FileRecord(r)
    \/ EndOfScan
=============================================================================
