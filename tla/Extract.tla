------------------------------ MODULE Extract ------------------------------
(***************************************************************************)
(* `unpack`: entries.rs extract.  One action per arm of the loop over the  *)
(* archive's entries (each arm whole: containment, placement, creation,    *)
(* the record), then the directories' deferred metadata, deepest first.    *)
(* The archive is any sequence of at most MaxEntries of the Entries; it    *)
(* may name one path twice, link to what it never held, or contradict      *)
(* itself.  Another program may move a directory this run made away and    *)
(* put one of its own (or a symlink) in its place between two steps.       *)
(***************************************************************************)
EXTENDS Destination

CONSTANTS
    Entries,    \* what an archive may hold: records [kind, name, says, to]
    PathOf,     \* entry name -> the path safe_join gives it, or Unsafe
    Unsafe,     \* what safe_join refuses
    Payloads,   \* the content of the archive's n-th entry
    MaxEntries, \* bound on the archive's length
    Locking     \* modes that keep their own directory from being opened

ASSUME EntriesBound == MaxEntries \in Nat

\* What safe_join gives is a sequence of components.
ASSUME PathsType ==
    \A e \in Entries : PathOf[e.name] = Unsafe \/ PathOf[e.name] \in Seq(Range(PathOf[e.name]))

\* The file system folds every name an entry may have, to some name.
ASSUME FoldsPaths ==
    \A e \in Entries : PathOf[e.name] # Unsafe =>
        \A s \in Setups : PathOf[e.name] \in Seq(Seq(DOMAIN s.fold))

\* Another program's directory is told from the run's own by its data: no
\* mode an archive holds is that.
ASSUME TheirsApart ==
    \A e \in Entries : e.kind = "dir" => e.says # <<"theirs">>

\* A directory as mkdir makes it can be searched; where dest holds one that
\* cannot, no entry lies below it (place could not even look there).
ASSUME Searchable ==
    /\ <<"umask">> \notin Locking
    /\ \A s \in Setups : \A q \in DOMAIN s.holds :
          s.holds[q].kind = "dir" /\ s.holds[q].data \in Locking =>
             \A e \in Entries :
                PathOf[e.name] # Unsafe => q \notin Parents(FoldedBy(s, PathOf[e.name]))

VARIABLES
    phase,      \* "entries", then "dirs" (done once none is deferred), or "failed"
    read,       \* how many entries were read
    entry,      \* the entry read last, or None
    warned,     \* the entries skipped with a warning
    names,      \* the names of explicit entries this run wrote
    deferred,   \* deferred_dirs: [path, mode, id, entry]
    lost        \* the entries whose directory metadata was reported lost

extraction == <<warned, names, deferred, lost>>

Root == <<>>
Forced == setup.force

(***************************************************************************)
(* What every arm does.                                                    *)
(***************************************************************************)
Reading(e) ==
    /\ phase = "entries" /\ read < MaxEntries
    /\ read' = read + 1 /\ entry' = e

Fail == phase' = "failed"

Warn ==
    /\ warned' = warned \cup {read'}
    /\ UNCHANGED <<phase, names, deferred, lost>>

\* place_entry refuses or skips: nothing on disk changes.
Declined(p, placingDir) ==
    /\ UNCHANGED destination
    /\ \/ Held(p, placingDir, Forced) /\ Fail /\ UNCHANGED extraction
       \/ Skipped(p, placingDir, Forced) /\ Warn

\* place_entry proceeded: node is made at p, and p's record is `kind`.
\* Without a node nothing is made at p (a refused name, a failed create).
MakeAt(p, node, kind, isNew) ==
    \E fresh \in Fresh(MissingParents(p) \cup {p}, Cleared(p)) :
        /\ disk' = Put(PlacedDisk(p, fresh), Folded(p), fresh[p])
        /\ inode' = [PlacedInode(p, fresh) EXCEPT ![fresh[p]] = node]
        /\ made' = IF kind = "none" THEN PlacedMade(p, fresh)
                   ELSE LET m == Recorded(PlacedMade(p, fresh), p, kind,
                                          IF kind = "link" THEN node.data ELSE <<>>,
                                          fresh[p])
                        IN  [m EXCEPT !.dirs = IF isNew THEN Put(@, p, fresh[p]) ELSE @]
        /\ UNCHANGED <<setup, away, archive>>

MakeParentsOnly(p) ==
    \E fresh \in Fresh(MissingParents(p), Cleared(p)) :
        /\ disk' = PlacedDisk(p, fresh)
        /\ inode' = PlacedInode(p, fresh)
        /\ made' = PlacedMade(p, fresh)
        /\ UNCHANGED <<setup, away, archive>>

\* skip_if_name_refused: the create call met the refusal place did not.
RefusedName(p) == NameRefused(p) /\ MakeParentsOnly(p) /\ Warn

\* The create itself fails for the destination's own reasons (ENOSPC).
CreateFails(p) == MakeParentsOnly(p) /\ Fail /\ UNCHANGED extraction

\* made.record: the entry's name reaches its path.
Recording(e) == names' = names \cup {e.name}

(***************************************************************************)
(* Containment, before anything is created.                                *)
(***************************************************************************)
Contained(e) ==
    /\ PathOf[e.name] # Unsafe
    /\ PathOf[e.name] = Root => e.kind = "dir"
    /\ ~SymlinkedAncestor(PathOf[e.name])

Uncontained(e) ==
    /\ Reading(e)
    /\ ~Contained(e)
    /\ Fail
    /\ UNCHANGED <<destination, extraction>>

(***************************************************************************)
(* Directories.                                                            *)
(***************************************************************************)
\* `.` names the caller's own directory: nothing is made or re-moded.
DestinationEntry(e) ==
    /\ Reading(e)
    /\ Contained(e) /\ PathOf[e.name] = Root
    /\ Recording(e)
    /\ UNCHANGED <<destination, phase, warned, deferred, lost>>

\* Only a directory this run's own mkdir made has its metadata deferred.
Deferring(e, p) ==
    deferred' = IF p \in DOMAIN made'.dirs
                THEN Append(deferred, [path |-> p, mode |-> e.says,
                                       id |-> made'.dirs[p], entry |-> read'])
                ELSE deferred

DirEntry(e) ==
    /\ Reading(e)
    /\ e.kind = "dir" /\ Contained(e) /\ PathOf[e.name] # Root
    /\ LET p == PathOf[e.name] IN
       \/ Declined(p, TRUE)
       \/ /\ Proceeds(p, TRUE, Forced)
          /\ \/ RefusedName(p)
             \/ ~NameRefused(p) /\ ~IsDir(p) /\ CreateFails(p)
             \/ /\ ~NameRefused(p)
                /\ IF IsDir(p)
                   THEN /\ made' = Recorded(made, p, "dir", <<>>, Identity(p))
                        /\ UNCHANGED <<setup, disk, inode, away, archive>>
                   ELSE MakeAt(p, FreshDir, "dir", TRUE)
                /\ Recording(e) /\ Deferring(e, p)
                /\ UNCHANGED <<phase, warned, lost>>

(***************************************************************************)
(* Files: on disk once created, whole once the payload was copied.  A      *)
(* payload that fails part-way (a corrupt entry, the budget, a full disk)  *)
(* leaves what was written and ends the run.                               *)
(***************************************************************************)
FileEntry(e) ==
    /\ Reading(e)
    /\ e.kind = "file" /\ Contained(e)
    /\ LET p == PathOf[e.name] IN
       \/ Declined(p, FALSE)
       \/ /\ Proceeds(p, FALSE, Forced)
          /\ \/ RefusedName(p)
             \/ ~NameRefused(p) /\ CreateFails(p)
             \/ /\ ~NameRefused(p)
                /\ MakeAt(p, [kind |-> "file", data |-> <<"cut">>], "none", FALSE)
                /\ Fail /\ UNCHANGED extraction
             \/ /\ ~NameRefused(p)
                /\ MakeAt(p, [kind |-> "file", data |-> Payloads[read']], "file", FALSE)
                /\ Recording(e)
                /\ UNCHANGED <<phase, warned, deferred, lost>>

(***************************************************************************)
(* Symlinks, and the hard link to one.                                     *)
(***************************************************************************)
\* classify_symlink_target, by depth: at any prefix of the target the walk
\* from the link's own directory leaves dest ...
Climbs(text) == Cardinality({k \in DOMAIN text : text[k] = ".."})
Escapes(p, text) ==
    \E k \in DOMAIN text :
        LET climbs == Climbs(SubSeq(text, 1, k))
        IN  climbs > (Len(p) - 1) + (k - climbs)

\* ... or, by shape, it climbs after a name, or is empty.
Shapeless(text) ==
    text = <<>> \/ \E j, k \in DOMAIN text : j < k /\ text[j] # ".." /\ text[k] = ".."

\* extract_symlink: text is the link's own, or its hard-link target's.
PlaceSymlink(e, p, text) ==
    \/ Escapes(p, text) /\ Fail /\ UNCHANGED <<destination, extraction>>
    \/ ~Escapes(p, text) /\ Shapeless(text) /\ Warn /\ UNCHANGED destination
    \/ /\ ~Escapes(p, text) /\ ~Shapeless(text)
       /\ \/ Declined(p, FALSE)
          \/ /\ Proceeds(p, FALSE, Forced)
             /\ \/ RefusedName(p)
                \/ ~NameRefused(p) /\ CreateFails(p)
                \/ /\ ~NameRefused(p)
                   /\ MakeAt(p, [kind |-> "link", data |-> text], "link", FALSE)
                   /\ Recording(e)
                   /\ UNCHANGED <<phase, warned, deferred, lost>>

SymlinkEntry(e) ==
    /\ Reading(e)
    /\ e.kind = "symlink" /\ Contained(e)
    /\ PlaceSymlink(e, PathOf[e.name], e.says)

(***************************************************************************)
(* Hard links.                                                             *)
(***************************************************************************)
\* MadeByRun::resolve, by the exact string.
Resolves(t) == t \in names /\ PathOf[t] \in DOMAIN made.at

\* Nothing to link to, or the entry is its own target: skipped.
NoTarget(e) ==
    \/ e.to = e.name
    \/ ~Resolves(e.to)
    \/ PathOf[e.to] = PathOf[e.name]

\* Variant: every link is made anew.
NeverOneInode(t, p) == FALSE

\* already_linked: the two paths are one inode.
OneInode(t, p) == Identity(t) # None /\ Identity(t) = Identity(p)
OneEntry(t) == Links(Identity(t)) <= 1
DistinctName(t, p) == ~OneEntry(t) /\ MadeExact(p) /\ MadeExact(t)

\* One inode already: nothing is removed; only the report differs.
AlreadyLinked(e, p, t) ==
    IF DistinctName(t, p)
    THEN /\ Forced
         /\ made' = LET k == made.at[t] IN
                    Recorded(made, p, IF k.kind = "link" THEN "link" ELSE "hard",
                             k.data, Identity(p))
         /\ Recording(e)
         /\ UNCHANGED <<setup, disk, inode, away, archive,
                        phase, warned, deferred, lost>>
    ELSE UNCHANGED destination /\ Warn

\* The target is a regular file of this run's record: link to it, or copy it.
LinkOrCopy(e, p, t) ==
    \/ SymlinkedAncestor(t) /\ Fail /\ UNCHANGED <<destination, extraction>>
    \/ /\ ~SymlinkedAncestor(t) /\ There(t).kind # "file"
       /\ Warn /\ UNCHANGED destination
    \/ /\ ~SymlinkedAncestor(t) /\ There(t).kind = "file"
       /\ \/ Declined(p, FALSE)
          \/ /\ Proceeds(p, FALSE, Forced)
             /\ \/ RefusedName(p)
                \/ /\ ~NameRefused(p)           \* hard_link
                   /\ Folded(t) \in DOMAIN Cleared(p)
                   /\ \E fresh \in Fresh(MissingParents(p), Cleared(p)) :
                         /\ disk' = Put(PlacedDisk(p, fresh), Folded(p), Identity(t))
                         /\ inode' = PlacedInode(p, fresh)
                         /\ made' = Recorded(PlacedMade(p, fresh), p, "hard",
                                             <<>>, Identity(t))
                         /\ UNCHANGED <<setup, away, archive>>
                   /\ Recording(e)
                   /\ UNCHANGED <<phase, warned, deferred, lost>>
                \/ /\ ~NameRefused(p)           \* copy_link_target
                   /\ Folded(t) \in DOMAIN Cleared(p)
                   /\ MakeAt(p, There(t), "hard", FALSE)
                   /\ Recording(e)
                   /\ UNCHANGED <<phase, warned, deferred, lost>>
                \/ MakeParentsOnly(p) /\ Warn   \* the target cannot be read
                \/ ~NameRefused(p) /\ CreateFails(p)
                \/ /\ ~NameRefused(p)           \* the copy's own write fails
                   /\ MakeAt(p, [kind |-> "file", data |-> <<"cut">>], "none", FALSE)
                   /\ Fail /\ UNCHANGED extraction

HardLinkTo(e, p, t) ==
    LET kind == made.at[t].kind IN
    IF kind # "dir" /\ OneInode(t, p) /\ (DistinctName(t, p) => Forced)
    THEN AlreadyLinked(e, p, t)
    ELSE \/ kind = "dir" /\ Warn /\ UNCHANGED destination
         \/ kind = "link" /\ PlaceSymlink(e, p, made.at[t].data)
         \/ kind \in {"file", "hard"} /\ LinkOrCopy(e, p, t)

HardLinkEntry(e) ==
    /\ Reading(e)
    /\ e.kind = "hardlink" /\ Contained(e)
    /\ \/ PathOf[e.to] = Unsafe /\ Fail /\ UNCHANGED <<destination, extraction>>
       \/ PathOf[e.to] # Unsafe /\ NoTarget(e) /\ Warn /\ UNCHANGED destination
       \/ /\ PathOf[e.to] # Unsafe /\ ~NoTarget(e)
          /\ HardLinkTo(e, PathOf[e.name], PathOf[e.to])

\* The container cannot read its next entry, or the codec beneath it fails.
ArchiveFails ==
    /\ phase = "entries"
    /\ Fail
    /\ UNCHANGED <<destination, read, entry, extraction>>

\* A device, a fifo, a socket.
SpecialEntry(e) ==
    /\ Reading(e)
    /\ e.kind = "other" /\ Contained(e)
    /\ Warn /\ UNCHANGED destination

(***************************************************************************)
(* The deferred metadata.                                                  *)
(***************************************************************************)
\* Variant: in the archive's order.
ArchiveOrder(s) == {s}

\* sort_by_key(Reverse(depth)): stable, so equal depths keep their order.
Before(s, j, k) ==
    \/ Len(s[j].path) > Len(s[k].path)
    \/ Len(s[j].path) = Len(s[k].path) /\ j < k

DeepestFirst(s) ==
    LET orders == {f \in [DOMAIN s -> DOMAIN s] :
                     \A j, k \in DOMAIN s : j < k => Before(s, f[j], f[k])}
    IN  {[k \in DOMAIN s |-> s[f[k]]] : f \in orders}

EndOfArchive ==
    /\ phase = "entries"
    /\ phase' = "dirs"
    /\ deferred' \in DeepestFirst(deferred)
    /\ UNCHANGED <<destination, read, entry, warned, names, lost>>

\* open_created_dir: by path, no symlink at the last component, every
\* directory above searchable, itself readable, and still the recorded inode.
Openable(q) == IsDir(q) /\ There(q).data \notin Locking
Opens(d) ==
    /\ \A q \in Parents(d.path) \cup {d.path} : Openable(q)
    /\ Identity(d.path) = d.id

ApplyDirMetadata ==
    /\ phase = "dirs" /\ deferred # <<>>
    /\ LET d == Head(deferred) IN
       IF Opens(d)
       THEN /\ inode' = [inode EXCEPT ![Identity(d.path)].data = d.mode]
            /\ UNCHANGED lost
       ELSE lost' = lost \cup {d.entry} /\ UNCHANGED inode
    /\ deferred' = Tail(deferred)
    /\ UNCHANGED <<setup, disk, away, archive, made, phase, read, entry, warned, names>>

(***************************************************************************)
(* Another program.                                                        *)
(***************************************************************************)
Below(q) == {r \in DOMAIN disk : r = q \/ q \in Parents(r)}

\* It moves a directory this run made out of dest and something of its own in.
OtherSwaps ==
    /\ setup.others /\ away = {}
    /\ phase \in {"entries", "dirs"}
    /\ \E q \in DOMAIN disk, i \in Free(disk),
          node \in {[kind |-> "dir", data |-> <<"theirs">>],
                   [kind |-> "link", data |-> <<"theirs">>]} :
          /\ IsDir(q) /\ disk[q] \in Range(made.dirs)
          /\ away' = {disk[r] : r \in Below(q)}
          /\ disk' = Put(Restrict(disk, DOMAIN disk \ Below(q)), q, i)
          /\ inode' = [inode EXCEPT ![i] = node]
    /\ UNCHANGED <<setup, archive, made, phase, read, entry, extraction>>

(***************************************************************************)
(* The run.                                                                *)
(***************************************************************************)
ExtractInit ==
    /\ FoundDestination
    /\ phase = "entries" /\ read = 0 /\ entry = None
    /\ warned = {} /\ names = {} /\ deferred = <<>> /\ lost = {}

ExtractNext ==
    \/ \E e \in Entries :
          \/ Uncontained(e) \/ DestinationEntry(e) \/ DirEntry(e)
          \/ FileEntry(e) \/ SymlinkEntry(e) \/ HardLinkEntry(e) \/ SpecialEntry(e)
    \/ ArchiveFails \/ EndOfArchive \/ ApplyDirMetadata \/ OtherSwaps
=============================================================================
