---------------------------- MODULE Destination ----------------------------
(***************************************************************************)
(* The destination directory `unpack` and `salvage` write into, the record *)
(* a run keeps of what it made there (MadeByRun), and the one owner of     *)
(* "what may sit at an entry's path" (place): entries.rs.                  *)
(*                                                                         *)
(* The file system is a tree of names over inodes.  It may fold names      *)
(* (`A` and `a` are one directory entry on a case-insensitive volume), and *)
(* it hands out any inode number no name holds, one just freed included.   *)
(* A path is a sequence of components below the destination, as the        *)
(* archive spells it; a component is a sequence of tokens, so that a       *)
(* suffix salvage appends (`.partial`, `.salvaged-N`) is one more token.   *)
(* What the disk holds is indexed by folded paths.                         *)
(***************************************************************************)
EXTENDS Naturals, Sequences, FiniteSets, SequencesExt

CONSTANTS
    Refused,    \* components this file system refuses (ENAMETOOLONG, EILSEQ)
    Inos,       \* inode numbers
    None,       \* no inode
    Setups      \* the invocations: see SetupsType

VARIABLES
    setup,      \* the invocation: fold, force, what dest held, which is the archive
    disk,       \* folded path -> the inode its directory entry names
    inode,      \* inode -> what it holds
    away,       \* inodes alive outside the destination
    archive,    \* the archive's inode while it is a file of dest, or None
    made        \* MadeByRun: [at, ids, dirs]

destination == <<setup, disk, inode, away, archive, made>>

Nothing == [kind |-> "none", data |-> <<>>]

\* f where it is defined, else g; and f with v at x.
Over(f, g) == [x \in DOMAIN f \cup DOMAIN g |-> IF x \in DOMAIN f THEN f[x] ELSE g[x]]
Put(f, x, v) == [y \in DOMAIN f \cup {x} |-> IF y = x THEN v ELSE f[y]]

(***************************************************************************)
(* Paths, spellings and what the disk holds at one.                        *)
(***************************************************************************)
FoldedBy(s, p) ==
    [k \in DOMAIN p |-> [t \in DOMAIN p[k] |-> s.fold[p[k][t]]]]
Folded(p) == FoldedBy(setup, p)

\* The directories above p's final component, never dest itself.
Parents(p) == {SubSeq(p, 1, k) : k \in 1 .. Len(p) - 1}

\* entries.rs identity: the inode at p, never following a symlink.
Identity(p) == IF Folded(p) \in DOMAIN disk THEN disk[Folded(p)] ELSE None
There(p) == IF Identity(p) = None THEN Nothing ELSE inode[Identity(p)]
IsDir(p) == There(p).kind = "dir"
IsOther(p) == There(p).kind \in {"file", "link"}

\* How many directory entries name inode i (st_nlink; dest's names only).
Links(i) == Cardinality({q \in DOMAIN disk : disk[q] = i})

\* entries.rs first_symlinked_ancestor.
SymlinkedAncestor(p) == \E q \in Parents(p) : There(q).kind = "link"

\* Inodes a create may be given: no directory entry names them, and nothing
\* outside the destination (the archive, what another program moved) is one.
Free(d) == Inos \ (away \cup Range(d))

(***************************************************************************)
(* MadeByRun's questions.                                                  *)
(***************************************************************************)
MadeExact(p) == p \in DOMAIN made.at /\ made.at[p].id = Identity(p)
MadeIdentity(p) == Identity(p) \in made.ids
Made(p) == MadeExact(p) \/ MadeIdentity(p)
IsArchive(p) == archive # None /\ Identity(p) = archive

\* Variant: the inode is not added to the identities.
RecordedByPathOnly(m, p, kind, data, id) ==
    [m EXCEPT !.at = Put(@, p, [kind |-> kind, data |-> data, id |-> id])]

\* record_path: what was just made at p, with the inode it has now.
Recorded(m, p, kind, data, id) ==
    [at   |-> Put(m.at, p, [kind |-> kind, data |-> data, id |-> id]),
     ids  |-> m.ids \cup {id},
     dirs |-> m.dirs]

(***************************************************************************)
(* place: rule 1 (the parent chain), rule 2 (the target itself), rule 3    *)
(* (the missing parents).                                                  *)
(***************************************************************************)
Blockers(p) == {q \in Parents(p) : IsOther(q)}

\* The walk meets a component the file system refuses before a missing one.
MeetsRefusal(p) ==
    \E k \in DOMAIN p : /\ p[k] \in Refused
                        /\ \A q \in Parents(p) : Len(q) < k => IsDir(q)

Clear(p) == Blockers(p) = {} /\ ~MeetsRefusal(p)

\* Held: what the destination held before blocks the entry.
Held(p, placingDir, force) ==
    \/ \E q \in Blockers(p) : ~Made(q)
    \/ /\ Clear(p)
       /\ \/ IsDir(p) /\ ~placingDir /\ ~Made(p)
          \/ IsOther(p) /\ ~force

\* Skip: the archive contradicts itself on disk, names itself, or carries a
\* name this file system refuses.
Skipped(p, placingDir, force) ==
    \/ \E q \in Blockers(p) : Made(q)
    \/ Blockers(p) = {} /\ MeetsRefusal(p)
    \/ /\ Clear(p)
       /\ \/ IsDir(p) /\ ~placingDir /\ Made(p)
          \/ IsOther(p) /\ IsArchive(p) /\ force

Proceeds(p, placingDir, force) ==
    ~Held(p, placingDir, force) /\ ~Skipped(p, placingDir, force)

\* Rule 2's removal: whatever is not a directory goes, and its exact key.
Cleared(p) == IF IsOther(p) THEN Restrict(disk, DOMAIN disk \ {Folded(p)}) ELSE disk
Forgotten(p) ==
    IF IsOther(p) THEN Restrict(made.at, DOMAIN made.at \ {p}) ELSE made.at

\* Rule 3: the parents this call makes, up to one the file system refuses.
MissingParents(p) ==
    {q \in Parents(p) :
        There(q).kind = "none" /\ \A k \in DOMAIN q : q[k] \notin Refused}

\* An entry's own name, or a parent rule 3 would make, is refused.
NameRefused(p) == \E k \in DOMAIN p : p[k] \in Refused

\* Every way to hand distinct fresh inodes to the paths in S on disk d.
Fresh(S, d) == {f \in [S -> Free(d)] : \A q, r \in S : q # r => f[q] # f[r]}

FreshDir == [kind |-> "dir", data |-> <<"umask">>]

\* place's effect when it proceeds: the disk, the inodes and the record,
\* with fresh[q] the inode of each parent it makes.
PlacedDisk(p, fresh) ==
    LET new == {Folded(q) : q \in MissingParents(p)}
    IN  Over([q \in new |-> fresh[CHOOSE r \in MissingParents(p) : Folded(r) = q]],
             Cleared(p))

PlacedInode(p, fresh) ==
    [i \in Inos |-> IF \E r \in MissingParents(p) : fresh[r] = i
                    THEN FreshDir ELSE inode[i]]

PlacedMade(p, fresh) ==
    LET new == MissingParents(p) IN
    [at   |-> Over([q \in new |-> [kind |-> "dir", data |-> <<>>, id |-> fresh[q]]],
                   Forgotten(p)),
     ids  |-> made.ids \cup {fresh[q] : q \in new},
     dirs |-> Over([q \in new |-> fresh[q]], made.dirs)]

(***************************************************************************)
(* The destination as the run finds it.                                    *)
(***************************************************************************)
\* A setup's holds says what is at each (folded) path: a directory, a file or
\* a symlink, in directories only.  Its archive is one of those paths, or not.
\* A path is a sequence of components.
ASSUME SetupsType ==
    \A s \in Setups :
        /\ s.force \in BOOLEAN /\ s.others \in BOOLEAN
        /\ s.holds = [q \in DOMAIN s.holds |-> s.holds[q]]
        /\ \A q \in DOMAIN s.holds :
              /\ q \in Seq(Range(q))
              /\ s.holds[q].kind \in {"dir", "file", "link"}
              /\ \A r \in Parents(q) : r \in DOMAIN s.holds /\ s.holds[r].kind = "dir"

ASSUME NoneAssumption == None \notin Inos

\* What the setup says dest holds, at any distinct inodes; the archive is a
\* file of dest, or elsewhere, or a pipe.
FoundDestination ==
    /\ setup \in Setups
    /\ away = {}
    /\ disk \in Fresh(DOMAIN setup.holds, <<>>)
    /\ inode = [i \in Inos |-> IF i \in Range(disk)
                               THEN setup.holds[CHOOSE q \in DOMAIN disk : disk[q] = i]
                               ELSE Nothing]
    /\ archive = IF setup.archive \in DOMAIN setup.holds
                 THEN disk[setup.archive] ELSE None
    /\ made = [at |-> <<>>, ids |-> {}, dirs |-> <<>>]

\* Every directory entry and every record names an inode, and no two paths
\* name one directory.
DestinationTypeOK ==
    /\ disk \in [DOMAIN disk -> Inos]
    /\ DOMAIN inode = Inos
    /\ away \subseteq Inos
    /\ archive \in Inos \cup {None}
    /\ made.ids \subseteq Inos
    /\ \A p \in DOMAIN made.at : made.at[p].id \in made.ids
    /\ made.dirs \in [DOMAIN made.dirs -> made.ids]
=============================================================================
