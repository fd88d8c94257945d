----------------------------- MODULE Unpacking -----------------------------
(***************************************************************************)
(* What `unpack` promises of the destination to someone who sees only      *)
(* names and contents: each entry either puts what it says at its own path *)
(* (and makes the directories above it), or is warned about, or ends the   *)
(* run; nothing else changes.  No directory and not the archive itself is  *)
(* ever replaced, and nothing at all without force.  Extract implements    *)
(* it; inodes, records and links do not exist here.                        *)
(***************************************************************************)
EXTENDS Naturals, Sequences

CONSTANTS Unsafe, None, Setups, Entries, PathOf, Payloads

VARIABLES
    setup,      \* the invocation
    tree,       \* folded path -> what an onlooker finds there
    read,       \* entries read
    entry,      \* the last of them, or None
    warned,     \* entries the user was warned about
    over        \* the run failed

NewDir == [kind |-> "dir", data |-> <<"umask">>]
Cut == [kind |-> "file", data |-> <<"cut">>]

At(p) == [k \in DOMAIN p |-> [t \in DOMAIN p[k] |-> setup.fold[p[k][t]]]]
Ancestors(q) == {SubSeq(q, 1, k) : k \in 1 .. Len(q) - 1}    \* never dest
Above(p) == Ancestors(At(p))
DirAt(q) == q \in DOMAIN tree /\ tree[q].kind = "dir"

\* tree over the paths in D, with directories where nothing was: with those
\* in S, and p itself holding c, or nothing.
Onto(D) == [q \in D |-> IF q \in DOMAIN tree THEN tree[q] ELSE NewDir]
Under(S) == Onto(DOMAIN tree \cup S)
With(p, c, S) ==
    [q \in DOMAIN tree \cup S \cup {At(p)} |-> IF q = At(p) THEN c ELSE Under(S)[q]]
Without(p, S) == Onto((DOMAIN tree \cup S) \ {At(p)})

MayReplace(p) ==
    /\ p \notin {<<>>, Unsafe}
    /\ ~DirAt(At(p))
    /\ At(p) \in DOMAIN tree => setup.force
    /\ setup.archive \in DOMAIN setup.holds => At(p) # setup.archive

\* A name the file system folds onto another's, or another program's work,
\* can leave a hard link to a symlink only the archive's word for its text.
Disturbed == setup.others \/ \E t \in DOMAIN setup.fold : setup.fold[t] # t

LinkTexts == {f.says : f \in {g \in Entries : g.kind = "symlink"}}

Says(e) ==
    IF e.kind = "file" THEN {[kind |-> "file", data |-> Payloads[read']]}
    ELSE IF e.kind = "dir" THEN {NewDir}
    ELSE IF e.kind = "symlink" THEN {[kind |-> "link", data |-> e.says]}
    ELSE IF e.kind = "hardlink"
    THEN {tree[q] : q \in {r \in DOMAIN tree : r = At(PathOf[e.to]) /\ ~DirAt(r)}}
           \cup {[kind |-> "link", data |-> text] : text \in {s \in LinkTexts : Disturbed}}
    ELSE {}

EntryPlaced(e) ==
    /\ UNCHANGED <<warned, over>>
    /\ \E c \in Says(e) :
          LET p == PathOf[e.name] IN
          IF e.kind = "dir" /\ (p = <<>> \/ DirAt(At(p)))
          THEN tree' = tree
          ELSE MayReplace(p) /\ tree' = With(p, c, Above(p))

\* What an entry that was not placed may leave: some directories above its
\* path, and its path emptied.
Abandoned(p) ==
    \/ tree' = tree
    \/ \E S \in SUBSET Above(p) :
          \/ tree' = Under(S)
          \/ MayReplace(p) /\ tree' = Without(p, S)

\* A hard link to its own name never costs a file that name.
LinksToItself(e) ==
    e.kind = "hardlink" /\ PathOf[e.to] # Unsafe /\ At(PathOf[e.to]) = At(PathOf[e.name])

EntrySkipped(e) ==
    /\ warned' = warned \cup {read'}
    /\ UNCHANGED over
    /\ Abandoned(PathOf[e.name])
    /\ LinksToItself(e) /\ At(PathOf[e.name]) \in DOMAIN tree => tree' = tree

EntryFailed(e) ==
    /\ over' = TRUE
    /\ UNCHANGED warned
    /\ LET p == PathOf[e.name] IN
       \/ Abandoned(p)
       \/ MayReplace(p) /\ tree' = With(p, Cut, Above(p))

Entry(e) ==
    /\ ~over /\ read' = read + 1 /\ entry' = e
    /\ EntryPlaced(e) \/ EntrySkipped(e) \/ EntryFailed(e)
    /\ UNCHANGED setup

HeldDirs == {q \in DOMAIN setup.holds : setup.holds[q].kind = "dir"}

Theirs == [kind |-> "dir", data |-> <<"theirs">>]

\* An archived mode reaches only a directory the run made: not one dest held,
\* not one another program put in its place.
SetMode ==
    /\ UNCHANGED <<setup, read, entry, warned, over>>
    /\ \E q \in DOMAIN tree \ HeldDirs, e \in {f \in Entries : f.kind = "dir"} :
          DirAt(q) /\ tree[q] # Theirs /\ tree' = [tree EXCEPT ![q].data = e.says]

Fails == over' = TRUE /\ UNCHANGED <<setup, tree, read, entry, warned>>

Others ==
    /\ setup.others
    /\ \E q \in DOMAIN tree :
          \A r \in DOMAIN tree \cup DOMAIN tree' :
             \/ r = q \/ q \in Ancestors(r)
             \/ r \in DOMAIN tree \cap DOMAIN tree' /\ tree'[r] = tree[r]
    /\ UNCHANGED <<setup, read, entry, warned, over>>

Init ==
    /\ setup \in Setups
    /\ tree = setup.holds
    /\ read = 0 /\ entry = None /\ warned = {} /\ over = FALSE

Next == (\E e \in Entries : Entry(e)) \/ SetMode \/ Fails \/ Others

Spec == Init /\ [][Next]_<<setup, tree, read, entry, warned, over>>
=============================================================================
