---------------------------- MODULE VerbsProofs ----------------------------
(***************************************************************************)
(* Proofs about Verbs, for any destination, entries, records and names, on *)
(* any file system.  place and the run's record come first: what it makes   *)
(* takes the name and the inode of nothing the destination held, unless it *)
(* may.  Then `unpack`, entry by entry, and `salvage`, record by record.   *)
(* Then the modes `unpack` defers: where its directories stand.  Last, that *)
(* `unpack` implements Unpacking, arm by arm: what its record says is true  *)
(* of the disk, so each arm's effect is one the promise allows.             *)
(***************************************************************************)
EXTENDS Verbs, ScanProofs

-------------------------------------------------------------------------------
(* The destination: what of it neither verb may touch, and what the run     *)
(* made there.                                                              *)

(* What dest held that stays: all of it, but for what `unpack --force`      *)
(* replaces.                                                                *)
Untouchable ==
  {q \in DOMAIN setup.holds :
     \/ setup.verb # "unpack" \/ ~setup.force
     \/ setup.holds[q].kind = "dir" \/ q = setup.archive}

(* The directories this run made, now or before.                            *)
RunDirs == Range(made.dirs) \cup {deferred[k].id : k \in DOMAIN deferred}

Untouched ==
  \A q \in Untouchable :
    q \in DOMAIN disk /\ inode[disk[q]] = setup.holds[q] /\ disk[q] \notin RunDirs

DestInv ==
  /\ setup \in Setups /\ DestinationTypeOK
  /\ Untouched
  /\ setup.archive \in DOMAIN setup.holds => archive = disk[setup.archive]

(* What a step leaves of it.                                                *)
Spares ==
  /\ setup' = setup /\ archive' = archive
  /\ \A q \in Untouchable :
       /\ q \in DOMAIN disk' /\ disk'[q] = disk[q] /\ inode'[disk[q]] = inode[disk[q]]
       /\ disk[q] \notin Range(made'.dirs)

LEMMA SpareKeeps ==
  ASSUME DestInv, Spares, DestinationTypeOK',
         {deferred'[k].id : k \in DOMAIN deferred'}
           \subseteq {deferred[k].id : k \in DOMAIN deferred} \cup Range(made'.dirs)
  PROVE  DestInv'
  <1>1. Untouchable' = Untouchable
    BY DEF Spares, Untouchable
  <1>2. Untouched'
    <2>1. ASSUME NEW q \in Untouchable
          PROVE  q \in DOMAIN disk' /\ inode'[disk'[q]] = setup'.holds[q] /\ disk'[q] \notin RunDirs'
      <3>1. q \in DOMAIN disk /\ inode[disk[q]] = setup.holds[q] /\ disk[q] \notin RunDirs
        BY DEF DestInv, Untouched
      <3>2. disk[q] \notin RunDirs'
        BY <3>1 DEF Spares, RunDirs
      <3>. QED BY <3>1, <3>2 DEF Spares
    <2>. QED BY <1>1, <2>1 DEF Untouched
  <1>3. setup'.archive \in DOMAIN setup'.holds => archive' = disk'[setup'.archive]
    BY DEF DestInv, Spares, Untouchable
  <1>. QED BY <1>2, <1>3 DEF DestInv, Spares

(* What is at a path whose name is in the destination.                      *)
LEMMA ThereAt ==
  ASSUME DestinationTypeOK, NEW p, Folded(p) \in DOMAIN disk
  PROVE  /\ Identity(p) = disk[Folded(p)] /\ Identity(p) \in Inos
         /\ There(p) = inode[disk[Folded(p)]]
  <1>1. disk[Folded(p)] \in Inos
    BY DEF DestinationTypeOK
  <1>. QED BY <1>1, NoneAssumption DEF Identity, There

LEMMA ThereSomething ==
  ASSUME DestinationTypeOK, NEW p, There(p).kind # "none"
  PROVE  Folded(p) \in DOMAIN disk /\ Identity(p) \in Inos
  <1>1. Identity(p) # None
    BY DEF There, Nothing
  <1>2. Folded(p) \in DOMAIN disk
    BY <1>1 DEF Identity
  <1>. QED BY <1>2, ThereAt

(* What place does to the rest of the disk.                                 *)
LEMMA PlaceSpares ==
  ASSUME DestinationTypeOK, NEW p, NEW S, MissingParents(p) \subseteq S,
         NEW fresh \in Fresh(S, Cleared(p)),
         NEW q \in DOMAIN Cleared(p), inode[disk[q]].kind # "none"
  PROVE  /\ q \in DOMAIN PlacedDisk(p, fresh) /\ PlacedDisk(p, fresh)[q] = disk[q]
         /\ \A s \in S : fresh[s] # disk[q]
         /\ PlacedInode(p, fresh)[disk[q]] = inode[disk[q]]
  <1>1. q \in DOMAIN disk /\ Cleared(p)[q] = disk[q] /\ disk[q] \in Inos
    BY DEF Cleared, Restrict, DestinationTypeOK
  <1>2. \A s \in S : fresh[s] \in Free(Cleared(p))
    BY DEF Fresh
  <1>3. disk[q] \in Range(Cleared(p))
    BY <1>1 DEF Range
  <1>4. \A s \in S : fresh[s] # disk[q]
    BY <1>2, <1>3 DEF Free
  <1>5. q \notin {Folded(r) : r \in MissingParents(p)}
    <2>1. ASSUME NEW r \in MissingParents(p), Folded(r) = q PROVE FALSE
      <3>1. There(r) = inode[disk[q]]
        BY <1>1, <2>1, ThereAt
      <3>. QED BY <3>1 DEF MissingParents
    <2>. QED BY <2>1
  <1>6. q \in DOMAIN PlacedDisk(p, fresh) /\ PlacedDisk(p, fresh)[q] = disk[q]
    BY <1>1, <1>5 DEF PlacedDisk, Over
  <1>7. ~ \E r \in MissingParents(p) : fresh[r] = disk[q]
    BY <1>4
  <1>. QED BY <1>1, <1>4, <1>6, <1>7 DEF PlacedInode

(* What place makes is made of inodes.                                      *)
LEMMA PlaceTypes ==
  ASSUME DestinationTypeOK, NEW p, NEW S, MissingParents(p) \subseteq S,
         NEW fresh \in Fresh(S, Cleared(p))
  PROVE  /\ \A s \in S : fresh[s] \in Inos
         /\ PlacedDisk(p, fresh) \in [DOMAIN PlacedDisk(p, fresh) -> Inos]
         /\ DOMAIN PlacedInode(p, fresh) = Inos
         /\ PlacedMade(p, fresh).ids \subseteq Inos
         /\ \A r \in DOMAIN PlacedMade(p, fresh).at :
              PlacedMade(p, fresh).at[r].id \in PlacedMade(p, fresh).ids
         /\ PlacedMade(p, fresh).dirs
              \in [DOMAIN PlacedMade(p, fresh).dirs -> PlacedMade(p, fresh).ids]
         /\ Range(PlacedMade(p, fresh).dirs) \subseteq Range(made.dirs) \cup {fresh[s] : s \in S}
  <1>1. \A s \in S : fresh[s] \in Inos
    BY DEF Fresh, Free
  <1>2. \A x \in DOMAIN Cleared(p) : x \in DOMAIN disk /\ Cleared(p)[x] \in Inos
    BY DEF Cleared, Restrict, DestinationTypeOK
  <1>3. ASSUME NEW x \in DOMAIN PlacedDisk(p, fresh)
        PROVE  PlacedDisk(p, fresh)[x] \in Inos
    <2>. DEFINE new == {Folded(r) : r \in MissingParents(p)}
    <2>1. CASE x \in new
      <3>1. PlacedDisk(p, fresh)[x] = fresh[CHOOSE r \in MissingParents(p) : Folded(r) = x]
        BY <2>1 DEF PlacedDisk, Over
      <3>2. (CHOOSE r \in MissingParents(p) : Folded(r) = x) \in MissingParents(p)
        BY <2>1
      <3>. QED BY <1>1, <3>1, <3>2
    <2>2. CASE x \notin new
      BY <1>2, <2>2 DEF PlacedDisk, Over
    <2>. QED BY <2>1, <2>2
  <1>4. PlacedDisk(p, fresh) \in [DOMAIN PlacedDisk(p, fresh) -> Inos]
    <2>1. PlacedDisk(p, fresh) = [x \in DOMAIN PlacedDisk(p, fresh) |-> PlacedDisk(p, fresh)[x]]
      BY DEF PlacedDisk, Over
    <2>. QED BY <1>3, <2>1
  <1>5. DOMAIN PlacedInode(p, fresh) = Inos
    BY DEF PlacedInode
  <1>. DEFINE new == MissingParents(p)
              m == PlacedMade(p, fresh)
  <1>6. m.ids = made.ids \cup {fresh[s] : s \in new}
    BY DEF PlacedMade
  <1>7. m.ids \subseteq Inos
    BY <1>1, <1>6 DEF DestinationTypeOK
  <1>8. \A r \in DOMAIN m.at : m.at[r].id \in m.ids
    <2>1. ASSUME NEW r \in DOMAIN m.at PROVE m.at[r].id \in m.ids
      <3>1. m.at = Over([s \in new |-> [kind |-> "dir", data |-> <<>>, id |-> fresh[s]]],
                        Forgotten(p))
        BY DEF PlacedMade
      <3>2. CASE r \in new
        <4>1. m.at[r].id = fresh[r]
          BY <3>1, <3>2 DEF Over
        <4>. QED BY <1>6, <3>2, <4>1
      <3>3. CASE r \notin new
        <4>1. r \in DOMAIN Forgotten(p) /\ m.at[r] = Forgotten(p)[r]
          BY <2>1, <3>1, <3>3 DEF Over
        <4>2. r \in DOMAIN made.at /\ Forgotten(p)[r] = made.at[r]
          BY <4>1 DEF Forgotten, Restrict
        <4>. QED BY <1>6, <4>1, <4>2 DEF DestinationTypeOK
      <3>. QED BY <3>2, <3>3
    <2>. QED BY <2>1
  <1>9. m.dirs = Over([s \in new |-> fresh[s]], made.dirs)
    BY DEF PlacedMade
  <1>10. made.dirs \in [DOMAIN made.dirs -> made.ids]
    BY DEF DestinationTypeOK
  <1>. HIDE DEF m
  <1>11. m.dirs \in [DOMAIN m.dirs -> m.ids]
    BY <1>6, <1>9, <1>10 DEF Over
  <1>12. Range(m.dirs) \subseteq Range(made.dirs) \cup {fresh[s] : s \in S}
    BY <1>9, <1>10 DEF Over, Range
  <1>. QED BY <1>1, <1>4, <1>5, <1>7, <1>8, <1>11, <1>12 DEF m

(* What the run may not touch is not cleared, nor is its name given to      *)
(* another: place proceeds only elsewhere.                                  *)
LEMMA ProceedsSpares ==
  ASSUME DestInv, NEW p, NEW placingDir \in BOOLEAN, NEW force \in BOOLEAN,
         force => setup.verb = "unpack" /\ setup.force,
         Proceeds(p, placingDir, force), NEW q \in Untouchable
  PROVE  /\ q \in DOMAIN Cleared(p) /\ inode[disk[q]].kind # "none"
         /\ q = Folded(p) => IsDir(p)
  <1>1. /\ q \in DOMAIN disk /\ inode[disk[q]] = setup.holds[q] /\ q \in DOMAIN setup.holds
        /\ setup.holds[q].kind \in {"dir", "file", "link"}
    BY SetupsType DEF DestInv, Untouched, Untouchable
  <1>2. DestinationTypeOK
    BY DEF DestInv
  <1>3. CASE q = Folded(p)
    <2>1. There(p) = setup.holds[q] /\ Identity(p) = disk[q] /\ Identity(p) \in Inos
      BY <1>1, <1>2, <1>3, ThereAt
    <2>2. CASE IsOther(p)
      <3>1. Clear(p)
        BY DEF Proceeds, Held, Skipped, Clear
      <3>2. force
        BY <2>2, <3>1 DEF Proceeds, Held
      <3>3. setup.holds[q].kind # "dir"
        BY <2>1, <2>2 DEF IsOther
      <3>4. q = setup.archive
        BY <3>2, <3>3 DEF Untouchable
      <3>5. archive = disk[q]
        BY <1>1, <3>4 DEF DestInv
      <3>6. IsArchive(p)
        BY <2>1, <3>5, NoneAssumption DEF IsArchive
      <3>. QED BY <2>2, <3>1, <3>2, <3>6 DEF Proceeds, Skipped
    <2>3. CASE ~IsOther(p)
      <3>1. IsDir(p)
        BY <1>1, <2>1, <2>3 DEF IsOther, IsDir
      <3>2. Cleared(p) = disk
        BY <2>3 DEF Cleared
      <3>. QED BY <1>1, <3>1, <3>2
    <2>. QED BY <2>2, <2>3
  <1>4. CASE q # Folded(p)
    BY <1>1, <1>4 DEF Cleared, Restrict
  <1>. QED BY <1>3, <1>4

(* A file is not put where a directory is.                                  *)
LEMMA ProceedsToNoDir ==
  ASSUME NEW p, NEW force, Proceeds(p, FALSE, force)
  PROVE  ~IsDir(p)
  BY DEF Proceeds, Held, Skipped, Clear

(* A record of the run, typed; what recording a path leaves of one.         *)
MadeOK(m) ==
  /\ m.ids \subseteq Inos
  /\ \A r \in DOMAIN m.at : m.at[r].id \in m.ids
  /\ m.dirs \in [DOMAIN m.dirs -> m.ids]

LEMMA RecordedTypes ==
  ASSUME NEW m, MadeOK(m), NEW p, NEW kind, NEW data, NEW id \in Inos
  PROVE  /\ MadeOK(Recorded(m, p, kind, data, id))
         /\ Recorded(m, p, kind, data, id).dirs = m.dirs
         /\ Recorded(m, p, kind, data, id).ids = m.ids \cup {id}
  <1>. DEFINE n == Recorded(m, p, kind, data, id)
              at == Put(m.at, p, [kind |-> kind, data |-> data, id |-> id])
  <1>1. n = [at |-> at, ids |-> m.ids \cup {id}, dirs |-> m.dirs]
    BY DEF Recorded
  <1>2. \A r \in DOMAIN at : at[r].id \in m.ids \cup {id}
    <2>1. ASSUME NEW r \in DOMAIN at PROVE at[r].id \in m.ids \cup {id}
      <3>1. CASE r = p
        <4>1. at[r] = [kind |-> kind, data |-> data, id |-> id]
          BY <3>1 DEF Put
        <4>. QED BY <4>1
      <3>2. CASE r # p
        <4>1. r \in DOMAIN m.at /\ at[r] = m.at[r]
          BY <2>1, <3>2 DEF Put
        <4>. QED BY <4>1 DEF MadeOK
      <3>. QED BY <3>1, <3>2
    <2>. QED BY <2>1
  <1>. HIDE DEF at
  <1>3. n.at = at /\ n.ids = m.ids \cup {id} /\ n.dirs = m.dirs
    BY <1>1
  <1>4. m.dirs \in [DOMAIN m.dirs -> m.ids \cup {id}]
    BY DEF MadeOK
  <1>. HIDE DEF n
  <1>5. MadeOK(n)
    BY <1>2, <1>3, <1>4 DEF MadeOK
  <1>. QED BY <1>3, <1>5 DEF n

(* And adding a directory the run made.                                     *)
DirMade(m, p, kind, data, id, isNew) ==
  [Recorded(m, p, kind, data, id) EXCEPT !.dirs = IF isNew THEN Put(@, p, id) ELSE @]

LEMMA DirRecorded ==
  ASSUME NEW m, MadeOK(m), NEW p, NEW kind, NEW data, NEW id \in Inos, NEW isNew \in BOOLEAN
  PROVE  /\ MadeOK(DirMade(m, p, kind, data, id, isNew))
         /\ Range(DirMade(m, p, kind, data, id, isNew).dirs) \subseteq Range(m.dirs) \cup {id}
  <1>. DEFINE n == DirMade(m, p, kind, data, id, isNew)
              at == Put(m.at, p, [kind |-> kind, data |-> data, id |-> id])
              w == IF isNew THEN Put(m.dirs, p, id) ELSE m.dirs
              e == Recorded(m, p, kind, data, id)
  <1>1. MadeOK(e) /\ e.ids = m.ids \cup {id} /\ e = [at |-> at, ids |-> m.ids \cup {id}, dirs |-> m.dirs]
    BY RecordedTypes DEF Recorded
  <1>. HIDE DEF e, at
  <1>2. n = [at |-> at, ids |-> m.ids \cup {id}, dirs |-> w]
    BY <1>1 DEF e, DirMade
  <1>. HIDE DEF n
  <1>3. m.dirs \in [DOMAIN m.dirs -> m.ids]
    BY DEF MadeOK
  <1>4. w \in [DOMAIN w -> m.ids \cup {id}] /\ Range(w) \subseteq Range(m.dirs) \cup {id}
    BY <1>3 DEF Put, Range
  <1>. HIDE DEF w
  <1>5. n.at = e.at /\ n.ids = e.ids /\ n.dirs = w
    BY <1>1, <1>2
  <1>6. MadeOK(n) /\ Range(n.dirs) \subseteq Range(m.dirs) \cup {id}
    BY <1>1, <1>4, <1>5 DEF MadeOK
  <1>. QED BY <1>6 DEF n

(* What the verbs share of making what is at p: the disk afterwards names   *)
(* inode i there, and i holds node.                                         *)
LEMMA MakeAtKeeps ==
  ASSUME DestInv, NEW p, NEW node, NEW kind, NEW isNew \in BOOLEAN,
         \A q \in Untouchable : q \in DOMAIN Cleared(p) /\ inode[disk[q]].kind # "none"
                                  /\ q # Folded(p),
         MakeAt(p, node, kind, isNew)
  PROVE  Spares /\ DestinationTypeOK'
  <1>. DEFINE S == MissingParents(p) \cup {p}
  <1>1. PICK fresh \in Fresh(S, Cleared(p)) :
          /\ disk' = Put(PlacedDisk(p, fresh), Folded(p), fresh[p])
          /\ inode' = [PlacedInode(p, fresh) EXCEPT ![fresh[p]] = node]
          /\ made' = IF kind = "none" THEN PlacedMade(p, fresh)
                     ELSE LET m == Recorded(PlacedMade(p, fresh), p, kind,
                                            IF kind = "link" THEN node.data ELSE <<>>, fresh[p])
                          IN  [m EXCEPT !.dirs = IF isNew THEN Put(@, p, fresh[p]) ELSE @]
          /\ UNCHANGED <<setup, away, archive>>
    BY DEF MakeAt
  <1>2. DestinationTypeOK /\ MissingParents(p) \subseteq S /\ p \in S
    BY DEF DestInv
  <1>. HIDE DEF S
  <1>. DEFINE m == PlacedMade(p, fresh)
              d == PlacedDisk(p, fresh)
              n == PlacedInode(p, fresh)
  <1>3. /\ \A s \in S : fresh[s] \in Inos
        /\ d \in [DOMAIN d -> Inos] /\ DOMAIN n = Inos
        /\ MadeOK(m)
        /\ Range(m.dirs) \subseteq Range(made.dirs) \cup {fresh[s] : s \in S}
    BY <1>2, PlaceTypes DEF MadeOK
  <1>4. \A q \in Untouchable :
          /\ q \in DOMAIN d /\ d[q] = disk[q] /\ (\A s \in S : fresh[s] # disk[q])
          /\ n[disk[q]] = inode[disk[q]] /\ q # Folded(p)
    BY <1>2, PlaceSpares
  <1>5. MadeOK(made') /\ Range(made'.dirs) \subseteq Range(made.dirs) \cup {fresh[s] : s \in S}
    <2>1. CASE kind = "none"
      BY <1>1, <1>3, <2>1
    <2>2. CASE kind # "none"
      <3>. DEFINE data == IF kind = "link" THEN node.data ELSE <<>>
      <3>1. made' = DirMade(m, p, kind, data, fresh[p], isNew)
        BY <1>1, <2>2 DEF DirMade
      <3>2. fresh[p] \in Inos
        BY <1>2, <1>3
      <3>. HIDE DEF m, data
      <3>3. MadeOK(made') /\ Range(made'.dirs) \subseteq Range(m.dirs) \cup {fresh[p]}
        BY <1>3, <3>1, <3>2, DirRecorded
      <3>. QED BY <1>2, <1>3, <3>3
    <2>. QED BY <2>1, <2>2
  <1>. HIDE DEF m, d, n
  <1>6. disk' = Put(d, Folded(p), fresh[p]) /\ inode' = [n EXCEPT ![fresh[p]] = node]
    BY <1>1 DEF d, n
  <1>7. disk' \in [DOMAIN disk' -> Inos] /\ DOMAIN inode' = Inos
    BY <1>2, <1>3, <1>6 DEF Put
  <1>8. DestinationTypeOK'
    BY <1>1, <1>2, <1>5, <1>7 DEF DestinationTypeOK, MadeOK
  <1>9. ASSUME NEW q \in Untouchable
        PROVE  /\ q \in DOMAIN disk' /\ disk'[q] = disk[q] /\ inode'[disk[q]] = inode[disk[q]]
               /\ disk[q] \notin Range(made'.dirs)
    <2>1. q \in DOMAIN disk' /\ disk'[q] = disk[q]
      BY <1>4, <1>6 DEF Put
    <2>2. disk[q] \in Inos /\ disk[q] \notin Range(made.dirs)
      BY <1>2 DEF DestInv, Untouched, DestinationTypeOK, RunDirs
    <2>3. inode'[disk[q]] = inode[disk[q]]
      BY <1>2, <1>3, <1>4, <1>6, <2>2
    <2>. QED BY <1>4, <1>5, <2>1, <2>2, <2>3
  <1>. QED BY <1>1, <1>8, <1>9 DEF Spares

(* The same of a run that makes the parents and no more ...                 *)
LEMMA ParentsKeep ==
  ASSUME DestInv, NEW p, NEW fresh \in Fresh(MissingParents(p), Cleared(p)),
         \A q \in Untouchable : q \in DOMAIN Cleared(p) /\ inode[disk[q]].kind # "none",
         disk' = PlacedDisk(p, fresh), inode' = PlacedInode(p, fresh),
         made' = PlacedMade(p, fresh), UNCHANGED <<setup, away, archive>>
  PROVE  Spares /\ DestinationTypeOK'
  <1>. DEFINE S == MissingParents(p)
  <1>1. DestinationTypeOK /\ MissingParents(p) \subseteq S
    BY DEF DestInv
  <1>. HIDE DEF S
  <1>2. fresh \in Fresh(S, Cleared(p))
    BY DEF S
  <1>3. /\ \A s \in S : fresh[s] \in Inos
        /\ disk' \in [DOMAIN disk' -> Inos] /\ DOMAIN inode' = Inos
        /\ MadeOK(made')
        /\ Range(made'.dirs) \subseteq Range(made.dirs) \cup {fresh[s] : s \in S}
    BY <1>1, <1>2, PlaceTypes DEF MadeOK
  <1>4. DestinationTypeOK'
    BY <1>1, <1>3 DEF DestinationTypeOK, MadeOK
  <1>5. ASSUME NEW q \in Untouchable
        PROVE  /\ q \in DOMAIN disk' /\ disk'[q] = disk[q] /\ inode'[disk[q]] = inode[disk[q]]
               /\ disk[q] \notin Range(made'.dirs)
    <2>1. /\ q \in DOMAIN disk' /\ disk'[q] = disk[q] /\ (\A s \in S : fresh[s] # disk[q])
          /\ inode'[disk[q]] = inode[disk[q]]
      BY <1>1, <1>2, PlaceSpares
    <2>2. disk[q] \notin Range(made.dirs)
      BY DEF DestInv, Untouched, RunDirs
    <2>. QED BY <1>3, <2>1, <2>2
  <1>. QED BY <1>4, <1>5 DEF Spares

LEMMA MakeParentsKeeps ==
  ASSUME DestInv, NEW p, MakeParentsOnly(p),
         \A q \in Untouchable : q \in DOMAIN Cleared(p) /\ inode[disk[q]].kind # "none"
  PROVE  Spares /\ DestinationTypeOK'
  <1>1. PICK fresh \in Fresh(MissingParents(p), Cleared(p)) :
          /\ disk' = PlacedDisk(p, fresh) /\ inode' = PlacedInode(p, fresh)
          /\ made' = PlacedMade(p, fresh) /\ UNCHANGED <<setup, away, archive>>
    BY DEF MakeParentsOnly
  <1>. QED BY <1>1, ParentsKeep

(* ... and of one that gives p another name's inode.                        *)
LinkTo(p, t, fresh) ==
  /\ disk' = Put(PlacedDisk(p, fresh), Folded(p), Identity(t))
  /\ inode' = PlacedInode(p, fresh)
  /\ made' = Recorded(PlacedMade(p, fresh), p, "hard", <<>>, Identity(t))
  /\ UNCHANGED <<setup, away, archive>>

LEMMA LinkKeeps ==
  ASSUME DestInv, NEW p, NEW t, NEW fresh \in Fresh(MissingParents(p), Cleared(p)),
         \A q \in Untouchable : q \in DOMAIN Cleared(p) /\ inode[disk[q]].kind # "none"
                                  /\ q # Folded(p),
         Identity(t) \in Inos, LinkTo(p, t, fresh)
  PROVE  Spares /\ DestinationTypeOK'
  <1>. DEFINE S == MissingParents(p)
  <1>1. DestinationTypeOK /\ MissingParents(p) \subseteq S
    BY DEF DestInv
  <1>. HIDE DEF S
  <1>2. fresh \in Fresh(S, Cleared(p))
    BY DEF S
  <1>. DEFINE m == PlacedMade(p, fresh)
              d == PlacedDisk(p, fresh)
              n == PlacedInode(p, fresh)
  <1>3. /\ \A s \in S : fresh[s] \in Inos
        /\ d \in [DOMAIN d -> Inos] /\ DOMAIN n = Inos
        /\ MadeOK(m)
        /\ Range(m.dirs) \subseteq Range(made.dirs) \cup {fresh[s] : s \in S}
    BY <1>1, <1>2, PlaceTypes DEF MadeOK
  <1>4. \A q \in Untouchable :
          /\ q \in DOMAIN d /\ d[q] = disk[q] /\ (\A s \in S : fresh[s] # disk[q])
          /\ n[disk[q]] = inode[disk[q]]
    BY <1>1, <1>2, PlaceSpares
  <1>5. disk' = Put(d, Folded(p), Identity(t)) /\ inode' = n
        /\ made' = Recorded(m, p, "hard", <<>>, Identity(t)) /\ UNCHANGED <<setup, away, archive>>
    BY DEF LinkTo
  <1>. HIDE DEF m, d, n
  <1>6. MadeOK(made') /\ made'.dirs = m.dirs
    BY <1>3, <1>5, RecordedTypes
  <1>7. disk' \in [DOMAIN disk' -> Inos] /\ DOMAIN inode' = Inos
    BY <1>3, <1>5 DEF Put
  <1>8. DestinationTypeOK'
    BY <1>1, <1>5, <1>6, <1>7 DEF DestinationTypeOK, MadeOK
  <1>9. ASSUME NEW q \in Untouchable
        PROVE  /\ q \in DOMAIN disk' /\ disk'[q] = disk[q] /\ inode'[disk[q]] = inode[disk[q]]
               /\ disk[q] \notin Range(made'.dirs)
    <2>1. q \in DOMAIN disk' /\ disk'[q] = disk[q] /\ inode'[disk[q]] = inode[disk[q]]
      BY <1>4, <1>5 DEF Put
    <2>2. disk[q] \notin Range(made.dirs)
      BY DEF DestInv, Untouched, RunDirs
    <2>. QED BY <1>3, <1>4, <1>6, <2>1, <2>2
  <1>. QED BY <1>5, <1>8, <1>9 DEF Spares

LEMMA UnchangedKeeps ==
  ASSUME DestInv, UNCHANGED destination
  PROVE  Spares /\ DestinationTypeOK'
  <1>1. UNCHANGED <<setup, disk, inode, away, archive, made>>
    BY DEF destination
  <1>2. DestinationTypeOK'
    BY <1>1 DEF DestInv, DestinationTypeOK
  <1>. QED BY <1>1, <1>2 DEF DestInv, Spares, Untouched, RunDirs

(* A directory recorded again is typed still.                               *)
LEMMA RecordKeeps ==
  ASSUME DestInv, NEW p, NEW kind, NEW data, Identity(p) \in Inos,
         made' = Recorded(made, p, kind, data, Identity(p)),
         UNCHANGED <<setup, disk, inode, away, archive>>
  PROVE  Spares /\ DestinationTypeOK'
  <1>1. DestinationTypeOK /\ MadeOK(made)
    BY DEF DestInv, DestinationTypeOK, MadeOK
  <1>2. MadeOK(made') /\ made'.dirs = made.dirs
    BY <1>1, RecordedTypes
  <1>3. DestinationTypeOK'
    BY <1>1, <1>2 DEF DestinationTypeOK, MadeOK
  <1>. QED BY <1>2, <1>3 DEF DestInv, Spares, Untouched, RunDirs

-------------------------------------------------------------------------------
(* unpack: an entry.                                                        *)

(* place proceeded to p: no name of what may not be touched goes, and p is  *)
(* none of them, unless it is one of their directories.                     *)
Apart(p) ==
  \A q \in Untouchable : /\ q \in DOMAIN Cleared(p) /\ inode[disk[q]].kind # "none"
                         /\ q = Folded(p) => IsDir(p)

LEMMA ProceedsApart ==
  ASSUME DestInv, setup.verb = "unpack", NEW p, NEW placingDir \in BOOLEAN,
         Proceeds(p, placingDir, Forced)
  PROVE  Apart(p)
  <1>1. Forced \in BOOLEAN /\ (Forced => setup.verb = "unpack" /\ setup.force)
    BY SetupsType DEF DestInv, Forced
  <1>. QED BY <1>1, ProceedsSpares DEF Apart

(* What an entry leaves of the run's own state, unless its directory's      *)
(* metadata is deferred.                                                    *)
EntryFrame ==
  /\ phase' \in {phase, "failed"} /\ warned' \in {warned, warned \cup {read'}}
  /\ lost' = lost /\ deferred' = deferred

Outcome == Spares /\ DestinationTypeOK' /\ EntryFrame

LEMMA NothingDone ==
  ASSUME DestInv, UNCHANGED destination, (Fail /\ UNCHANGED extraction) \/ Warn
  PROVE  Outcome
  BY UnchangedKeeps DEF Outcome, EntryFrame, Fail, Warn, extraction

LEMMA DeclinedOutcome ==
  ASSUME DestInv, NEW p, NEW placingDir, Declined(p, placingDir)
  PROVE  Outcome
  BY NothingDone DEF Declined

LEMMA RefusedOutcome ==
  ASSUME DestInv, NEW p, Apart(p), RefusedName(p)
  PROVE  Outcome
  <1>1. Spares /\ DestinationTypeOK'
    BY MakeParentsKeeps DEF RefusedName, Apart
  <1>. QED BY <1>1 DEF Outcome, EntryFrame, RefusedName, Warn

LEMMA FailsOutcome ==
  ASSUME DestInv, NEW p, Apart(p), CreateFails(p)
  PROVE  Outcome
  <1>1. Spares /\ DestinationTypeOK'
    BY MakeParentsKeeps DEF CreateFails, Apart
  <1>. QED BY <1>1 DEF Outcome, EntryFrame, CreateFails, Fail, extraction

LEMMA MadeOutcome ==
  ASSUME DestInv, NEW p, NEW node, NEW kind, NEW isNew \in BOOLEAN, Apart(p), ~IsDir(p),
         MakeAt(p, node, kind, isNew), EntryFrame
  PROVE  Outcome
  <1>1. \A q \in Untouchable : q \in DOMAIN Cleared(p) /\ inode[disk[q]].kind # "none"
                                 /\ q # Folded(p)
    BY DEF Apart
  <1>2. Spares /\ DestinationTypeOK'
    BY <1>1, MakeAtKeeps
  <1>. QED BY <1>2 DEF Outcome

LEMMA FileOutcome ==
  ASSUME DestInv, setup.verb = "unpack", NEW e, FileEntry(e)
  PROVE  Outcome
  <1>. DEFINE p == PathOf[e.name]
  <1>1. CASE Declined(p, FALSE)
    BY <1>1, DeclinedOutcome
  <1>2. CASE Proceeds(p, FALSE, Forced)
    <2>1. Apart(p) /\ ~IsDir(p)
      BY <1>2, ProceedsApart, ProceedsToNoDir
    <2>2. CASE RefusedName(p)
      BY <2>1, <2>2, RefusedOutcome
    <2>3. CASE CreateFails(p)
      BY <2>1, <2>3, FailsOutcome
    <2>4. CASE /\ MakeAt(p, [kind |-> "file", data |-> <<"cut">>], "none", FALSE)
               /\ Fail /\ UNCHANGED extraction
      <3>1. EntryFrame
        BY <2>4 DEF EntryFrame, Fail, extraction
      <3>. QED BY <2>1, <2>4, <3>1, MadeOutcome
    <2>5. CASE /\ MakeAt(p, [kind |-> "file", data |-> Payloads[read']], "file", FALSE)
               /\ UNCHANGED <<phase, warned, deferred, lost>>
      <3>1. EntryFrame
        BY <2>5 DEF EntryFrame
      <3>. QED BY <2>1, <2>5, <3>1, MadeOutcome
    <2>. QED BY <1>2, <2>2, <2>3, <2>4, <2>5, DeclinedOutcome DEF FileEntry
  <1>. QED BY <1>1, <1>2 DEF FileEntry

LEMMA SymlinkOutcome ==
  ASSUME DestInv, setup.verb = "unpack", NEW e, NEW p, NEW text, PlaceSymlink(e, p, text)
  PROVE  Outcome
  <1>1. CASE Escapes(p, text) /\ Fail /\ UNCHANGED <<destination, extraction>>
    BY <1>1, NothingDone
  <1>2. CASE Warn /\ UNCHANGED destination
    BY <1>2, NothingDone
  <1>3. CASE Declined(p, FALSE)
    BY <1>3, DeclinedOutcome
  <1>4. CASE Proceeds(p, FALSE, Forced)
    <2>1. Apart(p) /\ ~IsDir(p)
      BY <1>4, ProceedsApart, ProceedsToNoDir
    <2>2. CASE RefusedName(p)
      BY <2>1, <2>2, RefusedOutcome
    <2>3. CASE CreateFails(p)
      BY <2>1, <2>3, FailsOutcome
    <2>4. CASE /\ MakeAt(p, [kind |-> "link", data |-> text], "link", FALSE)
               /\ UNCHANGED <<phase, warned, deferred, lost>>
      <3>1. EntryFrame
        BY <2>4 DEF EntryFrame
      <3>. QED BY <2>1, <2>4, <3>1, MadeOutcome
    <2>. QED BY <1>1, <1>2, <1>3, <2>2, <2>3, <2>4 DEF PlaceSymlink
  <1>. QED BY <1>1, <1>2, <1>3, <1>4 DEF PlaceSymlink

LEMMA LinkOrCopyOutcome ==
  ASSUME DestInv, setup.verb = "unpack", NEW e, NEW p, NEW t, LinkOrCopy(e, p, t)
  PROVE  Outcome
  <1>1. CASE Fail /\ UNCHANGED <<destination, extraction>>
    BY <1>1, NothingDone
  <1>2. CASE Warn /\ UNCHANGED destination
    BY <1>2, NothingDone
  <1>3. CASE Declined(p, FALSE)
    BY <1>3, DeclinedOutcome
  <1>4. CASE There(t).kind = "file" /\ Proceeds(p, FALSE, Forced)
    <2>1. Apart(p) /\ ~IsDir(p)
      BY <1>4, ProceedsApart, ProceedsToNoDir
    <2>2. CASE RefusedName(p)
      BY <2>1, <2>2, RefusedOutcome
    <2>3. CASE /\ \E fresh \in Fresh(MissingParents(p), Cleared(p)) : LinkTo(p, t, fresh)
               /\ UNCHANGED <<phase, warned, deferred, lost>>
      <3>1. PICK fresh \in Fresh(MissingParents(p), Cleared(p)) : LinkTo(p, t, fresh)
        BY <2>3
      <3>2. Identity(t) \in Inos
        BY <1>4, ThereSomething DEF DestInv
      <3>3. \A q \in Untouchable : q \in DOMAIN Cleared(p) /\ inode[disk[q]].kind # "none"
                                     /\ q # Folded(p)
        BY <2>1 DEF Apart
      <3>4. Spares /\ DestinationTypeOK'
        BY <3>1, <3>2, <3>3, LinkKeeps
      <3>. QED BY <2>3, <3>4 DEF Outcome, EntryFrame
    <2>4. CASE MakeAt(p, There(t), "hard", FALSE) /\ UNCHANGED <<phase, warned, deferred, lost>>
      <3>1. EntryFrame
        BY <2>4 DEF EntryFrame
      <3>. QED BY <2>1, <2>4, <3>1, MadeOutcome
    <2>5. CASE MakeParentsOnly(p) /\ Warn
      <3>1. Spares /\ DestinationTypeOK'
        BY <2>1, <2>5, MakeParentsKeeps DEF Apart
      <3>. QED BY <2>5, <3>1 DEF Outcome, EntryFrame, Warn
    <2>6. CASE CreateFails(p)
      BY <2>1, <2>6, FailsOutcome
    <2>7. CASE /\ MakeAt(p, [kind |-> "file", data |-> <<"cut">>], "none", FALSE)
               /\ Fail /\ UNCHANGED extraction
      <3>1. EntryFrame
        BY <2>7 DEF EntryFrame, Fail, extraction
      <3>. QED BY <2>1, <2>7, <3>1, MadeOutcome
    <2>. QED BY <1>1, <1>2, <1>3, <2>2, <2>3, <2>4, <2>5, <2>6, <2>7 DEF LinkOrCopy, LinkTo
  <1>. QED BY <1>1, <1>2, <1>3, <1>4 DEF LinkOrCopy

LEMMA HardLinkOutcome ==
  ASSUME DestInv, setup.verb = "unpack", NEW e, HardLinkEntry(e)
  PROVE  Outcome
  <1>. DEFINE p == PathOf[e.name]
              t == PathOf[e.to]
  <1>1. CASE Fail /\ UNCHANGED <<destination, extraction>>
    BY <1>1, NothingDone
  <1>2. CASE Warn /\ UNCHANGED destination
    BY <1>2, NothingDone
  <1>3. CASE AlreadyLinked(e, p, t) /\ OneInode(t, p)
    <2>1. CASE UNCHANGED destination /\ Warn
      BY <2>1, NothingDone
    <2>2. CASE /\ made' = Recorded(made, p, IF made.at[t].kind = "link" THEN "link" ELSE "hard",
                                   made.at[t].data, Identity(p))
               /\ UNCHANGED <<setup, disk, inode, away, archive, phase, warned, deferred, lost>>
      <3>1. Identity(p) \in Inos
        <4>1. Folded(p) \in DOMAIN disk
          BY <1>3 DEF OneInode, Identity
        <4>. QED BY <4>1, ThereAt DEF DestInv
      <3>2. Spares /\ DestinationTypeOK'
        BY <2>2, <3>1, RecordKeeps
      <3>. QED BY <2>2, <3>2 DEF Outcome, EntryFrame
    <2>. QED BY <1>3, <2>1, <2>2 DEF AlreadyLinked
  <1>4. CASE PlaceSymlink(e, p, made.at[t].data)
    BY <1>4, SymlinkOutcome
  <1>5. CASE LinkOrCopy(e, p, t)
    BY <1>5, LinkOrCopyOutcome
  <1>. QED BY <1>1, <1>2, <1>3, <1>4, <1>5 DEF HardLinkEntry, HardLinkTo

(* What the run keeps of itself.                                            *)
DeferredDir ==
  [path : {PathOf[e.name] : e \in Entries}, mode : {e.says : e \in Entries},
   id : Inos, entry : 1 .. MaxEntries]

ExtractTypes ==
  /\ phase \in {"entries", "dirs", "failed"} /\ read \in 0 .. MaxEntries
  /\ warned \subseteq 1 .. MaxEntries /\ lost \subseteq 1 .. MaxEntries
  /\ deferred \in Seq(DeferredDir)

UnpackInv == DestInv /\ ExtractTypes

(* Whose metadata is deferred afterwards: whose was, or what the run made.  *)
DefersMade ==
  {deferred'[k].id : k \in DOMAIN deferred'}
    \subseteq {deferred[k].id : k \in DOMAIN deferred} \cup Range(made'.dirs)

LEMMA OutcomeKeeps ==
  ASSUME UnpackInv, NEW e \in Entries, Reading(e), Outcome
  PROVE  UnpackInv' /\ setup' = setup
  <1>1. read' = read + 1 /\ read' \in 0 .. MaxEntries /\ read' \in 1 .. MaxEntries
    BY EntriesBound DEF UnpackInv, ExtractTypes, Reading
  <1>2. ExtractTypes'
    BY <1>1 DEF UnpackInv, ExtractTypes, Outcome, EntryFrame
  <1>3. DestInv'
    BY SpareKeeps DEF UnpackInv, Outcome, EntryFrame
  <1>. QED BY <1>2, <1>3 DEF UnpackInv, Outcome, Spares

LEMMA DirKeeps ==
  ASSUME UnpackInv, setup.verb = "unpack", NEW e \in Entries, DirEntry(e)
  PROVE  UnpackInv' /\ setup' = setup
  <1>. DEFINE p == PathOf[e.name]
  <1>0. DestInv /\ Reading(e)
    BY DEF UnpackInv, DirEntry
  <1>1. CASE Declined(p, TRUE)
    BY <1>0, <1>1, DeclinedOutcome, OutcomeKeeps
  <1>2. CASE Proceeds(p, TRUE, Forced)
    <2>1. Apart(p)
      BY <1>0, <1>2, ProceedsApart
    <2>2. CASE RefusedName(p)
      BY <1>0, <2>1, <2>2, RefusedOutcome, OutcomeKeeps
    <2>3. CASE CreateFails(p)
      BY <1>0, <2>1, <2>3, FailsOutcome, OutcomeKeeps
    <2>4. CASE /\ IF IsDir(p)
                  THEN /\ made' = Recorded(made, p, "dir", <<>>, Identity(p))
                       /\ UNCHANGED <<setup, disk, inode, away, archive>>
                  ELSE MakeAt(p, FreshDir, "dir", TRUE)
               /\ Deferring(e, p) /\ UNCHANGED <<phase, warned, lost>>
      <3>1. Spares /\ DestinationTypeOK'
        <4>1. CASE IsDir(p)
          <5>1. Identity(p) \in Inos
            BY <1>0, <4>1, ThereSomething DEF IsDir, DestInv
          <5>. QED BY <1>0, <2>4, <4>1, <5>1, RecordKeeps
        <4>2. CASE ~IsDir(p)
          <5>1. \A q \in Untouchable : q \in DOMAIN Cleared(p) /\ inode[disk[q]].kind # "none"
                                         /\ q # Folded(p)
            BY <2>1, <4>2 DEF Apart
          <5>. QED BY <1>0, <2>4, <4>2, <5>1, MakeAtKeeps
        <4>. QED BY <4>1, <4>2
      <3>2. read' = read + 1 /\ read' \in 0 .. MaxEntries /\ read' \in 1 .. MaxEntries
        BY <1>0, EntriesBound DEF UnpackInv, ExtractTypes, Reading
      <3>3. deferred' \in Seq(DeferredDir) /\ DefersMade
        <4>1. deferred \in Seq(DeferredDir)
          BY DEF UnpackInv, ExtractTypes
        <4>2. CASE p \in DOMAIN made'.dirs
          <5>. DEFINE d == [path |-> p, mode |-> e.says, id |-> made'.dirs[p], entry |-> read']
          <5>1. made'.dirs[p] \in Inos /\ made'.dirs[p] \in Range(made'.dirs)
            BY <3>1, <4>2 DEF DestinationTypeOK, Range
          <5>2. d \in DeferredDir /\ d.id = made'.dirs[p]
            BY <3>2, <5>1 DEF DeferredDir
          <5>3. deferred' = Append(deferred, d)
            BY <2>4, <4>2 DEF Deferring
          <5>. HIDE DEF d
          <5>4. deferred' \in Seq(DeferredDir)
            BY <4>1, <5>2, <5>3
          <5>5. \A k \in DOMAIN deferred' :
                  deferred'[k] = d \/ (k \in DOMAIN deferred /\ deferred'[k] = deferred[k])
            BY <4>1, <5>2, <5>3
          <5>. QED BY <5>1, <5>2, <5>4, <5>5 DEF DefersMade
        <4>3. CASE p \notin DOMAIN made'.dirs
          BY <2>4, <4>1, <4>3 DEF Deferring, DefersMade
        <4>. QED BY <4>2, <4>3
      <3>4. ExtractTypes'
        BY <2>4, <3>2, <3>3 DEF UnpackInv, ExtractTypes
      <3>. QED BY <1>0, <3>1, <3>3, <3>4, SpareKeeps DEF UnpackInv, Spares, DefersMade
    <2>. QED BY <1>2, <2>2, <2>3, <2>4, <1>1 DEF DirEntry
  <1>. QED BY <1>1, <1>2 DEF DirEntry

LEMMA EntryKeeps ==
  ASSUME UnpackInv, setup.verb = "unpack", NEW e \in Entries,
         \/ Uncontained(e) \/ DestinationEntry(e) \/ DirEntry(e)
         \/ FileEntry(e) \/ SymlinkEntry(e) \/ HardLinkEntry(e) \/ SpecialEntry(e)
  PROVE  UnpackInv' /\ setup' = setup
  <1>0. DestInv
    BY DEF UnpackInv
  <1>1. CASE Uncontained(e)
    <2>1. Outcome
      BY <1>0, <1>1, NothingDone DEF Uncontained
    <2>. QED BY <1>1, <2>1, OutcomeKeeps DEF Uncontained
  <1>2. CASE DestinationEntry(e)
    <2>1. Outcome
      BY <1>0, <1>2, UnchangedKeeps DEF DestinationEntry, Outcome, EntryFrame
    <2>. QED BY <1>2, <2>1, OutcomeKeeps DEF DestinationEntry
  <1>3. CASE FileEntry(e)
    BY <1>0, <1>3, FileOutcome, OutcomeKeeps DEF FileEntry
  <1>4. CASE SymlinkEntry(e)
    BY <1>0, <1>4, SymlinkOutcome, OutcomeKeeps DEF SymlinkEntry
  <1>5. CASE HardLinkEntry(e)
    BY <1>0, <1>5, HardLinkOutcome, OutcomeKeeps DEF HardLinkEntry
  <1>6. CASE SpecialEntry(e)
    <2>1. Outcome
      BY <1>0, <1>6, NothingDone DEF SpecialEntry
    <2>. QED BY <1>6, <2>1, OutcomeKeeps DEF SpecialEntry
  <1>7. CASE DirEntry(e)
    BY <1>7, DirKeeps
  <1>. QED BY <1>1, <1>2, <1>3, <1>4, <1>5, <1>6, <1>7

-------------------------------------------------------------------------------
(* unpack: the end of the archive, the deferred metadata, another program.  *)

LEMMA EndKeeps ==
  ASSUME UnpackInv, ArchiveFails \/ EndOfArchive
  PROVE  UnpackInv' /\ setup' = setup
  <1>1. DestInv /\ deferred \in Seq(DeferredDir) /\ UNCHANGED destination
    BY DEF UnpackInv, ExtractTypes, ArchiveFails, EndOfArchive
  <1>2. Spares /\ DestinationTypeOK'
    BY <1>1, UnchangedKeeps
  <1>3. CASE ArchiveFails
    <2>1. ExtractTypes'
      BY <1>3 DEF UnpackInv, ExtractTypes, ArchiveFails, Fail, extraction
    <2>2. deferred' = deferred
      BY <1>3 DEF ArchiveFails, extraction
    <2>. QED BY <1>1, <1>2, <2>1, <2>2, SpareKeeps DEF UnpackInv, Spares
  <1>4. CASE EndOfArchive
    <2>1. PICK f \in [DOMAIN deferred -> DOMAIN deferred] :
            deferred' = [k \in DOMAIN deferred |-> deferred[f[k]]]
      BY <1>4 DEF EndOfArchive, DeepestFirst
    <2>2. \A k \in DOMAIN deferred' : deferred'[k] = deferred[f[k]] /\ f[k] \in DOMAIN deferred
      BY <2>1
    <2>3. deferred' \in Seq(DeferredDir)
      <3>1. Len(deferred) \in Nat /\ DOMAIN deferred = 1 .. Len(deferred)
            /\ \A k \in DOMAIN deferred : deferred[k] \in DeferredDir
        BY <1>1
      <3>2. deferred' \in [1 .. Len(deferred) -> DeferredDir]
        BY <2>1, <2>2, <3>1
      <3>. QED BY <3>1, <3>2
    <2>4. ExtractTypes'
      BY <1>4, <2>3 DEF UnpackInv, ExtractTypes, EndOfArchive
    <2>5. DefersMade
      BY <2>2 DEF DefersMade
    <2>. QED BY <1>1, <1>2, <2>4, <2>5, SpareKeeps DEF UnpackInv, Spares, DefersMade
  <1>. QED BY <1>3, <1>4

LEMMA MetadataKeeps ==
  ASSUME UnpackInv, ApplyDirMetadata
  PROVE  UnpackInv' /\ setup' = setup
  <1>. DEFINE d == Head(deferred)
  <1>1. DestInv /\ deferred \in Seq(DeferredDir) /\ deferred # <<>> /\ deferred' = Tail(deferred)
        /\ UNCHANGED <<setup, disk, away, archive, made, phase, read, entry, warned, names>>
    BY DEF UnpackInv, ExtractTypes, ApplyDirMetadata
  <1>2. /\ d \in DeferredDir /\ d = deferred[1] /\ 1 \in DOMAIN deferred
        /\ deferred' \in Seq(DeferredDir)
        /\ \A k \in DOMAIN deferred' : k + 1 \in DOMAIN deferred /\ deferred'[k] = deferred[k + 1]
    BY <1>1
  <1>3. d.entry \in 1 .. MaxEntries /\ d.id \in RunDirs
    BY <1>2 DEF DeferredDir, RunDirs
  <1>. HIDE DEF d
  <1>4. \/ /\ inode' = [inode EXCEPT ![d.id].data = d.mode]
           /\ UNCHANGED lost
        \/ lost' = lost \cup {d.entry} /\ UNCHANGED inode
    BY DEF ApplyDirMetadata, Opens, d
  <1>5. ExtractTypes'
    BY <1>1, <1>2, <1>3, <1>4 DEF UnpackInv, ExtractTypes
  <1>6. DestinationTypeOK'
    BY <1>1, <1>4 DEF DestInv, DestinationTypeOK
  <1>7. ASSUME NEW q \in Untouchable
        PROVE  /\ q \in DOMAIN disk' /\ disk'[q] = disk[q] /\ inode'[disk[q]] = inode[disk[q]]
               /\ disk[q] \notin Range(made'.dirs)
    <2>1. q \in DOMAIN disk /\ disk[q] \notin RunDirs /\ disk[q] \notin Range(made.dirs)
      BY <1>1 DEF DestInv, Untouched, RunDirs
    <2>2. inode'[disk[q]] = inode[disk[q]]
      <3>1. disk[q] # d.id /\ DOMAIN inode = Inos /\ disk[q] \in Inos
        BY <1>1, <1>3, <2>1 DEF DestInv, DestinationTypeOK
      <3>. QED BY <1>4, <3>1
    <2>. QED BY <1>1, <2>1, <2>2
  <1>8. DefersMade
    BY <1>2 DEF DefersMade
  <1>9. Spares
    BY <1>1, <1>7 DEF Spares
  <1>. QED BY <1>1, <1>5, <1>6, <1>8, <1>9, SpareKeeps DEF UnpackInv, Spares, DefersMade

LEMMA SwapKeeps ==
  ASSUME UnpackInv, OtherSwaps
  PROVE  UnpackInv' /\ setup' = setup
  <1>1. PICK w \in DOMAIN disk, i \in Free(disk),
             node \in {[kind |-> "dir", data |-> <<"theirs">>],
                       [kind |-> "link", data |-> <<"theirs">>]} :
          /\ IsDir(w) /\ disk[w] \in Range(made.dirs)
          /\ away' = {disk[r] : r \in Below(w)}
          /\ disk' = Put(Restrict(disk, DOMAIN disk \ Below(w)), w, i)
          /\ inode' = [inode EXCEPT ![i] = node]
    BY DEF OtherSwaps
  <1>2. DestInv /\ UNCHANGED <<setup, archive, made, phase, read, entry, extraction>>
    BY DEF UnpackInv, OtherSwaps
  <1>3. i \in Inos /\ i \notin Range(disk) /\ disk \in [DOMAIN disk -> Inos]
    BY <1>2 DEF Free, DestInv, DestinationTypeOK
  <1>4. DestinationTypeOK'
    <2>1. disk' \in [DOMAIN disk' -> Inos]
      BY <1>1, <1>3 DEF Put, Restrict
    <2>2. away' \subseteq Inos
      BY <1>1, <1>3 DEF Below
    <2>. QED BY <1>1, <1>2, <1>3, <2>1, <2>2 DEF DestInv, DestinationTypeOK
  <1>5. ASSUME NEW q \in Untouchable
        PROVE  /\ q \in DOMAIN disk' /\ disk'[q] = disk[q] /\ inode'[disk[q]] = inode[disk[q]]
               /\ disk[q] \notin Range(made'.dirs)
    <2>1. q \in DOMAIN setup.holds /\ q \in DOMAIN disk /\ disk[q] \notin Range(made.dirs)
      BY <1>2 DEF DestInv, Untouched, RunDirs, Untouchable
    <2>2. w \notin Parents(q)
      <3>1. SUFFICES ASSUME w \in Parents(q) PROVE FALSE
        OBVIOUS
      <3>2. w \in DOMAIN setup.holds /\ setup.holds[w].kind = "dir"
        BY <1>2, <2>1, <3>1, SetupsType DEF DestInv
      <3>3. disk[w] \notin Range(made.dirs)
        BY <1>2, <3>2 DEF DestInv, Untouched, RunDirs, Untouchable
      <3>. QED BY <1>1, <3>3
    <2>3. q \notin Below(w) /\ q # w
      BY <1>1, <2>1, <2>2 DEF Below
    <2>4. q \in DOMAIN disk' /\ disk'[q] = disk[q]
      BY <1>1, <2>1, <2>3 DEF Put, Restrict
    <2>5. disk[q] # i
      BY <1>3, <2>1 DEF Range
    <2>6. inode'[disk[q]] = inode[disk[q]]
      BY <1>1, <2>5, <1>2, <1>3, <2>1 DEF DestInv, DestinationTypeOK
    <2>. QED BY <1>2, <2>1, <2>4, <2>6
  <1>6. Spares
    BY <1>2, <1>5 DEF Spares
  <1>7. ExtractTypes' /\ DefersMade
    BY <1>2 DEF UnpackInv, ExtractTypes, extraction, DefersMade
  <1>. QED BY <1>2, <1>4, <1>6, <1>7, SpareKeeps DEF UnpackInv, Spares, DefersMade

LEMMA UnpackKeeps ==
  ASSUME UnpackInv, setup.verb = "unpack", ExtractNext
  PROVE  UnpackInv' /\ setup' = setup
  BY EntryKeeps, EndKeeps, MetadataKeeps, SwapKeeps DEF ExtractNext

(* The destination as it is found.                                          *)
LEMMA FoundInv ==
  ASSUME FoundDestination, deferred = <<>>
  PROVE  DestInv
  <1>1. /\ setup \in Setups /\ away = {} /\ disk \in Fresh(DOMAIN setup.holds, <<>>)
        /\ made = [at |-> <<>>, ids |-> {}, dirs |-> <<>>]
        /\ inode = [i \in Inos |-> IF i \in Range(disk)
                                   THEN setup.holds[CHOOSE q \in DOMAIN disk : disk[q] = i]
                                   ELSE Nothing]
        /\ archive = IF setup.archive \in DOMAIN setup.holds THEN disk[setup.archive] ELSE None
    BY DEF FoundDestination
  <1>2. /\ DOMAIN disk = DOMAIN setup.holds /\ disk \in [DOMAIN disk -> Inos]
        /\ \A q, r \in DOMAIN disk : q # r => disk[q] # disk[r]
    BY <1>1 DEF Fresh, Free
  <1>3. DOMAIN <<>> = {} /\ <<>> \in [DOMAIN <<>> -> {}]
    OBVIOUS
  <1>4. made.ids = {} /\ DOMAIN made.at = {} /\ made.dirs = <<>>
    BY <1>1, <1>3
  <1>5. DestinationTypeOK
    BY <1>1, <1>2, <1>3, <1>4 DEF DestinationTypeOK
  <1>6. Range(made.dirs) = {} /\ {deferred[k].id : k \in DOMAIN deferred} = {}
    BY <1>3, <1>4 DEF Range
  <1>7. ASSUME NEW q \in DOMAIN setup.holds PROVE inode[disk[q]] = setup.holds[q]
    <2>1. disk[q] \in Inos /\ disk[q] \in Range(disk)
      BY <1>2 DEF Range
    <2>2. (CHOOSE r \in DOMAIN disk : disk[r] = disk[q]) = q
      BY <1>2
    <2>. QED BY <1>1, <2>1, <2>2
  <1>8. Untouched
    BY <1>2, <1>6, <1>7 DEF Untouched, Untouchable, RunDirs
  <1>. QED BY <1>1, <1>2, <1>5, <1>8 DEF DestInv

-------------------------------------------------------------------------------
(* salvage: what is on disk stays, whatever lands beside it.                *)

(* Whatever the disk holds is a directory, a file or a symlink.             *)
KindsOK == \A q \in DOMAIN disk : inode[disk[q]].kind \in {"dir", "file", "link"}

(* A step of salvage: nothing on disk changes, and an inode that is there   *)
(* already becomes the run's own only as a directory.                       *)
Grown ==
  /\ setup' = setup /\ archive' = archive
  /\ \A q \in DOMAIN disk :
       /\ q \in DOMAIN disk' /\ disk'[q] = disk[q] /\ inode'[disk[q]] = inode[disk[q]]
       /\ disk[q] \in Range(made'.dirs) => disk[q] \in Range(made.dirs)
       /\ disk[q] \in made'.ids => disk[q] \in made.ids \/ inode[disk[q]].kind = "dir"
  /\ KindsOK' /\ DestinationTypeOK'

(* What is new on disk is a directory, but for the names of one inode.      *)
NewDirs(i) ==
  \A q \in DOMAIN disk' : q \in DOMAIN disk \/ inode'[disk'[q]].kind = "dir" \/ disk'[q] = i

LEMMA GrownSpares ==
  ASSUME DestInv, Grown
  PROVE  Spares
  BY DEF DestInv, Grown, Spares, Untouched, RunDirs

(* place, when it proceeds without force, removes nothing.                  *)
LEMMA NotForced ==
  ASSUME NEW p, NEW placingDir, Proceeds(p, placingDir, FALSE)
  PROVE  ~IsOther(p) /\ Cleared(p) = disk
  <1>1. ~IsOther(p)
    BY DEF Proceeds, Held, Skipped, Clear
  <1>. QED BY <1>1 DEF Cleared

LEMMA NothingThere ==
  ASSUME DestinationTypeOK, KindsOK, NEW p, ~IsOther(p), ~IsDir(p)
  PROVE  Folded(p) \notin DOMAIN disk
  BY ThereAt DEF KindsOK, IsOther, IsDir

(* The parents place makes.                                                 *)
LEMMA PlaceGrows ==
  ASSUME DestInv, KindsOK, NEW p, Cleared(p) = disk,
         NEW S, MissingParents(p) \subseteq S, NEW fresh \in Fresh(S, disk)
  PROVE  /\ \A s \in S : fresh[s] \in Inos
         /\ \A r, s \in S : r # s => fresh[r] # fresh[s]
         /\ \A q \in DOMAIN disk :
              /\ q \in DOMAIN PlacedDisk(p, fresh) /\ PlacedDisk(p, fresh)[q] = disk[q]
              /\ PlacedInode(p, fresh)[disk[q]] = inode[disk[q]]
              /\ \A s \in S : fresh[s] # disk[q]
         /\ \A q \in DOMAIN PlacedDisk(p, fresh) :
              \/ q \in DOMAIN disk
              \/ \E r \in MissingParents(p) : PlacedDisk(p, fresh)[q] = fresh[r]
         /\ \A r \in MissingParents(p) : PlacedInode(p, fresh)[fresh[r]] = FreshDir
         /\ PlacedDisk(p, fresh) \in [DOMAIN PlacedDisk(p, fresh) -> Inos]
         /\ DOMAIN PlacedInode(p, fresh) = Inos
         /\ MadeOK(PlacedMade(p, fresh))
         /\ PlacedMade(p, fresh).ids \subseteq made.ids \cup {fresh[s] : s \in S}
         /\ Range(PlacedMade(p, fresh).dirs) \subseteq Range(made.dirs) \cup {fresh[s] : s \in S}
  <1>1. DestinationTypeOK /\ fresh \in Fresh(S, Cleared(p))
    BY DEF DestInv
  <1>2. /\ \A s \in S : fresh[s] \in Inos
        /\ PlacedDisk(p, fresh) \in [DOMAIN PlacedDisk(p, fresh) -> Inos]
        /\ DOMAIN PlacedInode(p, fresh) = Inos
        /\ MadeOK(PlacedMade(p, fresh))
        /\ Range(PlacedMade(p, fresh).dirs) \subseteq Range(made.dirs) \cup {fresh[s] : s \in S}
    BY <1>1, PlaceTypes DEF MadeOK
  <1>3. \A q \in DOMAIN disk :
          /\ q \in DOMAIN PlacedDisk(p, fresh) /\ PlacedDisk(p, fresh)[q] = disk[q]
          /\ PlacedInode(p, fresh)[disk[q]] = inode[disk[q]]
          /\ \A s \in S : fresh[s] # disk[q]
    <2>1. ASSUME NEW q \in DOMAIN disk
          PROVE  /\ q \in DOMAIN PlacedDisk(p, fresh) /\ PlacedDisk(p, fresh)[q] = disk[q]
                 /\ PlacedInode(p, fresh)[disk[q]] = inode[disk[q]]
                 /\ \A s \in S : fresh[s] # disk[q]
      <3>1. q \in DOMAIN Cleared(p) /\ inode[disk[q]].kind # "none"
        BY DEF KindsOK
      <3>. QED BY <1>1, <3>1, PlaceSpares
    <2>. QED BY <2>1
  <1>4. \A q \in DOMAIN PlacedDisk(p, fresh) :
          \/ q \in DOMAIN disk
          \/ \E r \in MissingParents(p) : PlacedDisk(p, fresh)[q] = fresh[r]
    <2>. DEFINE new == {Folded(q) : q \in MissingParents(p)}
    <2>1. ASSUME NEW q \in DOMAIN PlacedDisk(p, fresh), q \notin DOMAIN disk
          PROVE  \E r \in MissingParents(p) : PlacedDisk(p, fresh)[q] = fresh[r]
      <3>1. q \in new
        BY <2>1 DEF PlacedDisk, Over
      <3>2. PlacedDisk(p, fresh)[q] = fresh[CHOOSE r \in MissingParents(p) : Folded(r) = q]
        BY <3>1 DEF PlacedDisk, Over
      <3>3. (CHOOSE r \in MissingParents(p) : Folded(r) = q) \in MissingParents(p)
        BY <3>1
      <3>. QED BY <3>2, <3>3
    <2>. QED BY <2>1
  <1>5. \A r \in MissingParents(p) : PlacedInode(p, fresh)[fresh[r]] = FreshDir
    BY <1>2 DEF PlacedInode
  <1>6. PlacedMade(p, fresh).ids \subseteq made.ids \cup {fresh[s] : s \in S}
    BY DEF PlacedMade
  <1>7. \A r, s \in S : r # s => fresh[r] # fresh[s]
    BY DEF Fresh
  <1>. QED BY <1>2, <1>3, <1>4, <1>5, <1>6, <1>7

LEMMA OpenFailsGrows ==
  ASSUME DestInv, KindsOK, NEW p, Cleared(p) = disk, OpenFails(p)
  PROVE  Grown /\ (\A i : NewDirs(i))
  <1>. DEFINE S == MissingParents(p)
  <1>1. PICK fresh \in Fresh(S, disk) :
          /\ disk' = PlacedDisk(p, fresh) /\ inode' = PlacedInode(p, fresh)
          /\ made' = PlacedMade(p, fresh)
    BY DEF OpenFails
  <1>2. UNCHANGED <<setup, away, archive>> /\ MissingParents(p) \subseteq S /\ DestinationTypeOK
    BY DEF OpenFails, DestInv
  <1>. HIDE DEF S
  <1>3. /\ \A q \in DOMAIN disk :
              /\ q \in DOMAIN disk' /\ disk'[q] = disk[q]
              /\ inode'[disk[q]] = inode[disk[q]]
              /\ \A s \in S : fresh[s] # disk[q]
        /\ \A q \in DOMAIN disk' :
              q \in DOMAIN disk \/ \E r \in MissingParents(p) : disk'[q] = fresh[r]
        /\ \A r \in MissingParents(p) : inode'[fresh[r]] = FreshDir
        /\ disk' \in [DOMAIN disk' -> Inos]
        /\ DOMAIN inode' = Inos
        /\ MadeOK(made')
        /\ made'.ids \subseteq made.ids \cup {fresh[s] : s \in S}
        /\ Range(made'.dirs) \subseteq Range(made.dirs) \cup {fresh[s] : s \in S}
    BY <1>1, <1>2, PlaceGrows
  <1>4. DestinationTypeOK'
    BY <1>2, <1>3 DEF DestinationTypeOK, MadeOK
  <1>5. \A q \in DOMAIN disk' : q \in DOMAIN disk \/ inode'[disk'[q]].kind = "dir"
    BY <1>3 DEF FreshDir
  <1>6. KindsOK'
    BY <1>3, <1>5 DEF KindsOK
  <1>. QED BY <1>2, <1>3, <1>4, <1>5, <1>6 DEF Grown, NewDirs

LEMMA OpenAtGrows ==
  ASSUME DestInv, KindsOK, NEW p, Cleared(p) = disk, Folded(p) \notin DOMAIN disk,
         NEW node, node.kind \in {"dir", "file"}, NEW kind, NEW kept \in BOOLEAN,
         OpenAt(p, node, kind, kept)
  PROVE  /\ Grown
         /\ kept => /\ Folded(p) \in DOMAIN disk' /\ disk'[Folded(p)] \in Inos
                    /\ inode'[disk'[Folded(p)]] = node
                    /\ NewDirs(disk'[Folded(p)])
         /\ ~kept => \A i : NewDirs(i)
  <1>. DEFINE S == MissingParents(p) \cup {p}
              F == Folded(p)
  <1>1. PICK fresh \in Fresh(S, disk) :
          /\ disk' = IF kept THEN Put(PlacedDisk(p, fresh), F, fresh[p])
                     ELSE PlacedDisk(p, fresh)
          /\ inode' = IF kept THEN [PlacedInode(p, fresh) EXCEPT ![fresh[p]] = node]
                      ELSE PlacedInode(p, fresh)
          /\ made' = Recorded(PlacedMade(p, fresh), p, kind, <<>>, fresh[p])
          /\ UNCHANGED <<setup, away, archive>>
    BY DEF OpenAt
  <1>2. /\ MissingParents(p) \subseteq S /\ p \in S /\ DestinationTypeOK
        /\ \A s \in S : s = p \/ s \in MissingParents(p)
    BY DEF DestInv
  <1>. HIDE DEF S
  <1>. DEFINE d == PlacedDisk(p, fresh)
              n == PlacedInode(p, fresh)
              m == PlacedMade(p, fresh)
  <1>3. /\ \A s \in S : fresh[s] \in Inos
        /\ \A r, s \in S : r # s => fresh[r] # fresh[s]
        /\ \A q \in DOMAIN disk :
              /\ q \in DOMAIN d /\ d[q] = disk[q] /\ n[disk[q]] = inode[disk[q]]
              /\ \A s \in S : fresh[s] # disk[q]
        /\ \A q \in DOMAIN d : q \in DOMAIN disk \/ \E r \in MissingParents(p) : d[q] = fresh[r]
        /\ \A r \in MissingParents(p) : n[fresh[r]] = FreshDir
        /\ d \in [DOMAIN d -> Inos] /\ DOMAIN n = Inos /\ MadeOK(m)
        /\ m.ids \subseteq made.ids \cup {fresh[s] : s \in S}
        /\ Range(m.dirs) \subseteq Range(made.dirs) \cup {fresh[s] : s \in S}
    BY <1>2, PlaceGrows
  <1>4. /\ disk' = IF kept THEN Put(d, F, fresh[p]) ELSE d
        /\ inode' = IF kept THEN [n EXCEPT ![fresh[p]] = node] ELSE n
        /\ made' = Recorded(m, p, kind, <<>>, fresh[p])
    BY <1>1
  <1>. HIDE DEF d, n, m, F
  <1>5. fresh[p] \in Inos
    BY <1>2, <1>3
  <1>6. MadeOK(made') /\ made'.dirs = m.dirs /\ made'.ids = m.ids \cup {fresh[p]}
    BY <1>3, <1>4, <1>5, RecordedTypes
  <1>7. disk' \in [DOMAIN disk' -> Inos] /\ DOMAIN inode' = Inos
    BY <1>3, <1>4, <1>5 DEF Put
  <1>8. DestinationTypeOK'
    BY <1>1, <1>2, <1>6, <1>7 DEF DestinationTypeOK, MadeOK
  <1>9. ASSUME NEW q \in DOMAIN disk
        PROVE  /\ q \in DOMAIN disk' /\ disk'[q] = disk[q] /\ inode'[disk[q]] = inode[disk[q]]
               /\ disk[q] \in Range(made'.dirs) => disk[q] \in Range(made.dirs)
               /\ disk[q] \in made'.ids => disk[q] \in made.ids
    <2>1. q # F /\ fresh[p] # disk[q] /\ disk[q] \in Inos
      BY <1>2, <1>3 DEF F, DestinationTypeOK
    <2>2. q \in DOMAIN disk' /\ disk'[q] = disk[q]
      BY <1>3, <1>4, <2>1 DEF Put
    <2>3. inode'[disk[q]] = inode[disk[q]]
      BY <1>3, <1>4, <2>1
    <2>4. \A s \in S : fresh[s] # disk[q]
      BY <1>3
    <2>. QED BY <1>3, <1>6, <2>1, <2>2, <2>3, <2>4
  <1>10. \A r \in MissingParents(p) : (fresh[r] = fresh[p] /\ kept) \/ inode'[fresh[r]] = FreshDir
    <2>1. ASSUME NEW r \in MissingParents(p), fresh[r] # fresh[p] \/ ~kept
          PROVE  inode'[fresh[r]] = FreshDir
      <3>1. n[fresh[r]] = FreshDir /\ fresh[r] \in Inos
        BY <1>2, <1>3
      <3>. QED BY <1>3, <1>4, <2>1, <3>1
    <2>. QED BY <2>1
  <1>11. kept => inode'[fresh[p]] = node /\ F \in DOMAIN disk' /\ disk'[F] = fresh[p]
    BY <1>3, <1>4, <1>5 DEF Put
  <1>12. \A q \in DOMAIN disk' :
           \/ q \in DOMAIN disk \/ (kept /\ disk'[q] = fresh[p])
           \/ inode'[disk'[q]] = FreshDir
    <2>1. ASSUME NEW q \in DOMAIN disk', q \notin DOMAIN disk
          PROVE  (kept /\ disk'[q] = fresh[p]) \/ inode'[disk'[q]] = FreshDir
      <3>1. CASE kept /\ q = F
        BY <1>11, <3>1
      <3>2. CASE ~(kept /\ q = F)
        <4>1. q \in DOMAIN d /\ disk'[q] = d[q]
          BY <1>4, <2>1, <3>2 DEF Put
        <4>2. PICK r \in MissingParents(p) : d[q] = fresh[r]
          BY <1>3, <2>1, <4>1
        <4>. QED BY <1>10, <4>1, <4>2
      <3>. QED BY <3>1, <3>2
    <2>. QED BY <2>1
  <1>13. \A q \in DOMAIN disk' :
           \/ q \in DOMAIN disk \/ (kept /\ disk'[q] = fresh[p])
           \/ inode'[disk'[q]].kind = "dir"
    BY <1>12 DEF FreshDir
  <1>14. KindsOK'
    BY <1>9, <1>11, <1>13 DEF KindsOK
  <1>15. Grown
    BY <1>1, <1>8, <1>9, <1>14 DEF Grown
  <1>. QED BY <1>5, <1>11, <1>13, <1>15 DEF F, NewDirs

(* What salvage keeps of itself: an identity it made and still finds under  *)
(* a name is a directory or is claimed, so no record's name is ever refused *)
(* because a file of the run has it.                                        *)
SalvageTypes ==
  /\ stage \in {"placing", "done", "failed"} /\ scanned \in 0 .. MaxRecords
  /\ claims.paths \in [DOMAIN claims.paths -> 1 .. MaxRecords]
  /\ claims.ids \in [Inos -> 0 .. MaxRecords]

FilesClaimed ==
  stage = "placing" =>
    \A q \in DOMAIN disk :
      inode[disk[q]].kind # "dir" /\ disk[q] \in made.ids => claims.ids[disk[q]] # 0

TellsOK ==
  /\ told \in Seq(Range(told)) /\ RecoveredKept
  /\ stage = "placing" => Len(told) = scanned

SalvageInv ==
  DestInv /\ deferred = <<>> /\ KindsOK /\ SalvageTypes /\ FilesClaimed /\ TellsOK

LEMMA ThereStays ==
  ASSUME DestInv, Grown, NEW p, There(p).kind # "none"
  PROVE  There(p)' = There(p)
  <1>1. /\ Folded(p) \in DOMAIN disk /\ disk[Folded(p)] \in Inos
        /\ There(p) = inode[disk[Folded(p)]]
    BY ThereSomething, ThereAt DEF DestInv
  <1>2. Folded(p)' = Folded(p)
    BY DEF Folded, Grown
  <1>3. Identity(p)' = disk[Folded(p)]
    BY <1>1, <1>2 DEF Identity, Grown
  <1>. QED BY <1>1, <1>3, NoneAssumption DEF There, Grown

LEMMA UnchangedGrown ==
  ASSUME DestInv, KindsOK, UNCHANGED destination
  PROVE  Grown /\ (\A i : NewDirs(i))
  <1>1. UNCHANGED <<setup, disk, inode, away, archive, made>> /\ DestinationTypeOK'
    BY UnchangedKeeps DEF destination
  <1>. QED BY <1>1 DEF Grown, NewDirs, KindsOK

(* One more disposition.                                                    *)
LEMMA InItsRange ==
  ASSUME NEW S, NEW s \in Seq(S)
  PROVE  s \in Seq(Range(s))
  <1>1. Len(s) \in Nat /\ DOMAIN s = 1 .. Len(s) /\ s \in [1 .. Len(s) -> S]
    OBVIOUS
  <1>2. \A k \in 1 .. Len(s) : s[k] \in Range(s)
    BY <1>1 DEF Range
  <1>3. s \in [1 .. Len(s) -> Range(s)]
    BY <1>1, <1>2
  <1>. QED BY <1>1, <1>3

LEMMA TellKeeps ==
  ASSUME SalvageInv, Grown, NEW x, told' = Append(told, x), x.what # "exists",
         x.what \in {"written", "aside", "partial"} =>
           /\ There(x.path)' = [kind |-> "file", data |-> x.data]
           /\ x.what = "written" => x.data = Contents[Len(told) + 1]
  PROVE  told' \in Seq(Range(told')) /\ Len(told') = Len(told) + 1 /\ RecoveredKept'
  <1>1. DestInv /\ told \in Seq(Range(told)) /\ RecoveredKept
    BY DEF SalvageInv, TellsOK
  <1>2. /\ Len(told) \in Nat /\ DOMAIN told = 1 .. Len(told)
        /\ told' \in Seq(Range(told) \cup {x}) /\ Len(told') = Len(told) + 1
        /\ \A n \in DOMAIN told' : \/ n \in DOMAIN told /\ told'[n] = told[n]
                                   \/ n = Len(told) + 1 /\ told'[n] = x
    <2>1. told \in Seq(Range(told) \cup {x})
      <3>1. Len(told) \in Nat /\ DOMAIN told = 1 .. Len(told)
            /\ \A n \in DOMAIN told : told[n] \in Range(told)
        BY <1>1
      <3>2. told \in [1 .. Len(told) -> Range(told)]
        BY <1>1
      <3>3. told \in [1 .. Len(told) -> Range(told) \cup {x}]
        BY <3>2
      <3>. QED BY <3>1, <3>3
    <2>. QED BY <2>1
  <1>3. told' \in Seq(Range(told'))
    BY <1>2, InItsRange
  <1>4. ASSUME NEW n \in DOMAIN told'
        PROVE  /\ told'[n].what # "exists"
               /\ told'[n].what \in {"written", "aside", "partial"} =>
                     /\ There(told[n].path)' = [kind |-> "file", data |-> told'[n].data]
                     /\ told'[n].what = "written" => told'[n].data = Contents[n]
    <2>1. CASE n \in DOMAIN told /\ told'[n] = told[n]
      <3>1. PICK path : path = told[n].path
        OBVIOUS
      <3>2. /\ told[n].what # "exists"
            /\ told[n].what \in {"written", "aside", "partial"} =>
                  /\ There(path) = [kind |-> "file", data |-> told[n].data]
                  /\ told[n].what = "written" => told[n].data = Contents[n]
        BY <1>1, <2>1, <3>1 DEF RecoveredKept
      <3>3. There(path).kind = "file" => There(path)' = There(path)
        BY <1>1, ThereStays
      <3>4. There(told[n].path)' = There(path)'
        BY <2>1, <3>1 DEF There, Identity, Folded
      <3>. QED BY <2>1, <3>2, <3>3, <3>4
    <2>2. CASE n = Len(told) + 1 /\ told'[n] = x
      <3>1. There(told[n].path)' = There(x.path)'
        BY <2>2 DEF There, Identity, Folded
      <3>. QED BY <2>2, <3>1
    <2>. QED BY <1>2, <2>1, <2>2
  <1>5. RecoveredKept'
    BY <1>4 DEF RecoveredKept
  <1>. QED BY <1>2, <1>3, <1>5

LEMMA ToldStays ==
  ASSUME SalvageInv, Grown, UNCHANGED told
  PROVE  told' \in Seq(Range(told')) /\ RecoveredKept'
  <1>1. DestInv /\ told \in Seq(Range(told)) /\ RecoveredKept
    BY DEF SalvageInv, TellsOK
  <1>2. told' \in Seq(Range(told'))
    BY <1>1
  <1>3. ASSUME NEW n \in DOMAIN told
        PROVE  /\ told[n].what # "exists"
               /\ told[n].what \in {"written", "aside", "partial"} =>
                     /\ There(told[n].path)' = [kind |-> "file", data |-> told[n].data]
                     /\ told[n].what = "written" => told[n].data = Contents[n]
    <2>1. PICK path : path = told[n].path
      OBVIOUS
    <2>2. /\ told[n].what # "exists"
          /\ told[n].what \in {"written", "aside", "partial"} =>
                /\ There(path) = [kind |-> "file", data |-> told[n].data]
                /\ told[n].what = "written" => told[n].data = Contents[n]
      BY <1>1, <1>3, <2>1 DEF RecoveredKept
    <2>3. There(path).kind = "file" => There(path)' = There(path)
      BY <1>1, ThereStays
    <2>4. There(told[n].path)' = There(path)'
      BY <2>1 DEF There, Identity, Folded
    <2>. QED BY <2>2, <2>3, <2>4
  <1>4. RecoveredKept'
    BY <1>3 DEF RecoveredKept
  <1>. QED BY <1>2, <1>4

(* The claims after a step that makes directories only, or one more file.   *)
LEMMA ClaimsStay ==
  ASSUME SalvageInv, stage = "placing", Grown, \A i : NewDirs(i), claims'.ids = claims.ids
  PROVE  FilesClaimed'
  <1>1. ASSUME NEW q \in DOMAIN disk', inode'[disk'[q]].kind # "dir", disk'[q] \in made'.ids
        PROVE  claims'.ids[disk'[q]] # 0
    <2>1. q \in DOMAIN disk \/ disk'[q] = None
      BY <1>1 DEF NewDirs
    <2>2. disk'[q] # None
      BY NoneAssumption DEF Grown, DestinationTypeOK
    <2>. QED BY <1>1, <2>1, <2>2 DEF SalvageInv, FilesClaimed, Grown
  <1>. QED BY <1>1 DEF FilesClaimed

LEMMA ClaimsOneMore ==
  ASSUME SalvageInv, stage = "placing", Grown, NEW i \in Inos, NewDirs(i),
         NEW n \in Nat \ {0}, claims'.ids = [claims.ids EXCEPT ![i] = n]
  PROVE  FilesClaimed'
  <1>1. ASSUME NEW q \in DOMAIN disk', inode'[disk'[q]].kind # "dir", disk'[q] \in made'.ids
        PROVE  claims'.ids[disk'[q]] # 0
    <2>0. claims.ids \in [Inos -> 0 .. MaxRecords] /\ disk'[q] \in Inos
      BY DEF SalvageInv, SalvageTypes, Grown, DestinationTypeOK
    <2>1. CASE disk'[q] = i
      BY <2>0, <2>1
    <2>2. CASE disk'[q] # i
      <3>1. q \in DOMAIN disk
        BY <1>1, <2>2 DEF NewDirs
      <3>2. claims.ids[disk'[q]] # 0
        BY <1>1, <3>1 DEF SalvageInv, FilesClaimed, Grown
      <3>. QED BY <2>0, <2>2, <3>2
    <2>. QED BY <2>1, <2>2
  <1>. QED BY <1>1 DEF FilesClaimed

-------------------------------------------------------------------------------
(* salvage: a record.                                                       *)

(* Putting a step together: the disk, the claims and what was told.         *)
LEMMA SalvageStep ==
  ASSUME SalvageInv, Grown, UNCHANGED deferred, SalvageTypes', FilesClaimed',
         told' \in Seq(Range(told')), RecoveredKept',
         stage' = "placing" => Len(told') = scanned'
  PROVE  SalvageInv' /\ setup' = setup
  <1>1. DestInv'
    BY GrownSpares, SpareKeeps DEF SalvageInv, Grown
  <1>. QED BY <1>1 DEF SalvageInv, TellsOK, Grown

LEMMA AtRecord ==
  ASSUME SalvageInv, NextRecord
  PROVE  /\ stage = "placing" /\ scanned' = scanned + 1
         /\ scanned' \in 0 .. MaxRecords /\ scanned' \in 1 .. MaxRecords
         /\ scanned + 1 \in 1 .. MaxRecords /\ scanned + 1 \in Nat \ {0}
         /\ Len(told) = scanned
  BY RecordsBound DEF SalvageInv, SalvageTypes, TellsOK, NextRecord

LEMMA ClaimingTypes ==
  ASSUME SalvageInv, NEW p, NEW w, NEW n \in 1 .. MaxRecords
  PROVE  /\ Claiming(p, w, n).ids = claims.ids
         /\ Claiming(p, w, n).paths \in [DOMAIN Claiming(p, w, n).paths -> 1 .. MaxRecords]
         /\ DOMAIN Claiming(p, w, n) = {"paths", "ids"}
  <1>1. claims.paths \in [DOMAIN claims.paths -> 1 .. MaxRecords]
    BY DEF SalvageInv, SalvageTypes
  <1>. DEFINE c == Over(claims.paths, [q \in {p, w} |-> n])
              D == 1 .. MaxRecords
  <1>2. Claiming(p, w, n) = [paths |-> c, ids |-> claims.ids]
    BY DEF Claiming
  <1>3. c \in [DOMAIN c -> D]
    <2>1. n \in D /\ claims.paths \in [DOMAIN claims.paths -> D]
      BY <1>1
    <2>. HIDE DEF D
    <2>. QED BY <2>1 DEF Over
  <1>. HIDE DEF c
  <1>. QED BY <1>2, <1>3

(* A record told of, but not kept.                                          *)
LEMMA SkipKeeps ==
  ASSUME SalvageInv, NextRecord, Grown, \A i : NewDirs(i),
         NEW x, told' = Append(told, x), x.what \notin {"exists", "written", "aside", "partial"},
         claims'.ids = claims.ids, SalvageTypes', UNCHANGED <<stage, deferred>>
  PROVE  SalvageInv' /\ setup' = setup
  <1>1. told' \in Seq(Range(told')) /\ Len(told') = Len(told) + 1 /\ RecoveredKept'
    BY TellKeeps
  <1>2. FilesClaimed'
    BY AtRecord, ClaimsStay
  <1>. QED BY <1>1, <1>2, AtRecord, SalvageStep

LEMMA UnclaimedTypes ==
  ASSUME SalvageInv, NextRecord, UNCHANGED <<stage, claims>>
  PROVE  SalvageTypes'
  BY AtRecord DEF SalvageInv, SalvageTypes

LEMMA DeclinedKeeps ==
  ASSUME SalvageInv, NEW r, DeclinedRecord(r), UNCHANGED deferred
  PROVE  SalvageInv' /\ setup' = setup
  <1>1. Grown /\ \A i : NewDirs(i)
    BY UnchangedGrown DEF SalvageInv, DeclinedRecord
  <1>2. PICK x : x = [what |-> "declined", path |-> <<>>, data |-> <<>>, partial |-> FALSE]
    OBVIOUS
  <1>3. told' = Append(told, x) /\ x.what \notin {"exists", "written", "aside", "partial"}
    BY <1>2 DEF DeclinedRecord, Skip, Tell
  <1>4. SalvageTypes'
    BY UnclaimedTypes DEF DeclinedRecord
  <1>. QED BY <1>1, <1>3, <1>4, SkipKeeps DEF DeclinedRecord

LEMMA DirRecordKeeps ==
  ASSUME SalvageInv, NEW r, DirRecord(r), UNCHANGED deferred
  PROVE  SalvageInv' /\ setup' = setup
  <1>. DEFINE p == RecordPath[r.name]
  <1>1. NextRecord /\ UNCHANGED <<stage, claims>> /\ DestInv /\ KindsOK /\ SalvageTypes'
    BY UnclaimedTypes DEF DirRecord, SalvageInv
  <1>2. \E path : \E what \in {"dir", "destination", "io"} :
          told' = Append(told, [what |-> what, path |-> path, data |-> <<>>, partial |-> FALSE])
    BY DEF DirRecord, PlaceDeclined, OpenFails, Skip, Tell, Why
  <1>3. PICK x : told' = Append(told, x) /\ x.what \in {"dir", "destination", "io"}
    BY <1>2
  <1>4. Grown /\ \A i : NewDirs(i)
    <2>1. CASE UNCHANGED destination
      BY <1>1, <2>1, UnchangedGrown
    <2>2. CASE Proceeds(p, TRUE, FALSE) /\ ~IsDir(p) /\ OpenFails(p)
      BY <1>1, <2>2, NotForced, OpenFailsGrows
    <2>3. CASE Proceeds(p, TRUE, FALSE) /\ ~IsDir(p) /\ OpenAt(p, FreshDir, "dir", TRUE)
      <3>1. ~IsOther(p) /\ Cleared(p) = disk /\ Folded(p) \notin DOMAIN disk
        BY <1>1, <2>3, NotForced, NothingThere DEF DestInv
      <3>2. FreshDir.kind = "dir"
        BY DEF FreshDir
      <3>3. PICK kept \in BOOLEAN : kept = TRUE
        OBVIOUS
      <3>6. OpenAt(p, FreshDir, "dir", kept)
        BY <2>3, <3>3
      <3>7. /\ Grown
            /\ kept => inode'[disk'[Folded(p)]] = FreshDir /\ NewDirs(disk'[Folded(p)])
        BY <1>1, <3>1, <3>2, <3>6, OpenAtGrows
      <3>5. /\ Grown /\ inode'[disk'[Folded(p)]] = FreshDir
            /\ NewDirs(disk'[Folded(p)])
        BY <3>3, <3>7
      <3>4. \A q \in DOMAIN disk' : q \in DOMAIN disk \/ inode'[disk'[q]].kind = "dir"
        BY <3>2, <3>5 DEF NewDirs
      <3>. QED BY <3>4, <3>5 DEF NewDirs
    <2>4. CASE /\ IsDir(p) /\ made' = Recorded(made, p, "dir", <<>>, Identity(p))
               /\ UNCHANGED <<setup, disk, inode, away, archive>>
      <3>1. /\ Folded(p) \in DOMAIN disk /\ Identity(p) \in Inos
            /\ inode[Identity(p)].kind = "dir"
        BY <1>1, <2>4, ThereSomething, ThereAt DEF IsDir, DestInv
      <3>2. MadeOK(made)
        BY <1>1 DEF DestInv, DestinationTypeOK, MadeOK
      <3>3. made'.dirs = made.dirs /\ made'.ids = made.ids \cup {Identity(p)}
        BY <2>4, <3>1, <3>2, RecordedTypes
      <3>4. DestinationTypeOK'
        BY <1>1, <2>4, <3>1, RecordKeeps
      <3>. QED BY <1>1, <2>4, <3>1, <3>3, <3>4 DEF Grown, NewDirs, KindsOK
    <2>. QED BY <2>1, <2>2, <2>3, <2>4 DEF DirRecord, PlaceDeclined, SalvageForce
  <1>. QED BY <1>1, <1>3, <1>4, SkipKeeps

(* The name salvage turns to is no file's: `exists` is never told.          *)
LEMMA BaseFree ==
  ASSUME SalvageInv, stage = "placing", NEW p, NEW n, NEW partial,
         NEW base \in BaseTargets(p, n, partial)
  PROVE  ~IsOther(AsWritten(base, partial))
  <1>. DEFINE w == AsWritten(base, partial)
  <1>. SUFFICES ASSUME IsOther(w) PROVE FALSE
    OBVIOUS
  <1>0. DestinationTypeOK
    BY DEF SalvageInv, DestInv
  <1>1. CASE Taken(p, partial)
    <2>1. PICK k \in 1 .. MaxSuffixes : base = Disambiguated(p, n, k) /\ FirstFree(p, n, partial, k)
      BY <1>1 DEF BaseTargets
    <2>2. ~RunMade(base, partial) /\ ~PreExisting(base, partial)
      BY <2>1 DEF FirstFree, NothingAt
    <2>. QED BY <2>2 DEF RunMade, PreExisting
  <1>2. CASE ~Taken(p, partial)
    <2>1. base = p
      BY <1>2 DEF BaseTargets
    <2>2. Holder(w) = 0 /\ Made(w)
      BY <1>2, <2>1 DEF Taken, HeldName, PreExisting
    <2>3. /\ Folded(w) \in DOMAIN disk /\ Identity(w) \in Inos
          /\ Identity(w) = disk[Folded(w)] /\ inode[disk[Folded(w)]].kind # "dir"
      BY <1>0, ThereSomething, ThereAt DEF IsOther
    <2>4. Identity(w) \in made.ids
      BY <1>0, <2>2 DEF Made, MadeExact, MadeIdentity, DestinationTypeOK
    <2>5. claims.ids[Identity(w)] # 0
      BY <2>3, <2>4 DEF SalvageInv, FilesClaimed
    <2>6. w \in DOMAIN claims.paths => claims.paths[w] # 0
      BY DEF SalvageInv, SalvageTypes
    <2>7. Identity(w) # None
      BY <2>3, NoneAssumption
    <2>. QED BY <2>2, <2>5, <2>6, <2>7 DEF Holder
  <1>. QED BY <1>1, <1>2

(* What writing a record leaves.                                            *)
LEMMA WriteKeeps ==
  ASSUME SalvageInv, NextRecord, NEW r, NEW w, NEW aside \in BOOLEAN,
         Proceeds(w, FALSE, FALSE), UNCHANGED deferred, WriteRecord(r, w, scanned + 1, aside)
  PROVE  SalvageInv' /\ setup' = setup
  <1>. DEFINE n == scanned + 1
              p == RecordPath[r.name]
              c == Claiming(p, w, n)
  <1>1. DestInv /\ KindsOK
    BY DEF SalvageInv
  <1>2. ~IsOther(w) /\ Cleared(w) = disk /\ Folded(w) \notin DOMAIN disk
    BY <1>1, NotForced, ProceedsToNoDir, NothingThere DEF DestInv
  <1>3. /\ stage = "placing" /\ scanned' \in 0 .. MaxRecords /\ n \in 1 .. MaxRecords
        /\ n \in Nat \ {0} /\ Len(told) = scanned /\ scanned' = n
    BY AtRecord
  <1>4. c.ids = claims.ids /\ c.paths \in [DOMAIN c.paths -> 1 .. MaxRecords]
        /\ DOMAIN c = {"paths", "ids"}
    BY <1>3, ClaimingTypes
  <1>. HIDE DEF n, c
  <1>5. ASSUME claims' = c, stage' \in {"placing", "failed"}
        PROVE  SalvageTypes'
    BY <1>3, <1>4, <1>5 DEF SalvageInv, SalvageTypes
  <1>6. ASSUME Grown, stage' = "failed", claims' = c, UNCHANGED told
        PROVE  SalvageInv' /\ setup' = setup
    <2>2. SalvageTypes' /\ FilesClaimed'
      BY <1>5, <1>6 DEF FilesClaimed
    <2>3. told' \in Seq(Range(told')) /\ RecoveredKept'
      BY <1>6, ToldStays
    <2>. QED BY <1>6, <2>2, <2>3, SalvageStep
  <1>7. ASSUME NEW data, ~ShortOfTheScan(r, data, n, aside),
               OpenAt(w, [kind |-> "file", data |-> data], "file", TRUE),
               Disposed(r, w, data, n, aside)
        PROVE  SalvageInv' /\ setup' = setup
    <2>1. PICK node : node = [kind |-> "file", data |-> data]
      OBVIOUS
    <2>2. /\ Grown /\ Folded(w) \in DOMAIN disk' /\ disk'[Folded(w)] \in Inos
          /\ inode'[disk'[Folded(w)]] = node
          /\ NewDirs(disk'[Folded(w)])
      <3>1. node.kind = "file" /\ OpenAt(w, node, "file", TRUE)
        BY <1>7, <2>1
      <3>2. PICK kept \in BOOLEAN : kept = TRUE
        OBVIOUS
      <3>3. OpenAt(w, node, "file", kept)
        BY <3>1, <3>2
      <3>4. /\ Grown
            /\ kept => /\ Folded(w) \in DOMAIN disk' /\ disk'[Folded(w)] \in Inos
                       /\ inode'[disk'[Folded(w)]] = node
                       /\ NewDirs(disk'[Folded(w)])
        BY <1>1, <1>2, <3>1, <3>3, OpenAtGrows
      <3>. QED BY <3>2, <3>4
    <2>3. PICK i \in Inos : i = disk'[Folded(w)]
      BY <2>2
    <2>4. PICK x : x = [what |-> IF aside THEN "aside"
                                 ELSE IF r.status = "partial" THEN "partial" ELSE "written",
                        path |-> w, data |-> data, partial |-> r.status = "partial"]
      OBVIOUS
    <2>5. /\ told' = Append(told, x) /\ UNCHANGED stage
          /\ claims' = [c EXCEPT !.ids[i] = n]
      BY <1>7, <2>3, <2>4 DEF Disposed, Tell, c, Folded, Grown
    <2>6. claims'.ids = [claims.ids EXCEPT ![i] = n] /\ claims'.paths = c.paths
      BY <1>4, <2>5
    <2>7. SalvageTypes'
      <3>1. claims.ids \in [Inos -> 0 .. MaxRecords] /\ n \in 0 .. MaxRecords
        BY <1>3 DEF SalvageInv, SalvageTypes
      <3>2. claims'.ids \in [Inos -> 0 .. MaxRecords]
        <4>. DEFINE D == 0 .. MaxRecords
        <4>. HIDE DEF D
        <4>1. claims.ids \in [Inos -> D] /\ n \in D
          BY <3>1 DEF D
        <4>2. claims'.ids \in [Inos -> D]
          BY <2>6, <4>1
        <4>. QED BY <4>2 DEF D
      <3>. QED BY <1>3, <1>4, <2>5, <2>6, <3>2 DEF SalvageTypes
    <2>8. FilesClaimed'
      BY <1>3, <2>2, <2>3, <2>6, ClaimsOneMore
    <2>9. x.what # "exists" /\ x.path = w /\ x.data = data
          /\ (x.what = "written" => data = Contents[n])
      BY <1>7, <2>4 DEF ShortOfTheScan
    <2>10. There(w)' = [kind |-> "file", data |-> data]
      <3>1. Folded(w)' = Folded(w)
        BY <2>2 DEF Folded, Grown
      <3>. QED BY <2>1, <2>2, <3>1, NoneAssumption DEF There, Identity
    <2>11. There(x.path)' = [kind |-> "file", data |-> x.data]
      BY <2>9, <2>10 DEF There, Identity, Folded
    <2>12. told' \in Seq(Range(told')) /\ Len(told') = Len(told) + 1 /\ RecoveredKept'
      <3>1. x.what = "written" => x.data = Contents[Len(told) + 1]
        BY <1>3, <2>9 DEF n
      <3>. QED BY <2>2, <2>5, <2>9, <2>11, <3>1, TellKeeps
    <2>. QED BY <1>3, <2>2, <2>7, <2>8, <2>12, SalvageStep DEF n
  <1>8. ASSUME OpenAt(w, FreshDir, "file", FALSE), Skip("io"), claims' = c, UNCHANGED stage
        PROVE  SalvageInv' /\ setup' = setup
    <2>1. FreshDir.kind = "dir"
      BY DEF FreshDir
    <2>0. PICK kept \in BOOLEAN : ~kept /\ OpenAt(w, FreshDir, "file", kept)
      BY <1>8
    <2>2. Grown /\ \A i : NewDirs(i)
      BY <1>1, <1>2, <2>0, <2>1, OpenAtGrows
    <2>3. PICK x : x = [what |-> "io", path |-> <<>>, data |-> <<>>, partial |-> FALSE]
      OBVIOUS
    <2>4. told' = Append(told, x) /\ x.what \notin {"exists", "written", "aside", "partial"}
      BY <1>8, <2>3 DEF Skip, Tell
    <2>. QED BY <1>3, <1>4, <1>5, <1>8, <2>2, <2>4, SkipKeeps
  <1>9. CASE \E data \in Decoded(r, n) :
               IF ShortOfTheScan(r, data, n, aside)
               THEN /\ OpenAt(w, FreshDir, "file", FALSE)
                    /\ stage' = "failed" /\ claims' = c /\ UNCHANGED told
               ELSE /\ OpenAt(w, [kind |-> "file", data |-> data], "file", TRUE)
                    /\ Disposed(r, w, data, n, aside)
    <2>1. FreshDir.kind = "dir"
      BY DEF FreshDir
    <2>2. PICK data \in Decoded(r, n) :
               IF ShortOfTheScan(r, data, n, aside)
               THEN /\ OpenAt(w, FreshDir, "file", FALSE)
                    /\ stage' = "failed" /\ claims' = c /\ UNCHANGED told
               ELSE /\ OpenAt(w, [kind |-> "file", data |-> data], "file", TRUE)
                    /\ Disposed(r, w, data, n, aside)
      BY <1>9
    <2>3. CASE ShortOfTheScan(r, data, n, aside)
      <3>0. PICK kept \in BOOLEAN : ~kept /\ OpenAt(w, FreshDir, "file", kept)
        BY <2>2, <2>3
      <3>1. Grown
        BY <1>1, <1>2, <2>1, <3>0, OpenAtGrows
      <3>. QED BY <1>6, <2>2, <2>3, <3>1
    <2>4. CASE ~ShortOfTheScan(r, data, n, aside)
      BY <1>7, <2>2, <2>4
    <2>. QED BY <2>3, <2>4
  <1>10. CASE /\ \E data \in Decoded(r, n) \cup {<<"empty">>} :
                   OpenAt(w, [kind |-> "file", data |-> data], "file", TRUE)
              /\ stage' = "failed" /\ claims' = c /\ UNCHANGED told
    <2>1. PICK data : OpenAt(w, [kind |-> "file", data |-> data], "file", TRUE)
      BY <1>10
    <2>2. PICK node : node = [kind |-> "file", data |-> data]
      OBVIOUS
    <2>3. node.kind = "file" /\ OpenAt(w, node, "file", TRUE)
      BY <2>1, <2>2
    <2>0. PICK kept \in BOOLEAN : kept = TRUE
      OBVIOUS
    <2>5. node.kind = "file" /\ OpenAt(w, node, "file", kept)
      BY <2>0, <2>3
    <2>4. Grown
      BY <1>1, <1>2, <2>5, OpenAtGrows
    <2>. QED BY <1>6, <1>10, <2>4
  <1>. QED BY <1>8, <1>9, <1>10 DEF WriteRecord, n, c

LEMMA FileRecordKeeps ==
  ASSUME SalvageInv, NEW r, FileRecord(r), UNCHANGED deferred
  PROVE  SalvageInv' /\ setup' = setup
  <1>. DEFINE n == scanned + 1
              p == RecordPath[r.name]
              part == r.status = "partial"
  <1>1. NextRecord /\ stage = "placing" /\ n \in 1 .. MaxRecords /\ DestInv /\ KindsOK
    BY AtRecord DEF FileRecord, SalvageInv
  <1>2. PICK base \in BaseTargets(p, n, part) :
          LET w == AsWritten(base, part) IN
          \/ /\ PlaceDeclined(w, FALSE) \/ (Proceeds(w, FALSE, SalvageForce) /\ OpenFails(w))
             /\ claims' = Claiming(p, w, n)
             /\ UNCHANGED stage
          \/ /\ Proceeds(w, FALSE, SalvageForce) /\ ~NameRefused(w)
             /\ WriteRecord(r, w, n, Taken(p, part))
    BY DEF FileRecord
  <1>3. PICK w : w = AsWritten(base, part)
    OBVIOUS
  <1>4. ~IsOther(w)
    BY <1>1, <1>3, BaseFree
  <1>5. CASE WriteRecord(r, w, n, Taken(p, part)) /\ Proceeds(w, FALSE, SalvageForce)
    <2>1. PICK aside \in BOOLEAN : aside = Taken(p, part)
      BY DEF Taken, HeldName, PreExisting
    <2>2. WriteRecord(r, w, scanned + 1, aside) /\ Proceeds(w, FALSE, FALSE)
      BY <1>5, <2>1 DEF SalvageForce
    <2>. QED BY <1>1, <2>2, WriteKeeps
  <1>6. CASE /\ PlaceDeclined(w, FALSE) \/ (Proceeds(w, FALSE, SalvageForce) /\ OpenFails(w))
             /\ claims' = Claiming(p, w, n)
             /\ UNCHANGED stage
    <2>1. \E what \in {"destination", "io"} :
            told' = Append(told, [what |-> what, path |-> <<>>, data |-> <<>>, partial |-> FALSE])
      BY <1>4, <1>6 DEF PlaceDeclined, OpenFails, Skip, Tell, Why
    <2>2. PICK x : told' = Append(told, x) /\ x.what \in {"destination", "io"}
      BY <2>1
    <2>3. Grown /\ \A i : NewDirs(i)
      <3>1. CASE UNCHANGED destination
        BY <1>1, <3>1, UnchangedGrown
      <3>2. CASE OpenFails(w)
        <4>1. Cleared(w) = disk
          BY <1>4 DEF Cleared
        <4>. QED BY <1>1, <3>2, <4>1, OpenFailsGrows
      <3>. QED BY <1>6, <3>1, <3>2 DEF PlaceDeclined
    <2>4. claims'.ids = claims.ids /\ claims'.paths \in [DOMAIN claims'.paths -> 1 .. MaxRecords]
      BY <1>1, <1>6, ClaimingTypes
    <2>5. SalvageTypes'
      BY <1>1, <1>6, <2>4, AtRecord DEF SalvageInv, SalvageTypes
    <2>. QED BY <1>1, <1>6, <2>2, <2>3, <2>4, <2>5, SkipKeeps
  <1>. QED BY <1>2, <1>3, <1>5, <1>6

LEMMA SalvageKeeps ==
  ASSUME SalvageInv, SalvageNext, UNCHANGED deferred
  PROVE  SalvageInv' /\ setup' = setup
  <1>1. CASE EndOfScan
    <2>1. Grown
      BY <1>1, UnchangedGrown DEF SalvageInv, EndOfScan
    <2>2. SalvageTypes' /\ FilesClaimed' /\ stage' # "placing"
      BY <1>1 DEF SalvageInv, SalvageTypes, FilesClaimed, EndOfScan
    <2>3. told' \in Seq(Range(told')) /\ RecoveredKept'
      BY <1>1, <2>1, ToldStays DEF EndOfScan
    <2>. QED BY <2>1, <2>2, <2>3, SalvageStep
  <1>. QED BY <1>1, DeclinedKeeps, DirRecordKeeps, FileRecordKeeps DEF SalvageNext

-------------------------------------------------------------------------------
(* Both verbs.                                                              *)

VerbsInv ==
  /\ UnpackInv /\ SalvageTypes
  /\ setup.verb = "salvage" => SalvageInv
  /\ setup.verb # "salvage" => told = <<>>

LEMMA VerbsInit == Init => VerbsInv
  <1>. SUFFICES ASSUME Init PROVE VerbsInv
    OBVIOUS
  <1>1. /\ FoundDestination /\ deferred = <<>> /\ told = <<>>
        /\ stage = "placing" /\ scanned = 0
        /\ claims = [paths |-> <<>>, ids |-> [i \in Inos |-> 0]]
        /\ phase = "entries" /\ read = 0 /\ warned = {} /\ lost = {}
    BY DEF Init, ExtractInit, SalvageInit
  <1>2. DestInv
    BY <1>1, FoundInv
  <1>3. ExtractTypes
    BY <1>1, EntriesBound DEF ExtractTypes
  <1>4. DOMAIN <<>> = {} /\ <<>> \in [DOMAIN <<>> -> 1 .. MaxRecords] /\ Len(<<>>) = 0
        /\ <<>> \in Seq(Range(<<>>))
    OBVIOUS
  <1>5. SalvageTypes
    <2>1. claims.paths = <<>> /\ claims.ids = [i \in Inos |-> 0] /\ 0 \in 0 .. MaxRecords
      BY <1>1, RecordsBound
    <2>. QED BY <1>1, <1>4, <2>1 DEF SalvageTypes
  <1>6. KindsOK
    <2>1. /\ setup \in Setups /\ disk \in Fresh(DOMAIN setup.holds, <<>>)
          /\ inode = [i \in Inos |-> IF i \in Range(disk)
                                     THEN setup.holds[CHOOSE q \in DOMAIN disk : disk[q] = i]
                                     ELSE Nothing]
      BY <1>1 DEF FoundDestination
    <2>2. DOMAIN disk = DOMAIN setup.holds /\ \A q \in DOMAIN disk : disk[q] \in Inos
      BY <2>1 DEF Fresh, Free
    <2>3. ASSUME NEW q \in DOMAIN disk
          PROVE  inode[disk[q]].kind \in {"dir", "file", "link"}
      <3>1. disk[q] \in Range(disk)
        BY <2>3 DEF Range
      <3>2. PICK r \in DOMAIN disk : inode[disk[q]] = setup.holds[r]
        BY <2>1, <2>2, <3>1
      <3>3. setup \in Setups /\ r \in DOMAIN setup.holds
        BY <2>1, <2>2
      <3>4. setup.holds[r].kind \in {"dir", "file", "link"}
        BY <3>3, SetupsType
      <3>. QED BY <3>2, <3>4
    <2>. QED BY <2>3 DEF KindsOK
  <1>7. FilesClaimed
    BY <1>1 DEF FilesClaimed, FoundDestination
  <1>8. TellsOK
    BY <1>1, <1>4 DEF TellsOK, RecoveredKept
  <1>. QED BY <1>1, <1>2, <1>3, <1>5, <1>6, <1>7, <1>8 DEF VerbsInv, UnpackInv, SalvageInv

LEMMA VerbsStep == VerbsInv /\ [Next]_allVars => VerbsInv' /\ setup' = setup
  <1>. SUFFICES ASSUME VerbsInv, [Next]_allVars PROVE VerbsInv' /\ setup' = setup
    OBVIOUS
  <1>0. UnpackInv /\ DestInv /\ SalvageTypes
    BY DEF VerbsInv, UnpackInv
  <1>1. CASE /\ setup.verb # "salvage" /\ UNCHANGED salvaging
             /\ UnpackInv' /\ setup' = setup
    <2>1. SalvageTypes'
      BY <1>0, <1>1 DEF SalvageTypes, salvaging
    <2>. QED BY <1>1, <2>1 DEF VerbsInv, salvaging
  <1>2. CASE setup.verb = "unpack" /\ ExtractNext /\ UNCHANGED <<salvaging, scanning, hunting>>
    BY <1>0, <1>1, <1>2, UnpackKeeps
  <1>3. CASE /\ setup.verb = "salvage" /\ SalvageNext
             /\ UNCHANGED <<phase, read, entry, extraction, scanning, hunting>>
    <2>1. SalvageInv' /\ setup' = setup
      BY <1>3, SalvageKeeps DEF VerbsInv, extraction
    <2>2. ExtractTypes'
      BY <1>0, <1>3 DEF UnpackInv, ExtractTypes, extraction
    <2>. QED BY <1>3, <2>1, <2>2 DEF VerbsInv, UnpackInv, SalvageInv
  <1>4. CASE UNCHANGED <<destination, phase, read, entry, extraction, salvaging>>
    <2>1. UNCHANGED <<setup, disk, inode, away, archive, made, phase, read, entry, warned,
                      names, deferred, lost, stage, scanned, claims, told>>
      BY <1>4 DEF destination, extraction, salvaging
    <2>2. UnpackInv'
      <3>1. Spares /\ DestinationTypeOK'
        BY <1>0, <1>4, UnchangedKeeps
      <3>2. DestInv'
        BY <1>0, <2>1, <3>1, SpareKeeps
      <3>. QED BY <1>0, <2>1, <3>2 DEF UnpackInv, ExtractTypes
    <2>3. SalvageTypes'
      BY <1>0, <2>1 DEF SalvageTypes
    <2>4. CASE setup.verb # "salvage"
      BY <2>1, <2>2, <2>3, <2>4 DEF VerbsInv
    <2>5. CASE setup.verb = "salvage"
      <3>1. SalvageInv
        BY <2>5 DEF VerbsInv
      <3>2. Grown
        BY <1>0, <1>4, <3>1, UnchangedGrown DEF SalvageInv
      <3>3. told' \in Seq(Range(told')) /\ RecoveredKept'
        BY <2>1, <3>1, <3>2, ToldStays
      <3>4. FilesClaimed' /\ (stage' = "placing" => Len(told') = scanned')
        BY <2>1, <3>1 DEF SalvageInv, FilesClaimed, TellsOK
      <3>5. SalvageInv'
        BY <2>1, <2>3, <3>1, <3>2, <3>3, <3>4, SalvageStep
      <3>. QED BY <2>1, <2>2, <2>3, <2>5, <3>5 DEF VerbsInv
    <2>. QED BY <2>4, <2>5
  <1>. QED BY <1>2, <1>3, <1>4 DEF Next, allVars

(* The destination, the run's record of it, the deferred metadata and what  *)
(* was claimed and told are always as they must be.                         *)
THEOREM VerbsInvariant == Spec => []VerbsInv
  <1>1. VerbsInv /\ [Next]_allVars => VerbsInv'
    BY VerbsStep
  <1>. QED BY <1>1, VerbsInit, PTL DEF Spec

(* Neither `unpack` nor `salvage` ever takes away what the destination      *)
(* held, unless `unpack --force` replaces a file or a symlink, nor what     *)
(* salvage said it recovered into it: whatever the entries or records, the  *)
(* names the file system folds or refuses, the inode numbers it hands out   *)
(* again, and the directories another program swaps meanwhile.              *)
THEOREM NothingIsTakenAway == Spec => []NothingTakenAway
  <1>1. VerbsInv => NothingTakenAway
    <2>. SUFFICES ASSUME VerbsInv PROVE NothingTakenAway
      OBVIOUS
    <2>1. KeptWhatWasHeld
      BY DEF VerbsInv, UnpackInv, DestInv, Untouched, Untouchable, KeptWhatWasHeld, Tree
    <2>2. RecoveredKept
      <3>1. CASE setup.verb = "salvage"
        BY <3>1 DEF VerbsInv, SalvageInv, TellsOK
      <3>2. CASE setup.verb # "salvage"
        BY <3>2 DEF VerbsInv, RecoveredKept
      <3>. QED BY <3>1, <3>2
    <2>. QED BY <2>1, <2>2 DEF NothingTakenAway
  <1>. QED BY <1>1, VerbsInvariant, PTL

-------------------------------------------------------------------------------
(* The scans: each is at its start, with nothing to read, unless the        *)
(* invocation is one of it.                                                 *)

TarIdle == ScanStart /\ tape = <<>>
HuntIdle == HuntStart /\ dump = NoDump

ScansInv ==
  /\ IF setup.verb = "scan" THEN ScanInv /\ TarInv ELSE TarIdle
  /\ IF setup.verb = "hunt" THEN AllHuntInv ELSE HuntIdle

LEMMA ScansInit == Init => ScansInv
  <1>. SUFFICES ASSUME Init PROVE ScansInv
    OBVIOUS
  <1>1. /\ ScanStart /\ HuntStart
        /\ tape \in IF setup.verb = "scan" THEN Tapes ELSE {<<>>}
        /\ dump \in IF setup.verb = "hunt" THEN Dumps ELSE {NoDump}
    BY DEF Init
  <1>2. IF setup.verb = "scan" THEN ScanInv /\ TarInv ELSE TarIdle
    BY <1>1, InitInv, TarStarts DEF TarIdle
  <1>3. IF setup.verb = "hunt" THEN AllHuntInv ELSE HuntIdle
    BY <1>1, AllStarts DEF HuntIdle
  <1>. QED BY <1>2, <1>3 DEF ScansInv

(* A step either is the scan's own or leaves it alone.                      *)
LEMMA ScansApart ==
  ASSUME [Next]_allVars
  PROVE  /\ IF setup.verb = "scan" THEN [ScanNext]_scanning ELSE UNCHANGED scanning
         /\ IF setup.verb = "hunt" THEN [HuntNext]_hunting ELSE UNCHANGED hunting
  <1>1. CASE UNCHANGED allVars
    BY <1>1 DEF allVars
  <1>2. CASE setup.verb = "unpack" /\ UNCHANGED <<scanning, hunting>>
    BY <1>2
  <1>3. CASE setup.verb = "salvage" /\ UNCHANGED <<scanning, hunting>>
    BY <1>3
  <1>4. CASE setup.verb = "scan" /\ ScanNext /\ UNCHANGED hunting
    BY <1>4
  <1>5. CASE setup.verb = "hunt" /\ HuntNext /\ UNCHANGED scanning
    BY <1>5
  <1>. QED BY <1>1, <1>2, <1>3, <1>4, <1>5 DEF Next

LEMMA ScansStep == VerbsInv /\ ScansInv /\ [Next]_allVars => ScansInv'
  <1>. SUFFICES ASSUME VerbsInv, ScansInv, [Next]_allVars PROVE ScansInv'
    OBVIOUS
  <1>1. setup' = setup
    BY VerbsStep
  <1>2. CASE setup.verb = "scan"
    <2>1. ScanInv' /\ TarInv'
      BY <1>2, ScansApart, TarStep DEF ScansInv
    <2>2. HuntIdle'
      BY <1>2, ScansApart DEF ScansInv, HuntIdle, HuntStart, hunting
    <2>. QED BY <1>1, <1>2, <2>1, <2>2 DEF ScansInv
  <1>3. CASE setup.verb = "hunt"
    <2>1. AllHuntInv'
      BY <1>3, ScansApart, AllKeeps DEF ScansInv
    <2>2. TarIdle'
      BY <1>3, ScansApart DEF ScansInv, TarIdle, ScanStart, scanning
    <2>. QED BY <1>1, <1>3, <2>1, <2>2 DEF ScansInv
  <1>4. CASE setup.verb \notin {"scan", "hunt"}
    <2>1. HuntIdle'
      BY <1>4, ScansApart DEF ScansInv, HuntIdle, HuntStart, hunting
    <2>2. TarIdle'
      BY <1>4, ScansApart DEF ScansInv, TarIdle, ScanStart, scanning
    <2>. QED BY <1>1, <1>4, <2>1, <2>2 DEF ScansInv
  <1>. QED BY <1>2, <1>3, <1>4

LEMMA TarIdles == TarIdle => ScanTypeOK /\ TarNoneLost /\ ChainReadsBounded
  <1>. SUFFICES ASSUME TarIdle PROVE ScanTypeOK /\ TarNoneLost /\ ChainReadsBounded
    OBVIOUS
  <1>1. /\ scan.from = 0 /\ scan.payloadRead = 0 /\ scan.seen = {} /\ scan.copies = {}
        /\ scan.lastSeen = FileLen /\ scan.over = FALSE /\ DOMAIN scan.tracked = {}
        /\ scan.converged = NoLog /\ scan.starved = NoLog /\ scan.capped = NoLog
        /\ chains = [at \in Offsets |-> 0]
    BY DEF TarIdle, ScanStart
  <1>2. /\ NoLog \in Log /\ NoLog.pending = {}
    BY DEF NoLog, Log
  <1>3. ScanTypeOK
    <2>1. scan.from \in Nat /\ scan.payloadRead \in 0 .. ReadLimit /\ scan.over \in BOOLEAN
      <3>1. scan.from \in Nat
        BY <1>1
      <3>0. scan.over \in BOOLEAN
        BY <1>1, Zenon
      <3>2. scan.payloadRead \in 0 .. ReadLimit
        BY <1>1, LimitsType
      <3>. QED BY <3>0, <3>1, <3>2
    <2>2. scan.lastSeen \in 0 .. FileLen
      BY <1>1, LimitsType
    <2>3. chains \in [Offsets -> Nat]
      <3>1. [at \in Offsets |-> 0] \in [Offsets -> Nat]
        OBVIOUS
      <3>. QED BY <1>1, <3>1
    <2>4. scan.converged \in Log /\ scan.starved \in Log /\ scan.capped \in Log
      BY <1>1, <1>2
    <2>5. \A t \in DOMAIN scan.tracked : scan.tracked[t] \in 0 .. MaxChains
      BY <1>1
    <2>. QED BY <1>1, <2>1, <2>2, <2>3, <2>4, <2>5 DEF ScanTypeOK
  <1>4. TarNoneLost
    BY <1>1 DEF TarNoneLost
  <1>5. Cardinality(DOMAIN scan.tracked) <= TrackingCap
    BY <1>1, FS_EmptySet, LimitsType
  <1>6. ChainReadsBounded
    BY <1>1, <1>2, <1>5, LimitsType DEF ChainReadsBounded
  <1>. QED BY <1>3, <1>4, <1>6

LEMMA HuntIdles == HuntIdle => HuntTypeOK /\ HeadersNoneLost
  <1>. SUFFICES ASSUME HuntIdle PROVE HuntTypeOK /\ HeadersNoneLost
    OBVIOUS
  <1>1. /\ hunt.from = 0 /\ hunt.spent = 0 /\ hunt.stage = "search"
        /\ hunt.bounded = NoSightings /\ hunt.variants = NoSightings
        /\ hunt.held = <<>> /\ DOMAIN hunt.memo = {}
        /\ DOMAIN recovered = {} /\ unjudged = {}
        /\ zeroReads = [i \in 0 .. End - 1 |-> 0]
        /\ DOMAIN dump.headers = {} /\ dump.allowance = 0
    BY DEF HuntIdle, HuntStart, NoDump
  <1>2. /\ NoSightings.stored = <<>> /\ NoSightings.total = 0
        /\ <<>> \in Seq(Places) /\ Len(<<>>) = 0 /\ ToSet(<<>>) = {}
    BY DEF NoSightings, ToSet
  <1>3. HuntTypeOK
    <2>1. hunt.from \in 0 .. End + Align - 1 /\ hunt.spent \in 0 .. dump.allowance
      BY <1>1, HuntLimits
    <2>2. \A log \in {hunt.bounded, hunt.variants} :
             log.stored \in Seq(Places) /\ log.total \in Nat /\ Len(log.stored) <= LogCap
      <3>1. /\ NoSightings.stored \in Seq(Places) /\ NoSightings.total \in Nat
            /\ Len(NoSightings.stored) <= LogCap
        BY <1>2, HuntLimits
      <3>. QED BY <1>1, <3>1, Zenon
    <2>3. unjudged \subseteq Places /\ ToSet(hunt.held) \subseteq unjudged
      <3>1. ToSet(hunt.held) = {}
        BY <1>1, <1>2
      <3>. QED BY <1>1, <3>1
    <2>. QED BY <1>1, <2>1, <2>2, <2>3 DEF HuntTypeOK
  <1>4. EntriesFoundOrTold /\ VariantsCounted /\ SightingsExact /\ DirectoryRecovered
    BY <1>1 DEF EntriesFoundOrTold, VariantsCounted, SightingsExact, DirectoryRecovered
  <1>5. HealthyWithinBudget
    <2>1. Cardinality(DOMAIN dump.headers) = 0
      BY <1>1, FS_EmptySet
    <2>2. Fixed * 0 = 0 /\ End \in Nat
      BY HuntLimits
    <2>3. 0 <= 2 * (End - Fixed * 0)
      BY <2>2
    <2>. QED BY <1>1, <2>1, <2>3 DEF HealthyWithinBudget
  <1>6. ZerosReadOnce /\ FewerThanDeclared
    BY <1>1 DEF ZerosReadOnce, FewerThanDeclared
  <1>. QED BY <1>3, <1>4, <1>5, <1>6 DEF HeadersNoneLost

(* What an invocation does to the destination and what it scans.            *)
LEMMA WholeInvariant == Spec => [](VerbsInv /\ ScansInv)
  <1>1. VerbsInv /\ ScansInv /\ [Next]_allVars => (VerbsInv /\ ScansInv)'
    BY VerbsStep, ScansStep
  <1>. QED BY <1>1, VerbsInit, ScansInit, PTL DEF Spec

(* All of the state is of its kinds: the destination, what unpack and       *)
(* salvage keep, and what the scans keep.                                   *)
THEOREM VerbsTyped == Spec => []TypeOK
  <1>1. VerbsInv /\ ScansInv => TypeOK
    <2>. SUFFICES ASSUME VerbsInv, ScansInv PROVE TypeOK
      OBVIOUS
    <2>1. ScanTypeOK
      BY TarTyped, TarIdles DEF ScansInv
    <2>2. HuntTypeOK
      BY AllTyped, HuntIdles DEF ScansInv
    <2>. QED BY <2>1, <2>2 DEF VerbsInv, UnpackInv, DestInv, ExtractTypes, SalvageTypes, TypeOK
  <1>. QED BY <1>1, WholeInvariant, PTL

(* No scan of a damaged archive loses an entry silently, for any tape or    *)
(* archive, any limits and any budget: what it does not recover it tells of. *)
THEOREM NoScanLosesSilently == Spec => []NoneLostSilently
  <1>1. VerbsInv /\ ScansInv => NoneLostSilently
    <2>. SUFFICES ASSUME VerbsInv, ScansInv PROVE NoneLostSilently
      OBVIOUS
    <2>1. TarNoneLost
      BY TarTold, TarIdles DEF ScansInv
    <2>2. HeadersNoneLost
      BY AllNoneLost, HuntIdles DEF ScansInv
    <2>. QED BY <2>1, <2>2 DEF NoneLostSilently
  <1>. QED BY <1>1, WholeInvariant, PTL

(* Of whatever invocation: a tar's scan reads no header's chains more often *)
(* than MAX_CHAINS_PER_HEADER, and none once its budget is spent.           *)
THEOREM ChainReadsStayBounded == Spec => []ChainReadsBounded
  <1>1. VerbsInv /\ ScansInv => ChainReadsBounded
    BY TarIdles DEF ScansInv, ScanInv, Good, GoodLog, ChainReadsBounded
  <1>. QED BY <1>1, WholeInvariant, PTL

(* However the run goes on: the refusal is in a log that is never emptied.  *)
THEOREM NoChainReadOnceSpent == Spec => SpentStaysSpent
  <1>1. VerbsInv /\ ScansInv /\ [Next]_allVars
          => [Logged(scan.starved) # {} => chains' = chains]_scanning
    <2>. SUFFICES ASSUME ScansInv, [Next]_allVars
                  PROVE  [Logged(scan.starved) # {} => chains' = chains]_scanning
      OBVIOUS
    <2>1. CASE setup.verb = "scan"
      BY <2>1, ScansApart, StepKeeps DEF ScansInv
    <2>2. CASE setup.verb # "scan"
      BY <2>2, ScansApart
    <2>. QED BY <2>1, <2>2
  <1>. QED BY <1>1, WholeInvariant, PTL DEF Spec, SpentStaysSpent

-------------------------------------------------------------------------------
(* The shape of the tree while no other program disturbs it: everything is  *)
(* in directories, a directory has one name, and those this run made are    *)
(* where it made them.                                                      *)

IsPath(p) == p \in Seq(Range(p))

Stands(d, n, p, id) == Folded(p) \in DOMAIN d /\ d[Folded(p)] = id /\ n[id].kind = "dir"

InDirs == \A q \in DOMAIN disk : \A r \in Parents(q) : r \in DOMAIN disk /\ inode[disk[r]].kind = "dir"
DirsOnce == \A q, r \in DOMAIN disk : disk[q] = disk[r] /\ inode[disk[q]].kind = "dir" => q = r
DirsStand == \A p \in DOMAIN made.dirs : Stands(disk, inode, p, made.dirs[p])
TreeSound == KindsOK /\ InDirs /\ DirsOnce
Shape == TreeSound /\ DirsStand

(* Directories that keep themselves from being opened.                      *)
Shut == {q \in DOMAIN disk : inode[disk[q]].kind = "dir" /\ inode[disk[q]].data \in Locking}

(* Those of dest itself, which nothing is unpacked below.                   *)
HeldShut == {q \in DOMAIN setup.holds : setup.holds[q].kind = "dir"
                                          /\ setup.holds[q].data \in Locking}

LEMMA PrefixIs ==
  ASSUME NEW p, IsPath(p), NEW k \in 1 .. Len(p) - 1
  PROVE  /\ IsPath(SubSeq(p, 1, k)) /\ Len(SubSeq(p, 1, k)) = k /\ k < Len(p) /\ Len(p) \in Nat
         /\ DOMAIN SubSeq(p, 1, k) = 1 .. k /\ 1 .. k \subseteq DOMAIN p
         /\ \A j \in 1 .. k : SubSeq(p, 1, k)[j] = p[j]
  <1>. DEFINE T == Range(p)
              r == SubSeq(p, 1, k)
  <1>1. p \in Seq(T) /\ Len(p) \in Nat /\ DOMAIN p = 1 .. Len(p)
    BY DEF IsPath
  <1>. HIDE DEF T
  <1>2. r \in Seq(T) /\ Len(r) = k /\ DOMAIN r = 1 .. k /\ \A j \in 1 .. k : r[j] = p[j]
    BY <1>1
  <1>3. k < Len(p) /\ 1 .. k \subseteq DOMAIN p
    BY <1>1
  <1>. HIDE DEF r
  <1>4. r \in [1 .. k -> Range(r)] /\ k \in Nat
    BY <1>2 DEF Range
  <1>5. r \in Seq(Range(r))
    BY <1>4
  <1>. QED BY <1>1, <1>2, <1>3, <1>5 DEF r, IsPath

LEMMA FoldedIs ==
  ASSUME NEW p, IsPath(p)
  PROVE  /\ IsPath(Folded(p)) /\ Len(Folded(p)) = Len(p) /\ Len(p) \in Nat
         /\ DOMAIN Folded(p) = 1 .. Len(p) /\ DOMAIN p = 1 .. Len(p)
  <1>. DEFINE f == Folded(p)
  <1>1. Len(p) \in Nat /\ DOMAIN p = 1 .. Len(p)
    BY DEF IsPath
  <1>2. f = [k \in 1 .. Len(p) |-> [t \in DOMAIN p[k] |-> setup.fold[p[k][t]]]]
    BY <1>1 DEF Folded, FoldedBy
  <1>3. f \in [1 .. Len(p) -> Range(f)]
    BY <1>2 DEF Range
  <1>. HIDE DEF f
  <1>4. f \in Seq(Range(f)) /\ Len(f) = Len(p) /\ DOMAIN f = 1 .. Len(p)
    BY <1>1, <1>3
  <1>. QED BY <1>1, <1>4 DEF f, IsPath

LEMMA FoldedPrefix ==
  ASSUME NEW p, IsPath(p), NEW k \in 1 .. Len(p) - 1
  PROVE  SubSeq(Folded(p), 1, k) = Folded(SubSeq(p, 1, k))
  <1>. DEFINE r == SubSeq(p, 1, k)
              f == Folded(p)
              g == SubSeq(f, 1, k)
              h == Folded(r)
  <1>1. IsPath(f) /\ Len(f) = Len(p) /\ k \in 1 .. Len(f) - 1
    BY FoldedIs
  <1>2. IsPath(g) /\ Len(g) = k /\ DOMAIN g = 1 .. k /\ \A j \in 1 .. k : g[j] = f[j]
    BY <1>1, PrefixIs
  <1>3. IsPath(r) /\ Len(r) = k /\ \A j \in 1 .. k : j \in DOMAIN p /\ j \in DOMAIN r /\ r[j] = p[j]
    BY PrefixIs
  <1>4. IsPath(h) /\ Len(h) = k /\ DOMAIN h = 1 .. k
    BY <1>3, FoldedIs
  <1>5. \A j \in 1 .. k : f[j] = h[j]
    BY <1>3 DEF Folded, FoldedBy
  <1>. HIDE DEF f, g, h
  <1>6. g \in [1 .. k -> Range(g)] /\ h \in [1 .. k -> Range(h)]
    BY <1>2, <1>4 DEF IsPath
  <1>7. \A j \in 1 .. k : g[j] = h[j]
    BY <1>2, <1>5
  <1>8. g = h
    BY <1>6, <1>7
  <1>. QED BY <1>8 DEF g, h, f

LEMMA FoldedParents ==
  ASSUME NEW p, IsPath(p)
  PROVE  Parents(Folded(p)) = {Folded(r) : r \in Parents(p)}
  <1>1. Len(Folded(p)) = Len(p)
    BY FoldedIs
  <1>2. \A k \in 1 .. Len(p) - 1 : SubSeq(Folded(p), 1, k) = Folded(SubSeq(p, 1, k))
    BY FoldedPrefix
  <1>. QED BY <1>1, <1>2 DEF Parents

LEMMA ParentIs ==
  ASSUME NEW p, IsPath(p), NEW r \in Parents(p)
  PROVE  /\ IsPath(r) /\ Len(r) < Len(p) /\ Len(r) \in Nat /\ Len(p) \in Nat
         /\ \A k \in DOMAIN r : k \in DOMAIN p /\ r[k] = p[k]
         /\ Parents(r) \subseteq Parents(p)
         /\ Folded(r) # Folded(p) /\ r # p
         /\ Len(Folded(r)) = Len(r) /\ Len(Folded(p)) = Len(p)
  <1>1. PICK k \in 1 .. Len(p) - 1 : r = SubSeq(p, 1, k)
    BY DEF Parents
  <1>2. /\ IsPath(r) /\ Len(r) = k /\ k < Len(p) /\ Len(p) \in Nat /\ k \in Nat
        /\ \A j \in DOMAIN r : j \in DOMAIN p /\ r[j] = p[j]
    BY <1>1, PrefixIs
  <1>3. Len(Folded(r)) = Len(r) /\ Len(Folded(p)) = Len(p)
    BY <1>2, FoldedIs
  <1>4. ASSUME NEW j \in 1 .. Len(r) - 1
        PROVE  SubSeq(r, 1, j) = SubSeq(p, 1, j) /\ j \in 1 .. Len(p) - 1
    <2>. DEFINE a == SubSeq(r, 1, j)
                b == SubSeq(p, 1, j)
    <2>1. j \in 1 .. Len(p) - 1
      BY <1>2
    <2>2. IsPath(a) /\ DOMAIN a = 1 .. j /\ 1 .. j \subseteq DOMAIN r /\ \A i \in 1 .. j : a[i] = r[i]
      BY <1>2, PrefixIs
    <2>3. IsPath(b) /\ DOMAIN b = 1 .. j /\ \A i \in 1 .. j : b[i] = p[i]
      BY <2>1, PrefixIs
    <2>. HIDE DEF a, b
    <2>4. \A i \in 1 .. j : a[i] = b[i]
      BY <1>2, <2>2, <2>3
    <2>5. a \in [1 .. j -> Range(a)] /\ b \in [1 .. j -> Range(b)]
      BY <2>2, <2>3 DEF IsPath
    <2>6. a = b
      BY <2>4, <2>5
    <2>. QED BY <2>1, <2>6 DEF a, b
  <1>5. Parents(r) \subseteq Parents(p)
    BY <1>4 DEF Parents
  <1>. QED BY <1>2, <1>3, <1>5

LEMMA ParentsApart ==
  ASSUME NEW p, IsPath(p), NEW r \in Parents(p), NEW s \in Parents(p), Folded(r) = Folded(s)
  PROVE  r = s
  <1>1. PICK k \in 1 .. Len(p) - 1 : r = SubSeq(p, 1, k)
    BY DEF Parents
  <1>2. PICK j \in 1 .. Len(p) - 1 : s = SubSeq(p, 1, j)
    BY DEF Parents
  <1>3. Len(Folded(r)) = k /\ Len(Folded(s)) = j
    BY <1>1, <1>2, PrefixIs, FoldedIs
  <1>. QED BY <1>1, <1>2, <1>3


(* What place leaves of the tree when it proceeds, before anything is at p. *)
LEMMA PlacedShape ==
  ASSUME DestinationTypeOK, TreeSound, NEW p, IsPath(p), Clear(p),
         NEW S, MissingParents(p) \subseteq S, NEW fresh \in Fresh(S, Cleared(p))
  PROVE  /\ \A q \in DOMAIN disk : inode[disk[q]].kind = "dir" => q \in DOMAIN Cleared(p)
         /\ \A q \in DOMAIN Cleared(p) :
              /\ q \in DOMAIN disk /\ q \in DOMAIN PlacedDisk(p, fresh)
              /\ PlacedDisk(p, fresh)[q] = disk[q]
              /\ PlacedInode(p, fresh)[disk[q]] = inode[disk[q]]
              /\ \A s \in S : fresh[s] # disk[q]
         /\ \A q \in DOMAIN PlacedDisk(p, fresh) :
              \/ q \in DOMAIN Cleared(p)
              \/ \E r \in MissingParents(p) : q = Folded(r)
         /\ \A r \in MissingParents(p) :
              /\ Folded(r) \in DOMAIN PlacedDisk(p, fresh)
              /\ PlacedDisk(p, fresh)[Folded(r)] = fresh[r]
              /\ fresh[r] \in Inos /\ PlacedInode(p, fresh)[fresh[r]] = FreshDir
  <1>1. ASSUME NEW q \in DOMAIN disk, inode[disk[q]].kind = "dir"
        PROVE  q \in DOMAIN Cleared(p)
    <2>1. CASE IsOther(p)
      <3>1. q # Folded(p)
        BY <1>1, <2>1, ThereAt DEF IsOther
      <3>. QED BY <2>1, <3>1 DEF Cleared, Restrict
    <2>. QED BY <2>1 DEF Cleared
  <1>2. ASSUME NEW q \in DOMAIN Cleared(p)
        PROVE  /\ q \in DOMAIN disk /\ q \in DOMAIN PlacedDisk(p, fresh)
               /\ PlacedDisk(p, fresh)[q] = disk[q]
               /\ PlacedInode(p, fresh)[disk[q]] = inode[disk[q]]
               /\ \A s \in S : fresh[s] # disk[q]
    <2>1. q \in DOMAIN disk
      BY DEF Cleared, Restrict
    <2>2. inode[disk[q]].kind # "none"
      BY <2>1 DEF TreeSound, KindsOK
    <2>. QED BY <2>1, <2>2, PlaceSpares
  <1>3. ASSUME NEW q \in DOMAIN PlacedDisk(p, fresh)
        PROVE  q \in DOMAIN Cleared(p) \/ \E r \in MissingParents(p) : q = Folded(r)
    BY DEF PlacedDisk, Over
  <1>4. ASSUME NEW r \in MissingParents(p)
        PROVE  /\ Folded(r) \in DOMAIN PlacedDisk(p, fresh)
               /\ PlacedDisk(p, fresh)[Folded(r)] = fresh[r]
               /\ fresh[r] \in Inos /\ PlacedInode(p, fresh)[fresh[r]] = FreshDir
    <2>1. r \in Parents(p) /\ \A s \in MissingParents(p) : s \in Parents(p)
      BY DEF MissingParents
    <2>2. \A s \in MissingParents(p) : Folded(s) = Folded(r) => s = r
      BY <2>1, ParentsApart
    <2>3. (CHOOSE s \in MissingParents(p) : Folded(s) = Folded(r)) = r
      BY <2>2
    <2>4. Folded(r) \in DOMAIN PlacedDisk(p, fresh) /\ PlacedDisk(p, fresh)[Folded(r)] = fresh[r]
      BY <2>3 DEF PlacedDisk, Over
    <2>5. fresh[r] \in Inos
      BY DEF Fresh, Free
    <2>6. PlacedInode(p, fresh)[fresh[r]] = FreshDir
      BY <2>5 DEF PlacedInode
    <2>. QED BY <2>4, <2>5, <2>6
  <1>. QED BY <1>1, <1>2, <1>3, <1>4

(* What lies above what place makes, or p itself, is a directory by then.   *)
LEMMA PlacedAbove ==
  ASSUME DestinationTypeOK, TreeSound, NEW p, IsPath(p), Clear(p),
         NEW S, MissingParents(p) \subseteq S, NEW fresh \in Fresh(S, Cleared(p))
  PROVE  /\ \A q \in DOMAIN PlacedDisk(p, fresh) : \A r \in Parents(q) :
              /\ r \in DOMAIN PlacedDisk(p, fresh)
              /\ PlacedInode(p, fresh)[PlacedDisk(p, fresh)[r]].kind = "dir"
         /\ ~NameRefused(p) => \A r \in Parents(Folded(p)) :
              /\ r \in DOMAIN PlacedDisk(p, fresh)
              /\ PlacedInode(p, fresh)[PlacedDisk(p, fresh)[r]].kind = "dir"
         /\ ~IsDir(p) => Folded(p) \notin DOMAIN PlacedDisk(p, fresh)
  <1>. DEFINE d == PlacedDisk(p, fresh)
              n == PlacedInode(p, fresh)
  <1>1. /\ \A q \in DOMAIN disk : inode[disk[q]].kind = "dir" => q \in DOMAIN Cleared(p)
        /\ \A q \in DOMAIN Cleared(p) :
             /\ q \in DOMAIN disk /\ q \in DOMAIN d
             /\ d[q] = disk[q] /\ n[disk[q]] = inode[disk[q]]
        /\ \A q \in DOMAIN d :
             q \in DOMAIN Cleared(p) \/ \E r \in MissingParents(p) : q = Folded(r)
        /\ \A r \in MissingParents(p) :
             Folded(r) \in DOMAIN d /\ d[Folded(r)] = fresh[r] /\ n[fresh[r]] = FreshDir
    BY PlacedShape
  <1>. HIDE DEF d, n
  <1>2. ASSUME NEW q \in DOMAIN disk, inode[disk[q]].kind = "dir"
        PROVE  q \in DOMAIN d /\ n[d[q]].kind = "dir"
    BY <1>1, <1>2
  <1>3. ASSUME NEW r \in Parents(p), r \in MissingParents(p) \/ There(r).kind # "none"
        PROVE  Folded(r) \in DOMAIN d /\ n[d[Folded(r)]].kind = "dir"
    <2>1. CASE r \in MissingParents(p)
      BY <1>1, <2>1 DEF FreshDir
    <2>2. CASE There(r).kind # "none"
      <3>1. Folded(r) \in DOMAIN disk /\ There(r) = inode[disk[Folded(r)]]
        BY <2>2, ThereSomething, ThereAt
      <3>2. ~IsOther(r)
        BY DEF Clear, Blockers
      <3>3. inode[disk[Folded(r)]].kind = "dir"
        BY <3>1, <3>2 DEF TreeSound, KindsOK, IsOther
      <3>. QED BY <1>2, <3>1, <3>3
    <2>. QED BY <1>3, <2>1, <2>2
  <1>4. ASSUME NEW q \in DOMAIN d, NEW r \in Parents(q)
        PROVE  r \in DOMAIN d /\ n[d[r]].kind = "dir"
    <2>1. CASE q \in DOMAIN Cleared(p)
      <3>1. q \in DOMAIN disk
        BY <1>1, <2>1
      <3>2. r \in DOMAIN disk /\ inode[disk[r]].kind = "dir"
        BY <3>1 DEF TreeSound, InDirs
      <3>. QED BY <1>2, <3>2
    <2>2. CASE \E s \in MissingParents(p) : q = Folded(s)
      <3>1. PICK s \in MissingParents(p) : q = Folded(s)
        BY <2>2
      <3>2. s \in Parents(p) /\ \A k \in DOMAIN s : s[k] \notin Refused
        BY DEF MissingParents
      <3>3. IsPath(s) /\ Parents(s) \subseteq Parents(p)
        BY <3>2, ParentIs
      <3>4. PICK t \in Parents(s) : r = Folded(t)
        BY <3>1, <3>3, FoldedParents
      <3>5. t \in Parents(p) /\ \A k \in DOMAIN t : k \in DOMAIN s /\ t[k] = s[k]
        BY <3>3, ParentIs
      <3>6. \A k \in DOMAIN t : t[k] \notin Refused
        BY <3>2, <3>5
      <3>7. t \in MissingParents(p) \/ There(t).kind # "none"
        BY <3>5, <3>6 DEF MissingParents
      <3>. QED BY <1>3, <3>4, <3>5, <3>7
    <2>. QED BY <1>1, <2>1, <2>2
  <1>5. ASSUME ~NameRefused(p), NEW r \in Parents(Folded(p))
        PROVE  r \in DOMAIN d /\ n[d[r]].kind = "dir"
    <2>1. PICK t \in Parents(p) : r = Folded(t)
      BY FoldedParents
    <2>2. \A k \in DOMAIN t : k \in DOMAIN p /\ t[k] = p[k]
      BY ParentIs
    <2>3. \A k \in DOMAIN t : t[k] \notin Refused
      BY <1>5, <2>2 DEF NameRefused
    <2>4. t \in MissingParents(p) \/ There(t).kind # "none"
      BY <2>3 DEF MissingParents
    <2>. QED BY <1>3, <2>1, <2>4
  <1>6. ASSUME ~IsDir(p), Folded(p) \in DOMAIN d
        PROVE  FALSE
    <2>1. CASE Folded(p) \in DOMAIN Cleared(p)
      <3>1. Folded(p) \in DOMAIN disk
        BY <1>1, <2>1
      <3>2. ~IsOther(p)
        BY <2>1 DEF Cleared, Restrict
      <3>. QED BY <1>6, <3>1, <3>2, NothingThere DEF TreeSound
    <2>2. CASE \E r \in MissingParents(p) : Folded(p) = Folded(r)
      <3>1. PICK r \in MissingParents(p) : Folded(p) = Folded(r)
        BY <2>2
      <3>2. r \in Parents(p)
        BY DEF MissingParents
      <3>. QED BY <3>1, <3>2, ParentIs
    <2>. QED BY <1>1, <1>6, <2>1, <2>2
  <1>. QED BY <1>4, <1>5, <1>6 DEF d, n

(* What the run's record of directories holds once the parents are made.    *)
LEMMA PlacedDirs ==
  ASSUME NEW p, NEW fresh, NEW r \in DOMAIN PlacedMade(p, fresh).dirs
  PROVE  \/ r \in MissingParents(p) /\ PlacedMade(p, fresh).dirs[r] = fresh[r]
         \/ r \in DOMAIN made.dirs /\ PlacedMade(p, fresh).dirs[r] = made.dirs[r]
  <1>1. PlacedMade(p, fresh).dirs = Over([q \in MissingParents(p) |-> fresh[q]], made.dirs)
    BY DEF PlacedMade
  <1>. QED BY <1>1 DEF Over


(* A step that keeps the directories, and makes others only as mkdir does,  *)
(* each under one name, and everything new in directories.                  *)
InDirsAfter(q) == \A r \in Parents(q) : r \in DOMAIN disk' /\ inode'[disk'[r]].kind = "dir"
Reshapes ==
  /\ setup' = setup
  /\ \A q \in DOMAIN disk : inode[disk[q]].kind = "dir" =>
        q \in DOMAIN disk' /\ disk'[q] = disk[q] /\ inode'[disk[q]] = inode[disk[q]]
  /\ \A q \in DOMAIN disk' :
        \/ q \in DOMAIN disk /\ disk'[q] = disk[q] /\ inode'[disk'[q]] = inode[disk[q]]
        \/ inode'[disk'[q]].kind \in {"file", "link"} /\ InDirsAfter(q)
        \/ /\ inode'[disk'[q]] = FreshDir /\ InDirsAfter(q)
           /\ \A r \in DOMAIN disk' : disk'[r] = disk'[q] => r = q
  /\ \A p \in DOMAIN made'.dirs :
        \/ p \in DOMAIN made.dirs /\ made'.dirs[p] = made.dirs[p]
        \/ Stands(disk', inode', p, made'.dirs[p])

(* It leaves the tree in shape, every directory where it was, and no        *)
(* directory shut that was not.                                             *)
StillStands == \A p, id : Stands(disk, inode, p, id) => Stands(disk', inode', p, id)
Tidy ==
  /\ setup' = setup /\ TreeSound' /\ (DirsStand => DirsStand')
  /\ Shut' \subseteq Shut /\ StillStands

LEMMA Reshaped ==
  ASSUME TreeSound, Reshapes, DestinationTypeOK'
  PROVE  Tidy
  <1>1. \A q \in DOMAIN disk : inode[disk[q]].kind = "dir" =>
          q \in DOMAIN disk' /\ disk'[q] = disk[q] /\ inode'[disk[q]] = inode[disk[q]]
    BY DEF Reshapes
  <1>2. KindsOK'
    BY DEF Reshapes, TreeSound, KindsOK, FreshDir
  <1>3. StillStands
    BY <1>1 DEF StillStands, Stands
  <1>4. InDirs'
    <2>1. ASSUME NEW q \in DOMAIN disk' PROVE InDirsAfter(q)
      <3>1. CASE q \in DOMAIN disk
        <4>1. \A r \in Parents(q) : r \in DOMAIN disk /\ inode[disk[r]].kind = "dir"
          BY <3>1 DEF TreeSound, InDirs
        <4>. QED BY <1>1, <4>1 DEF InDirsAfter
      <3>. QED BY <2>1, <3>1 DEF Reshapes
    <2>. QED BY <2>1 DEF InDirs, InDirsAfter
  <1>5. DirsOnce'
    <2>1. ASSUME NEW q \in DOMAIN disk', NEW r \in DOMAIN disk', disk'[q] = disk'[r],
                 inode'[disk'[q]].kind = "dir"
          PROVE  q = r
      <3>1. CASE /\ q \in DOMAIN disk /\ disk'[q] = disk[q] /\ inode'[disk'[q]] = inode[disk[q]]
                 /\ r \in DOMAIN disk /\ disk'[r] = disk[r]
        BY <2>1, <3>1 DEF TreeSound, DirsOnce
      <3>2. CASE \A s \in DOMAIN disk' : disk'[s] = disk'[q] => s = q
        BY <2>1, <3>2
      <3>3. CASE \A s \in DOMAIN disk' : disk'[s] = disk'[r] => s = r
        BY <2>1, <3>3
      <3>. QED BY <2>1, <3>1, <3>2, <3>3 DEF Reshapes
    <2>. QED BY <2>1 DEF DirsOnce
  <1>6. ASSUME DirsStand PROVE DirsStand'
    <2>1. ASSUME NEW p \in DOMAIN made'.dirs PROVE Stands(disk', inode', p, made'.dirs[p])
      <3>1. CASE p \in DOMAIN made.dirs /\ made'.dirs[p] = made.dirs[p]
        <4>1. Stands(disk, inode, p, made.dirs[p])
          BY <1>6, <3>1 DEF DirsStand
        <4>. QED BY <3>1, <4>1, <1>3 DEF StillStands
      <3>. QED BY <3>1 DEF Reshapes
    <2>2. setup' = setup
      BY DEF Reshapes
    <2>. QED BY <2>1, <2>2 DEF DirsStand, Stands, Folded
  <1>7. Shut' \subseteq Shut
    <2>1. ASSUME NEW q \in DOMAIN disk', inode'[disk'[q]].kind = "dir",
                 inode'[disk'[q]].data \in Locking
          PROVE  q \in Shut
      <3>1. inode'[disk'[q]] # FreshDir
        BY <2>1, Searchable DEF FreshDir
      <3>2. q \in DOMAIN disk /\ inode'[disk'[q]] = inode[disk[q]]
        BY <2>1, <3>1 DEF Reshapes
      <3>. QED BY <2>1, <3>2 DEF Shut
    <2>. QED BY <2>1 DEF Shut
  <1>. QED BY <1>2, <1>3, <1>4, <1>5, <1>6, <1>7 DEF Tidy, TreeSound, Reshapes

LEMMA UnchangedTidy ==
  ASSUME TreeSound, UNCHANGED <<setup, disk, inode>>, made'.dirs = made.dirs, DestinationTypeOK'
  PROVE  Tidy
  <1>1. Reshapes
    BY DEF Reshapes
  <1>. QED BY <1>1, Reshaped

LEMMA MakeParentsTidy ==
  ASSUME DestinationTypeOK, TreeSound, NEW p, IsPath(p), Clear(p), MakeParentsOnly(p),
         DestinationTypeOK'
  PROVE  Tidy
  <1>. DEFINE S == MissingParents(p)
  <1>1. PICK fresh \in Fresh(S, Cleared(p)) :
          /\ disk' = PlacedDisk(p, fresh) /\ inode' = PlacedInode(p, fresh)
          /\ made' = PlacedMade(p, fresh) /\ UNCHANGED <<setup, away, archive>>
    BY DEF MakeParentsOnly
  <1>2. MissingParents(p) \subseteq S /\ \A r, s \in S : r # s => fresh[r] # fresh[s]
    BY DEF Fresh
  <1>. HIDE DEF S
  <1>3. /\ \A q \in DOMAIN disk : inode[disk[q]].kind = "dir" => q \in DOMAIN Cleared(p)
        /\ \A q \in DOMAIN Cleared(p) :
             /\ q \in DOMAIN disk /\ q \in DOMAIN disk'
             /\ disk'[q] = disk[q] /\ inode'[disk[q]] = inode[disk[q]]
             /\ \A s \in S : fresh[s] # disk[q]
        /\ \A q \in DOMAIN disk' :
             q \in DOMAIN Cleared(p) \/ \E r \in MissingParents(p) : q = Folded(r)
        /\ \A r \in MissingParents(p) :
             Folded(r) \in DOMAIN disk' /\ disk'[Folded(r)] = fresh[r] /\ inode'[fresh[r]] = FreshDir
    BY <1>1, <1>2, PlacedShape
  <1>4. \A q \in DOMAIN disk' : InDirsAfter(q)
    BY <1>1, <1>2, PlacedAbove DEF InDirsAfter
  <1>5. ASSUME NEW q \in DOMAIN disk'
        PROVE  \/ q \in DOMAIN disk /\ disk'[q] = disk[q] /\ inode'[disk'[q]] = inode[disk[q]]
               \/ /\ inode'[disk'[q]] = FreshDir /\ InDirsAfter(q)
                  /\ \A r \in DOMAIN disk' : disk'[r] = disk'[q] => r = q
    <2>1. CASE q \in DOMAIN Cleared(p)
      BY <1>3, <2>1
    <2>2. CASE \E r \in MissingParents(p) : q = Folded(r)
      <3>1. PICK r \in MissingParents(p) : q = Folded(r)
        BY <2>2
      <3>2. disk'[q] = fresh[r] /\ inode'[disk'[q]] = FreshDir /\ r \in S
        BY <1>2, <1>3, <3>1
      <3>3. ASSUME NEW t \in DOMAIN disk', disk'[t] = disk'[q]
            PROVE  t = q
        <4>1. t \notin DOMAIN Cleared(p)
          BY <1>3, <3>2, <3>3
        <4>2. PICK s \in MissingParents(p) : t = Folded(s)
          BY <1>3, <4>1
        <4>3. fresh[s] = fresh[r] /\ s \in S
          BY <1>2, <1>3, <3>2, <3>3, <4>2
        <4>. QED BY <1>2, <3>1, <3>2, <4>2, <4>3
      <3>. QED BY <1>4, <3>2, <3>3
    <2>. QED BY <1>3, <2>1, <2>2
  <1>6. ASSUME NEW r \in DOMAIN made'.dirs
        PROVE  \/ r \in DOMAIN made.dirs /\ made'.dirs[r] = made.dirs[r]
               \/ Stands(disk', inode', r, made'.dirs[r])
    <2>1. CASE r \in MissingParents(p) /\ made'.dirs[r] = fresh[r]
      BY <1>3, <2>1 DEF Stands, FreshDir
    <2>. QED BY <1>1, <1>6, <2>1, PlacedDirs
  <1>7. Reshapes
    BY <1>1, <1>3, <1>5, <1>6 DEF Reshapes
  <1>. QED BY <1>7, Reshaped


LEMMA MakeAtTidy ==
  ASSUME DestinationTypeOK, TreeSound, NEW p, IsPath(p), Clear(p), ~IsDir(p), ~NameRefused(p),
         NEW node, NEW kind, NEW isNew \in BOOLEAN,
         node = FreshDir \/ (node.kind \in {"file", "link"} /\ ~isNew),
         MakeAt(p, node, kind, isNew), DestinationTypeOK'
  PROVE  Tidy
  <1>. DEFINE S == MissingParents(p) \cup {p}
  <1>1. PICK fresh \in Fresh(S, Cleared(p)) :
          /\ disk' = Put(PlacedDisk(p, fresh), Folded(p), fresh[p])
          /\ inode' = [PlacedInode(p, fresh) EXCEPT ![fresh[p]] = node]
          /\ made' = IF kind = "none" THEN PlacedMade(p, fresh)
                     ELSE LET m == Recorded(PlacedMade(p, fresh), p, kind,
                                            IF kind = "link" THEN node.data ELSE <<>>, fresh[p])
                          IN  [m EXCEPT !.dirs = IF isNew THEN Put(@, p, fresh[p]) ELSE @]
          /\ UNCHANGED <<setup, away, archive>>
    BY DEF MakeAt
  <1>2. /\ MissingParents(p) \subseteq S /\ p \in S
        /\ \A r, s \in S : r # s => fresh[r] # fresh[s]
        /\ \A r \in MissingParents(p) : r # p
    <2>1. \A r \in MissingParents(p) : r \in Parents(p)
      BY DEF MissingParents
    <2>2. \A r \in MissingParents(p) : r # p
      BY <2>1, ParentIs
    <2>. QED BY <2>2 DEF Fresh
  <1>. HIDE DEF S
  <1>. DEFINE m == PlacedMade(p, fresh)
              d == PlacedDisk(p, fresh)
              n == PlacedInode(p, fresh)
  <1>3. /\ \A q \in DOMAIN disk : inode[disk[q]].kind = "dir" => q \in DOMAIN Cleared(p)
        /\ \A q \in DOMAIN Cleared(p) :
             /\ q \in DOMAIN disk /\ q \in DOMAIN d
             /\ d[q] = disk[q] /\ n[disk[q]] = inode[disk[q]]
             /\ \A s \in S : fresh[s] # disk[q]
        /\ \A q \in DOMAIN d :
             q \in DOMAIN Cleared(p) \/ \E r \in MissingParents(p) : q = Folded(r)
        /\ \A r \in MissingParents(p) :
             Folded(r) \in DOMAIN d /\ d[Folded(r)] = fresh[r]
             /\ fresh[r] \in Inos /\ n[fresh[r]] = FreshDir
    BY <1>2, PlacedShape
  <1>4. /\ \A q \in DOMAIN d : \A r \in Parents(q) : r \in DOMAIN d /\ n[d[r]].kind = "dir"
        /\ \A r \in Parents(Folded(p)) : r \in DOMAIN d /\ n[d[r]].kind = "dir"
        /\ Folded(p) \notin DOMAIN d
    BY <1>2, PlacedAbove
  <1>5. fresh[p] \in Inos /\ DOMAIN n = Inos /\ d \in [DOMAIN d -> Inos]
    BY <1>2, PlaceTypes
  <1>6. \A r \in DOMAIN m.dirs :
          \/ r \in MissingParents(p) /\ m.dirs[r] = fresh[r]
          \/ r \in DOMAIN made.dirs /\ m.dirs[r] = made.dirs[r]
    BY PlacedDirs
  <1>7. made'.dirs = m.dirs \/ (isNew /\ made'.dirs = Put(m.dirs, p, fresh[p]))
    <2>1. CASE kind = "none"
      BY <1>1, <2>1
    <2>2. CASE kind # "none"
      <3>. DEFINE data == IF kind = "link" THEN node.data ELSE <<>>
                  at == Put(m.at, p, [kind |-> kind, data |-> data, id |-> fresh[p]])
                  w == IF isNew THEN Put(m.dirs, p, fresh[p]) ELSE m.dirs
      <3>1. made' = [at |-> at, ids |-> m.ids \cup {fresh[p]}, dirs |-> w]
        BY <1>1, <2>2 DEF Recorded
      <3>. HIDE DEF at, m
      <3>2. made'.dirs = w
        BY <3>1
      <3>. QED BY <3>2
    <2>. QED BY <2>1, <2>2
  <1>. HIDE DEF m, d, n
  <1>8. disk' = Put(d, Folded(p), fresh[p]) /\ inode' = [n EXCEPT ![fresh[p]] = node]
    BY <1>1 DEF d, n
  <1>9. /\ DOMAIN disk' = DOMAIN d \cup {Folded(p)} /\ disk'[Folded(p)] = fresh[p]
        /\ \A q \in DOMAIN d : disk'[q] = d[q]
        /\ inode'[fresh[p]] = node
        /\ \A i \in Inos : i # fresh[p] => inode'[i] = n[i]
    BY <1>4, <1>5, <1>8 DEF Put
  <1>10. ASSUME NEW q \in DOMAIN d PROVE d[q] # fresh[p] /\ inode'[disk'[q]] = n[d[q]]
    <2>1. d[q] # fresh[p]
      <3>1. CASE q \in DOMAIN Cleared(p)
        BY <1>2, <1>3, <3>1
      <3>2. CASE \E r \in MissingParents(p) : q = Folded(r)
        BY <1>2, <1>3, <3>2
      <3>. QED BY <1>3, <3>1, <3>2
    <2>. QED BY <1>5, <1>9, <2>1
  <1>11. \A q \in DOMAIN disk' : InDirsAfter(q)
    <2>1. ASSUME NEW r \in DOMAIN d, n[d[r]].kind = "dir"
          PROVE  r \in DOMAIN disk' /\ inode'[disk'[r]].kind = "dir"
      BY <1>9, <1>10, <2>1
    <2>. QED BY <1>4, <1>9, <2>1 DEF InDirsAfter
  <1>12. \A q \in DOMAIN disk : inode[disk[q]].kind = "dir" =>
           q \in DOMAIN disk' /\ disk'[q] = disk[q] /\ inode'[disk[q]] = inode[disk[q]]
    BY <1>3, <1>9, <1>10
  <1>13. ASSUME NEW q \in DOMAIN disk'
         PROVE  \/ q \in DOMAIN disk /\ disk'[q] = disk[q] /\ inode'[disk'[q]] = inode[disk[q]]
                \/ inode'[disk'[q]].kind \in {"file", "link"} /\ InDirsAfter(q)
                \/ /\ inode'[disk'[q]] = FreshDir /\ InDirsAfter(q)
                   /\ \A r \in DOMAIN disk' : disk'[r] = disk'[q] => r = q
    <2>1. CASE q \in DOMAIN Cleared(p)
      BY <1>3, <1>9, <1>10, <2>1
    <2>2. CASE \E r \in MissingParents(p) : q = Folded(r)
      <3>1. PICK r \in MissingParents(p) : q = Folded(r)
        BY <2>2
      <3>2. disk'[q] = fresh[r] /\ inode'[disk'[q]] = FreshDir /\ r \in S /\ q \in DOMAIN d
        BY <1>2, <1>3, <1>9, <1>10, <3>1
      <3>3. ASSUME NEW t \in DOMAIN disk', disk'[t] = disk'[q]
            PROVE  t = q
        <4>1. t \notin DOMAIN Cleared(p)
          BY <1>3, <1>9, <3>2, <3>3
        <4>2. t # Folded(p)
          BY <1>2, <1>9, <3>2, <3>3
        <4>3. PICK s \in MissingParents(p) : t = Folded(s)
          BY <1>3, <1>9, <4>1, <4>2
        <4>4. fresh[s] = fresh[r] /\ s \in S
          BY <1>2, <1>3, <1>9, <3>2, <3>3, <4>3
        <4>. QED BY <1>2, <3>1, <3>2, <4>3, <4>4
      <3>. QED BY <1>11, <3>2, <3>3
    <2>3. CASE q = Folded(p)
      <3>1. disk'[q] = fresh[p] /\ inode'[disk'[q]] = node
        BY <1>9, <2>3
      <3>2. \A t \in DOMAIN disk' : disk'[t] = disk'[q] => t = q
        BY <1>9, <1>10, <2>3, <3>1
      <3>. QED BY <1>11, <3>1, <3>2
    <2>. QED BY <1>3, <1>9, <2>1, <2>2, <2>3
  <1>14. ASSUME NEW r \in DOMAIN made'.dirs
         PROVE  \/ r \in DOMAIN made.dirs /\ made'.dirs[r] = made.dirs[r]
                \/ Stands(disk', inode', r, made'.dirs[r])
    <2>1. ASSUME r \in MissingParents(p), made'.dirs[r] = fresh[r]
          PROVE  Stands(disk', inode', r, made'.dirs[r])
      BY <1>3, <1>9, <1>10, <2>1 DEF Stands, FreshDir
    <2>2. CASE r \in DOMAIN m.dirs /\ made'.dirs[r] = m.dirs[r]
      BY <1>6, <2>1, <2>2
    <2>3. CASE isNew /\ r = p /\ made'.dirs[r] = fresh[p]
      BY <1>9, <2>3 DEF Stands, FreshDir
    <2>. QED BY <1>7, <2>2, <2>3 DEF Put
  <1>15. Reshapes
    BY <1>1, <1>12, <1>13, <1>14 DEF Reshapes
  <1>. QED BY <1>15, Reshaped

LEMMA LinkToTidy ==
  ASSUME DestinationTypeOK, TreeSound, NEW p, IsPath(p), Clear(p), ~IsDir(p), ~NameRefused(p),
         NEW t, There(t).kind = "file", Folded(t) \in DOMAIN Cleared(p),
         NEW fresh \in Fresh(MissingParents(p), Cleared(p)), LinkTo(p, t, fresh),
         DestinationTypeOK'
  PROVE  Tidy
  <1>. DEFINE S == MissingParents(p)
  <1>1. fresh \in Fresh(S, Cleared(p)) /\ MissingParents(p) \subseteq S
        /\ \A r, s \in S : r # s => fresh[r] # fresh[s]
    BY DEF Fresh
  <1>. HIDE DEF S
  <1>. DEFINE m == PlacedMade(p, fresh)
              d == PlacedDisk(p, fresh)
              n == PlacedInode(p, fresh)
  <1>3. /\ \A q \in DOMAIN disk : inode[disk[q]].kind = "dir" => q \in DOMAIN Cleared(p)
        /\ \A q \in DOMAIN Cleared(p) :
             /\ q \in DOMAIN disk /\ q \in DOMAIN d
             /\ d[q] = disk[q] /\ n[disk[q]] = inode[disk[q]]
             /\ \A s \in S : fresh[s] # disk[q]
        /\ \A q \in DOMAIN d :
             q \in DOMAIN Cleared(p) \/ \E r \in MissingParents(p) : q = Folded(r)
        /\ \A r \in MissingParents(p) :
             Folded(r) \in DOMAIN d /\ d[Folded(r)] = fresh[r] /\ n[fresh[r]] = FreshDir
    BY <1>1, PlacedShape
  <1>4. /\ \A q \in DOMAIN d : \A r \in Parents(q) : r \in DOMAIN d /\ n[d[r]].kind = "dir"
        /\ \A r \in Parents(Folded(p)) : r \in DOMAIN d /\ n[d[r]].kind = "dir"
        /\ Folded(p) \notin DOMAIN d
    BY <1>1, PlacedAbove
  <1>5. \A r \in DOMAIN m.dirs :
          \/ r \in MissingParents(p) /\ m.dirs[r] = fresh[r]
          \/ r \in DOMAIN made.dirs /\ m.dirs[r] = made.dirs[r]
    BY PlacedDirs
  <1>6. Identity(t) = disk[Folded(t)] /\ inode[disk[Folded(t)]].kind = "file"
    BY ThereSomething, ThereAt
  <1>7. made'.dirs = m.dirs
    BY DEF LinkTo, Recorded
  <1>8. disk' = Put(d, Folded(p), disk[Folded(t)]) /\ inode' = n /\ setup' = setup
    BY <1>6 DEF LinkTo
  <1>. HIDE DEF m, d, n
  <1>9. /\ DOMAIN disk' = DOMAIN d \cup {Folded(p)} /\ disk'[Folded(p)] = disk[Folded(t)]
        /\ \A q \in DOMAIN d : disk'[q] = d[q]
    BY <1>4, <1>8 DEF Put
  <1>10. \A q \in DOMAIN disk' : InDirsAfter(q)
    BY <1>4, <1>8, <1>9 DEF InDirsAfter
  <1>11. \A q \in DOMAIN disk : inode[disk[q]].kind = "dir" =>
           q \in DOMAIN disk' /\ disk'[q] = disk[q] /\ inode'[disk[q]] = inode[disk[q]]
    BY <1>3, <1>8, <1>9
  <1>12. ASSUME NEW q \in DOMAIN disk'
         PROVE  \/ q \in DOMAIN disk /\ disk'[q] = disk[q] /\ inode'[disk'[q]] = inode[disk[q]]
                \/ inode'[disk'[q]].kind \in {"file", "link"} /\ InDirsAfter(q)
                \/ /\ inode'[disk'[q]] = FreshDir /\ InDirsAfter(q)
                   /\ \A r \in DOMAIN disk' : disk'[r] = disk'[q] => r = q
    <2>1. CASE q \in DOMAIN Cleared(p)
      BY <1>3, <1>8, <1>9, <2>1
    <2>2. CASE \E r \in MissingParents(p) : q = Folded(r)
      <3>1. PICK r \in MissingParents(p) : q = Folded(r)
        BY <2>2
      <3>2. disk'[q] = fresh[r] /\ inode'[disk'[q]] = FreshDir /\ r \in S
        BY <1>1, <1>3, <1>8, <1>9, <3>1
      <3>3. ASSUME NEW w \in DOMAIN disk', disk'[w] = disk'[q]
            PROVE  w = q
        <4>1. w \notin DOMAIN Cleared(p)
          BY <1>3, <1>9, <3>2, <3>3
        <4>2. w # Folded(p)
          BY <1>3, <1>9, <3>2, <3>3
        <4>3. PICK s \in MissingParents(p) : w = Folded(s)
          BY <1>3, <1>9, <4>1, <4>2
        <4>4. fresh[s] = fresh[r] /\ s \in S
          BY <1>1, <1>3, <1>9, <3>2, <3>3, <4>3
        <4>. QED BY <1>1, <3>1, <3>2, <4>3, <4>4
      <3>. QED BY <1>10, <3>2, <3>3
    <2>3. CASE q = Folded(p)
      BY <1>3, <1>6, <1>8, <1>9, <1>10, <2>3
    <2>. QED BY <1>3, <1>9, <2>1, <2>2, <2>3
  <1>13. ASSUME NEW r \in DOMAIN made'.dirs
         PROVE  \/ r \in DOMAIN made.dirs /\ made'.dirs[r] = made.dirs[r]
                \/ Stands(disk', inode', r, made'.dirs[r])
    <2>1. CASE r \in MissingParents(p) /\ made'.dirs[r] = fresh[r]
      BY <1>3, <1>8, <1>9, <2>1 DEF Stands, FreshDir
    <2>. QED BY <1>5, <1>7, <1>13, <2>1
  <1>14. Reshapes
    BY <1>8, <1>11, <1>12, <1>13 DEF Reshapes
  <1>. QED BY <1>14, Reshaped


(* An entry, arm by arm.                                                    *)
LEMMA ProceedsClear ==
  ASSUME NEW p, NEW placingDir, NEW force, Proceeds(p, placingDir, force)
  PROVE  Clear(p)
  BY DEF Proceeds, Held, Skipped, Clear

LEMMA NothingTidy ==
  ASSUME TreeSound, UNCHANGED destination, DestinationTypeOK'
  PROVE  Tidy
  <1>1. UNCHANGED <<setup, disk, inode, made>>
    BY DEF destination
  <1>. QED BY <1>1, UnchangedTidy

LEMMA NoNodeTidy ==
  ASSUME DestInv, TreeSound, DestinationTypeOK', NEW p, IsPath(p), Clear(p),
         RefusedName(p) \/ CreateFails(p) \/ MakeParentsOnly(p)
  PROVE  Tidy
  BY MakeParentsTidy DEF DestInv, RefusedName, CreateFails

LEMMA FileTidy ==
  ASSUME DestInv, TreeSound, DestinationTypeOK', NEW e, IsPath(PathOf[e.name]), FileEntry(e)
  PROVE  Tidy
  <1>. DEFINE p == PathOf[e.name]
  <1>0. DestinationTypeOK
    BY DEF DestInv
  <1>1. CASE Declined(p, FALSE)
    BY <1>1, NothingTidy DEF Declined
  <1>2. CASE Proceeds(p, FALSE, Forced)
    <2>1. Clear(p) /\ ~IsDir(p)
      BY <1>2, ProceedsClear, ProceedsToNoDir
    <2>2. CASE RefusedName(p) \/ CreateFails(p)
      BY <2>1, <2>2, NoNodeTidy
    <2>3. ASSUME ~NameRefused(p), NEW data, NEW kind,
                 MakeAt(p, [kind |-> "file", data |-> data], kind, FALSE)
          PROVE  Tidy
      BY <1>0, <2>1, <2>3, MakeAtTidy
    <2>. QED BY <1>1, <1>2, <2>2, <2>3 DEF FileEntry
  <1>. QED BY <1>1, <1>2 DEF FileEntry

LEMMA SymlinkTidy ==
  ASSUME DestInv, TreeSound, DestinationTypeOK', NEW e, NEW p, IsPath(p), NEW text,
         PlaceSymlink(e, p, text)
  PROVE  Tidy
  <1>0. DestinationTypeOK
    BY DEF DestInv
  <1>1. CASE UNCHANGED destination
    BY <1>1, NothingTidy
  <1>2. CASE Proceeds(p, FALSE, Forced)
    <2>1. Clear(p) /\ ~IsDir(p)
      BY <1>2, ProceedsClear, ProceedsToNoDir
    <2>2. CASE RefusedName(p) \/ CreateFails(p)
      BY <2>1, <2>2, NoNodeTidy
    <2>3. CASE ~NameRefused(p) /\ MakeAt(p, [kind |-> "link", data |-> text], "link", FALSE)
      BY <1>0, <2>1, <2>3, MakeAtTidy
    <2>. QED BY <1>1, <2>2, <2>3 DEF PlaceSymlink, Declined, destination
  <1>. QED BY <1>1, <1>2 DEF PlaceSymlink, Declined, destination

LEMMA LinkOrCopyTidy ==
  ASSUME DestInv, TreeSound, DestinationTypeOK', NEW e, NEW p, IsPath(p), NEW t, LinkOrCopy(e, p, t)
  PROVE  Tidy
  <1>0. DestinationTypeOK
    BY DEF DestInv
  <1>1. CASE UNCHANGED destination
    BY <1>1, NothingTidy
  <1>2. CASE There(t).kind = "file" /\ Proceeds(p, FALSE, Forced)
    <2>1. Clear(p) /\ ~IsDir(p)
      BY <1>2, ProceedsClear, ProceedsToNoDir
    <2>2. CASE RefusedName(p) \/ CreateFails(p) \/ MakeParentsOnly(p)
      BY <2>1, <2>2, NoNodeTidy
    <2>3. CASE /\ ~NameRefused(p) /\ Folded(t) \in DOMAIN Cleared(p)
               /\ \E fresh \in Fresh(MissingParents(p), Cleared(p)) : LinkTo(p, t, fresh)
      BY <1>0, <1>2, <2>1, <2>3, LinkToTidy
    <2>4. ASSUME ~NameRefused(p), NEW node, node.kind = "file", NEW kind,
                 MakeAt(p, node, kind, FALSE)
          PROVE  Tidy
      BY <1>0, <2>1, <2>4, MakeAtTidy
    <2>5. CASE ~NameRefused(p) /\ MakeAt(p, There(t), "hard", FALSE)
      BY <1>2, <2>4, <2>5
    <2>6. CASE ~NameRefused(p) /\ MakeAt(p, [kind |-> "file", data |-> <<"cut">>], "none", FALSE)
      BY <2>4, <2>6
    <2>. QED BY <1>1, <2>2, <2>3, <2>5, <2>6 DEF LinkOrCopy, LinkTo, Declined, destination
  <1>. QED BY <1>1, <1>2 DEF LinkOrCopy, Declined, destination

LEMMA HardLinkTidy ==
  ASSUME DestInv, TreeSound, DestinationTypeOK', NEW e, IsPath(PathOf[e.name]), HardLinkEntry(e)
  PROVE  Tidy
  <1>. DEFINE p == PathOf[e.name]
              t == PathOf[e.to]
  <1>1. CASE UNCHANGED destination
    BY <1>1, NothingTidy
  <1>2. CASE AlreadyLinked(e, p, t)
    <2>1. CASE /\ made' = Recorded(made, p, IF made.at[t].kind = "link" THEN "link" ELSE "hard",
                                   made.at[t].data, Identity(p))
               /\ UNCHANGED <<setup, disk, inode>>
      <3>1. made'.dirs = made.dirs
        BY <2>1 DEF Recorded
      <3>. QED BY <2>1, <3>1, UnchangedTidy
    <2>. QED BY <1>1, <1>2, <2>1 DEF AlreadyLinked
  <1>3. CASE PlaceSymlink(e, p, made.at[t].data)
    BY <1>3, SymlinkTidy
  <1>4. CASE LinkOrCopy(e, p, t)
    BY <1>4, LinkOrCopyTidy
  <1>. QED BY <1>1, <1>2, <1>3, <1>4 DEF HardLinkEntry, HardLinkTo, destination

LEMMA DirTidy ==
  ASSUME DestInv, TreeSound, DestinationTypeOK', NEW e, IsPath(PathOf[e.name]), DirEntry(e)
  PROVE  Tidy
  <1>. DEFINE p == PathOf[e.name]
  <1>0. DestinationTypeOK
    BY DEF DestInv
  <1>1. CASE Declined(p, TRUE)
    BY <1>1, NothingTidy DEF Declined
  <1>2. CASE Proceeds(p, TRUE, Forced)
    <2>1. Clear(p)
      BY <1>2, ProceedsClear
    <2>2. CASE RefusedName(p) \/ CreateFails(p)
      BY <2>1, <2>2, NoNodeTidy
    <2>3. CASE /\ made' = Recorded(made, p, "dir", <<>>, Identity(p))
               /\ UNCHANGED <<setup, disk, inode, away, archive>>
      <3>1. made'.dirs = made.dirs
        BY <2>3 DEF Recorded
      <3>. QED BY <2>3, <3>1, UnchangedTidy
    <2>4. CASE ~NameRefused(p) /\ ~IsDir(p) /\ MakeAt(p, FreshDir, "dir", TRUE)
      BY <1>0, <2>1, <2>4, MakeAtTidy
    <2>. QED BY <1>1, <1>2, <2>2, <2>3, <2>4 DEF DirEntry
  <1>. QED BY <1>1, <1>2 DEF DirEntry

LEMMA EntryTidy ==
  ASSUME UnpackInv, setup.verb = "unpack", TreeSound, NEW e \in Entries,
         \/ Uncontained(e) \/ DestinationEntry(e) \/ DirEntry(e)
         \/ FileEntry(e) \/ SymlinkEntry(e) \/ HardLinkEntry(e) \/ SpecialEntry(e)
  PROVE  Tidy
  <1>1. DestInv /\ DestinationTypeOK'
    BY EntryKeeps DEF UnpackInv, DestInv
  <1>2. CASE UNCHANGED destination
    BY <1>1, <1>2, NothingTidy
  <1>3. Contained(e) => IsPath(PathOf[e.name])
    BY PathsType DEF Contained, IsPath
  <1>4. CASE DirEntry(e)
    BY <1>1, <1>3, <1>4, DirTidy DEF DirEntry
  <1>5. CASE FileEntry(e)
    BY <1>1, <1>3, <1>5, FileTidy DEF FileEntry
  <1>6. CASE SymlinkEntry(e)
    BY <1>1, <1>3, <1>6, SymlinkTidy DEF SymlinkEntry
  <1>7. CASE HardLinkEntry(e)
    BY <1>1, <1>3, <1>7, HardLinkTidy DEF HardLinkEntry
  <1>. QED BY <1>2, <1>4, <1>5, <1>6, <1>7 DEF Uncontained, DestinationEntry, SpecialEntry, destination


(* No entry takes anything out of the destination's reach.                  *)
LEMMA EntryNotAway ==
  ASSUME NEW e,
         \/ Uncontained(e) \/ DestinationEntry(e) \/ DirEntry(e)
         \/ FileEntry(e) \/ SymlinkEntry(e) \/ HardLinkEntry(e) \/ SpecialEntry(e)
  PROVE  away' = away
  <1>1. CASE UNCHANGED destination
    BY <1>1 DEF destination
  <1>2. ASSUME NEW p, RefusedName(p) \/ CreateFails(p) \/ MakeParentsOnly(p) PROVE away' = away
    BY <1>2 DEF RefusedName, CreateFails, MakeParentsOnly
  <1>3. ASSUME NEW p, NEW node, NEW kind, NEW isNew, MakeAt(p, node, kind, isNew)
        PROVE  away' = away
    BY <1>3 DEF MakeAt
  <1>4. ASSUME NEW p, NEW placingDir, Declined(p, placingDir) PROVE away' = away
    BY <1>4 DEF Declined, destination
  <1>5. ASSUME NEW p, NEW text, PlaceSymlink(e, p, text) PROVE away' = away
    BY <1>2, <1>3, <1>4, <1>5 DEF PlaceSymlink, destination
  <1>6. ASSUME NEW p, NEW t, LinkOrCopy(e, p, t) PROVE away' = away
    BY <1>2, <1>3, <1>4, <1>6 DEF LinkOrCopy, destination
  <1>7. ASSUME NEW p, NEW t, AlreadyLinked(e, p, t) PROVE away' = away
    BY <1>7 DEF AlreadyLinked, destination
  <1>8. CASE DirEntry(e)
    BY <1>2, <1>3, <1>4, <1>8 DEF DirEntry
  <1>9. CASE FileEntry(e)
    BY <1>2, <1>3, <1>4, <1>9 DEF FileEntry
  <1>10. CASE SymlinkEntry(e)
    BY <1>5, <1>10 DEF SymlinkEntry
  <1>11. CASE HardLinkEntry(e)
    BY <1>1, <1>5, <1>6, <1>7, <1>11 DEF HardLinkEntry, HardLinkTo, destination
  <1>. QED BY <1>1, <1>8, <1>9, <1>10, <1>11
           DEF Uncontained, DestinationEntry, SpecialEntry, destination

(* What an entry leaves deferred, and whether it can end the archive.       *)
LEMMA EntryDefers ==
  ASSUME UnpackInv, setup.verb = "unpack", NEW e \in Entries,
         \/ Uncontained(e) \/ DestinationEntry(e) \/ DirEntry(e)
         \/ FileEntry(e) \/ SymlinkEntry(e) \/ HardLinkEntry(e) \/ SpecialEntry(e)
  PROVE  /\ phase = "entries" /\ phase' \in {"entries", "failed"} /\ lost' = lost
         /\ \/ deferred' = deferred
            \/ \E p \in DOMAIN made'.dirs :
                 /\ IsPath(p) /\ p # Unsafe
                 /\ deferred' = Append(deferred, [path |-> p, mode |-> e.says,
                                                  id |-> made'.dirs[p], entry |-> read'])
  <1>0. DestInv /\ phase = "entries"
    BY DEF UnpackInv, Uncontained, DestinationEntry, DirEntry, FileEntry, SymlinkEntry,
           HardLinkEntry, SpecialEntry, Reading
  <1>1. CASE EntryFrame
    BY <1>0, <1>1 DEF EntryFrame
  <1>2. CASE (Fail /\ UNCHANGED extraction) \/ Warn
    BY <1>1, <1>2 DEF EntryFrame, Fail, Warn, extraction
  <1>3. CASE DirEntry(e)
    <2>1. IsPath(PathOf[e.name]) /\ PathOf[e.name] # Unsafe
      BY <1>3, PathsType DEF DirEntry, Contained, IsPath
    <2>. QED BY <1>0, <1>2, <1>3, <2>1 DEF DirEntry, Declined, RefusedName, CreateFails, Deferring
  <1>4. CASE DestinationEntry(e)
    BY <1>1, <1>4 DEF DestinationEntry, EntryFrame
  <1>5. CASE FileEntry(e)
    BY <1>0, <1>1, <1>5, FileOutcome DEF Outcome
  <1>6. CASE SymlinkEntry(e)
    BY <1>0, <1>1, <1>6, SymlinkOutcome DEF Outcome, SymlinkEntry
  <1>7. CASE HardLinkEntry(e)
    BY <1>0, <1>1, <1>7, HardLinkOutcome DEF Outcome
  <1>. QED BY <1>2, <1>3, <1>4, <1>5, <1>6, <1>7 DEF Uncontained, SpecialEntry, extraction

-------------------------------------------------------------------------------
(* While no other program disturbs it, the tree is in shape and each        *)
(* deferred directory stands where it was made; none that dest did not hold *)
(* is shut before the archive's end, and then none above a directory still  *)
(* to come.                                                                 *)
DeferredStand ==
  \A k \in DOMAIN deferred :
    /\ IsPath(deferred[k].path) /\ deferred[k].path # Unsafe
    /\ Stands(disk, inode, deferred[k].path, deferred[k].id)
DeepestAhead ==
  \A j, k \in DOMAIN deferred : j < k => Len(deferred[j].path) >= Len(deferred[k].path)
OpenAbove ==
  \A k \in DOMAIN deferred : \A r \in Parents(deferred[k].path) : Folded(r) \notin Shut

Undisturbed ==
  /\ Shape /\ DeferredStand
  /\ phase = "entries" => Shut \subseteq HeldShut
  /\ phase = "dirs" => DeepestAhead /\ OpenAbove

ModesInv == setup.verb = "unpack" /\ away = {} => Undisturbed

LEMMA EntryModes ==
  ASSUME UnpackInv, setup.verb = "unpack", away = {}, Undisturbed, NEW e \in Entries,
         \/ Uncontained(e) \/ DestinationEntry(e) \/ DirEntry(e)
         \/ FileEntry(e) \/ SymlinkEntry(e) \/ HardLinkEntry(e) \/ SpecialEntry(e)
  PROVE  Undisturbed'
  <1>1. Tidy /\ Shape' /\ DeferredStand
    BY EntryTidy DEF Undisturbed, Shape, Tidy
  <1>2. /\ phase = "entries" /\ phase' \in {"entries", "failed"}
        /\ \/ deferred' = deferred
           \/ \E p \in DOMAIN made'.dirs :
                /\ IsPath(p) /\ p # Unsafe
                /\ deferred' = Append(deferred, [path |-> p, mode |-> e.says,
                                                 id |-> made'.dirs[p], entry |-> read'])
    BY EntryDefers
  <1>3. Shut' \subseteq HeldShut'
    BY <1>1, <1>2 DEF Tidy, Undisturbed, HeldShut
  <1>4. ASSUME NEW p, NEW id, Stands(disk', inode', p, id) PROVE Stands(disk, inode, p, id)'
    BY <1>1, <1>4 DEF Tidy, Stands, Folded
  <1>5. \A k \in DOMAIN deferred :
          /\ IsPath(deferred[k].path) /\ deferred[k].path # Unsafe
          /\ Stands(disk', inode', deferred[k].path, deferred[k].id)
    BY <1>1 DEF Tidy, StillStands, DeferredStand
  <1>6. ASSUME NEW k \in DOMAIN deferred'
        PROVE  /\ IsPath(deferred'[k].path) /\ deferred'[k].path # Unsafe
               /\ Stands(disk', inode', deferred'[k].path, deferred'[k].id)
    <2>1. CASE deferred' = deferred
      BY <1>5, <1>6, <2>1
    <2>2. CASE \E p \in DOMAIN made'.dirs :
                /\ IsPath(p) /\ p # Unsafe
                /\ deferred' = Append(deferred, [path |-> p, mode |-> e.says,
                                                 id |-> made'.dirs[p], entry |-> read'])
      <3>1. PICK p \in DOMAIN made'.dirs :
                /\ IsPath(p) /\ p # Unsafe
                /\ deferred' = Append(deferred, [path |-> p, mode |-> e.says,
                                                 id |-> made'.dirs[p], entry |-> read'])
        BY <2>2
      <3>. DEFINE d == [path |-> p, mode |-> e.says, id |-> made'.dirs[p], entry |-> read']
      <3>2. d.path = p /\ d.id = made'.dirs[p] /\ deferred' = Append(deferred, d)
        BY <3>1
      <3>. HIDE DEF d
      <3>3. deferred \in Seq(Range(deferred))
        <4>1. deferred \in Seq(DeferredDir)
          BY DEF UnpackInv, ExtractTypes
        <4>. QED BY <4>1 DEF Range
      <3>4. deferred'[k] = d \/ (k \in DOMAIN deferred /\ deferred'[k] = deferred[k])
        BY <1>6, <3>2, <3>3
      <3>5. Stands(disk', inode', p, made'.dirs[p])
        BY <1>1 DEF Tidy, Shape, TreeSound, DirsStand, Stands, Folded
      <3>. QED BY <1>5, <3>1, <3>2, <3>4, <3>5
    <2>. QED BY <1>2, <2>1, <2>2
  <1>7. DeferredStand'
    BY <1>1, <1>6 DEF DeferredStand, Tidy, Stands, Folded
  <1>. QED BY <1>1, <1>2, <1>3, <1>7 DEF Undisturbed, Tidy


LEMMA EndModes ==
  ASSUME UnpackInv, Undisturbed, ArchiveFails \/ EndOfArchive
  PROVE  Undisturbed'
  <1>0. UNCHANGED destination /\ deferred \in Seq(DeferredDir) /\ phase = "entries"
        /\ Shut \subseteq HeldShut
    BY DEF UnpackInv, ExtractTypes, ArchiveFails, EndOfArchive, Undisturbed
  <1>1. UNCHANGED <<setup, disk, inode, away, archive, made>>
    BY <1>0 DEF destination
  <1>2. Shape' /\ Shut' = Shut
    BY <1>0, <1>1 DEF Undisturbed, Shape, TreeSound, Shut, KindsOK, InDirs, DirsOnce, DirsStand, Stands, Folded
  <1>3. CASE ArchiveFails
    <2>1. deferred' = deferred /\ phase' = "failed"
      BY <1>3 DEF ArchiveFails, Fail, extraction
    <2>2. DeferredStand'
      BY <1>1, <2>1 DEF Undisturbed, DeferredStand, Stands, Folded
    <2>. QED BY <1>2, <2>1, <2>2 DEF Undisturbed
  <1>4. CASE EndOfArchive
    <2>1. PICK f \in [DOMAIN deferred -> DOMAIN deferred] :
            /\ \A j, k \in DOMAIN deferred : j < k => Before(deferred, f[j], f[k])
            /\ deferred' = [k \in DOMAIN deferred |-> deferred[f[k]]]
      BY <1>4 DEF EndOfArchive, DeepestFirst
    <2>2. DOMAIN deferred' = DOMAIN deferred
          /\ \A k \in DOMAIN deferred' : deferred'[k] = deferred[f[k]] /\ f[k] \in DOMAIN deferred
      BY <2>1
    <2>3. \A k \in DOMAIN deferred : /\ IsPath(deferred[k].path) /\ deferred[k].path # Unsafe
                                     /\ Len(deferred[k].path) \in Nat
      BY FoldedIs DEF Undisturbed, DeferredStand
    <2>4. DeferredStand'
      BY <1>1, <2>2 DEF Undisturbed, DeferredStand, Stands, Folded
    <2>5. ASSUME NEW j \in DOMAIN deferred', NEW k \in DOMAIN deferred', j < k
          PROVE  Len(deferred'[j].path) >= Len(deferred'[k].path)
      <3>1. Before(deferred, f[j], f[k])
        BY <2>1, <2>2, <2>5
      <3>2. PICK m \in Nat, n \in Nat : m = Len(deferred[f[j]].path) /\ n = Len(deferred[f[k]].path)
        BY <2>2, <2>3, <2>5
      <3>3. m >= n
        BY <3>1, <3>2 DEF Before
      <3>. QED BY <2>2, <3>2, <3>3
    <2>6. OpenAbove'
      <3>1. ASSUME NEW k \in DOMAIN deferred', NEW r \in Parents(deferred'[k].path)
            PROVE  Folded(r) \notin Shut
        <4>0. deferred'[k] \in DeferredDir
          BY <1>0, <2>2, <3>1
        <4>1. PICK e \in Entries : deferred'[k].path = PathOf[e.name]
          BY <4>0 DEF DeferredDir
        <4>2. IsPath(PathOf[e.name]) /\ PathOf[e.name] # Unsafe
          BY <2>2, <2>3, <3>1, <4>1
        <4>3. Folded(r) \in Parents(Folded(PathOf[e.name]))
          BY <3>1, <4>1, <4>2, FoldedParents
        <4>4. setup \in Setups
          BY DEF UnpackInv, DestInv
        <4>5. Folded(r) \notin HeldShut
          BY <4>2, <4>3, <4>4, Searchable DEF HeldShut, Folded
        <4>. QED BY <1>0, <4>5
      <3>. QED BY <1>1, <1>2, <3>1 DEF OpenAbove, Folded
    <2>7. phase' = "dirs"
      BY <1>4 DEF EndOfArchive
    <2>. QED BY <1>2, <2>4, <2>5, <2>6, <2>7 DEF Undisturbed, DeepestAhead
  <1>. QED BY <1>3, <1>4

(* A directory's metadata shuts at most that directory, at its one name.    *)
LEMMA MetadataModes ==
  ASSUME UnpackInv, Undisturbed, ApplyDirMetadata
  PROVE  Undisturbed'
  <1>. DEFINE d == Head(deferred)
  <1>1. deferred \in Seq(DeferredDir) /\ deferred # <<>> /\ deferred' = Tail(deferred)
        /\ UNCHANGED <<setup, disk, made>> /\ phase = "dirs" /\ phase' = "dirs"
    BY DEF UnpackInv, ExtractTypes, ApplyDirMetadata
  <1>2. /\ d = deferred[1] /\ 1 \in DOMAIN deferred
        /\ \A k \in DOMAIN deferred' :
             k \in Nat /\ 1 < k + 1 /\ k + 1 \in DOMAIN deferred /\ deferred'[k] = deferred[k + 1]
        /\ \A j, k \in DOMAIN deferred' : j < k => j + 1 < k + 1
    BY <1>1
  <1>3. IsPath(d.path) /\ Stands(disk, inode, d.path, d.id) /\ DestinationTypeOK
    BY <1>2 DEF Undisturbed, DeferredStand, UnpackInv, DestInv
  <1>. HIDE DEF d
  <1>4. Identity(d.path) = d.id /\ d.id \in Inos
    BY <1>3, ThereAt DEF Stands
  <1>5. inode' = inode \/ inode' = [inode EXCEPT ![d.id].data = d.mode]
    BY <1>4 DEF ApplyDirMetadata, d
  <1>6. DOMAIN inode = Inos
    BY <1>3 DEF DestinationTypeOK
  <1>7. \A i \in Inos : /\ i # d.id => inode'[i] = inode[i]
                        /\ inode[i].kind = "dir" \/ i # d.id => inode'[i].kind = inode[i].kind
    <2>1. CASE inode' = inode
      BY <2>1
    <2>2. CASE inode' = [inode EXCEPT ![d.id].data = d.mode]
      <3>1. \A i \in Inos : i # d.id => inode'[i] = inode[i]
        BY <1>4, <1>6, <2>2
      <3>2. inode'[d.id] = [inode[d.id] EXCEPT !.data = d.mode]
        BY <1>4, <1>6, <2>2
      <3>3. inode'[d.id].kind = inode[d.id].kind
        BY <3>2
      <3>. QED BY <3>1, <3>3
    <2>. QED BY <1>5, <2>1, <2>2
  <1>8. \A q \in DOMAIN disk : disk[q] \in Inos /\ inode'[disk[q]].kind = inode[disk[q]].kind
    BY <1>3, <1>7 DEF DestinationTypeOK, Stands
  <1>9. \A p, id : Stands(disk, inode, p, id) => Stands(disk', inode', p, id)
    BY <1>1, <1>8 DEF Stands
  <1>10. Shape'
    <2>1. KindsOK'
      BY <1>1, <1>8 DEF Undisturbed, Shape, TreeSound, KindsOK
    <2>2. InDirs'
      BY <1>1, <1>8 DEF Undisturbed, Shape, TreeSound, InDirs
    <2>3. DirsOnce'
      BY <1>1, <1>8 DEF Undisturbed, Shape, TreeSound, DirsOnce
    <2>4. ASSUME NEW p \in DOMAIN made.dirs PROVE Stands(disk', inode', p, made.dirs[p])
      BY <1>9 DEF Undisturbed, Shape, TreeSound, DirsStand
    <2>5. DirsStand'
      BY <1>1, <2>4 DEF DirsStand, Stands, Folded
    <2>. QED BY <2>1, <2>2, <2>3, <2>5 DEF Shape, TreeSound
  <1>11. DeferredStand'
    <2>1. ASSUME NEW k \in DOMAIN deferred'
          PROVE  /\ IsPath(deferred'[k].path) /\ deferred'[k].path # Unsafe
                 /\ Stands(disk', inode', deferred'[k].path, deferred'[k].id)
      <3>1. k + 1 \in DOMAIN deferred /\ deferred'[k] = deferred[k + 1]
        BY <1>2, <2>1
      <3>. QED BY <1>9, <3>1 DEF Undisturbed, DeferredStand
    <2>. QED BY <1>1, <2>1 DEF DeferredStand, Stands, Folded
  <1>12. DeepestAhead'
    BY <1>1, <1>2 DEF Undisturbed, DeepestAhead
  <1>13. Shut' \subseteq Shut \cup {Folded(d.path)}
    <2>1. ASSUME NEW q \in DOMAIN disk, inode'[disk[q]].kind = "dir",
                 inode'[disk[q]].data \in Locking, q # Folded(d.path)
          PROVE  q \in Shut
      <3>1. inode[disk[q]].kind = "dir"
        BY <1>8, <2>1
      <3>2. disk[q] # d.id
        BY <1>3, <2>1, <3>1 DEF Stands, Undisturbed, Shape, TreeSound, DirsOnce
      <3>3. inode'[disk[q]] = inode[disk[q]]
        BY <1>7, <1>8, <3>2
      <3>. QED BY <2>1, <3>1, <3>3 DEF Shut
    <2>. QED BY <1>1, <2>1 DEF Shut
  <1>14. OpenAbove'
    <2>1. ASSUME NEW k \in DOMAIN deferred', NEW r \in Parents(deferred'[k].path)
          PROVE  Folded(r) \notin Shut'
      <3>. DEFINE w == deferred[k + 1].path
      <3>1. k + 1 \in DOMAIN deferred /\ deferred'[k] = deferred[k + 1] /\ 1 < k + 1 /\ r \in Parents(w)
        BY <1>2, <2>1
      <3>2. IsPath(w) /\ Len(d.path) >= Len(w) /\ Folded(r) \notin Shut
        BY <1>1, <1>2, <3>1 DEF Undisturbed, DeferredStand, DeepestAhead, OpenAbove
      <3>. HIDE DEF w
      <3>3. Len(Folded(r)) = Len(r) /\ Len(r) < Len(w) /\ Len(r) \in Nat /\ Len(w) \in Nat
        BY <3>1, <3>2, ParentIs
      <3>4. Len(Folded(d.path)) = Len(d.path) /\ Len(d.path) \in Nat
        BY <1>3, FoldedIs
      <3>5. Folded(r) # Folded(d.path)
        BY <3>2, <3>3, <3>4
      <3>. QED BY <1>13, <3>2, <3>5
    <2>2. \A r : Folded(r) = Folded(r)'
      BY <1>1 DEF Folded
    <2>. QED BY <1>1, <2>1 DEF OpenAbove, Folded
  <1>. QED BY <1>1, <1>10, <1>11, <1>12, <1>14 DEF Undisturbed

(* What another program moves away is somewhere.                            *)
LEMMA SwapsAway ==
  ASSUME OtherSwaps
  PROVE  away' # {}
  BY DEF OtherSwaps, Below

LEMMA FoundShape ==
  ASSUME FoundDestination
  PROVE  Shape /\ Shut \subseteq HeldShut
  <1>1. /\ setup \in Setups /\ disk \in Fresh(DOMAIN setup.holds, <<>>)
        /\ made = [at |-> <<>>, ids |-> {}, dirs |-> <<>>]
        /\ inode = [i \in Inos |-> IF i \in Range(disk)
                                   THEN setup.holds[CHOOSE q \in DOMAIN disk : disk[q] = i]
                                   ELSE Nothing]
    BY DEF FoundDestination
  <1>2. /\ DOMAIN disk = DOMAIN setup.holds /\ \A q \in DOMAIN disk : disk[q] \in Inos
        /\ \A q, r \in DOMAIN disk : q # r => disk[q] # disk[r]
    BY <1>1 DEF Fresh, Free
  <1>3. ASSUME NEW q \in DOMAIN disk PROVE inode[disk[q]] = setup.holds[q]
    <2>1. disk[q] \in Inos /\ disk[q] \in Range(disk)
      BY <1>2 DEF Range
    <2>2. (CHOOSE r \in DOMAIN disk : disk[r] = disk[q]) = q
      BY <1>2
    <2>. QED BY <1>1, <2>1, <2>2
  <1>4. KindsOK /\ InDirs
    <2>1. ASSUME NEW q \in DOMAIN disk
          PROVE  /\ setup.holds[q].kind \in {"dir", "file", "link"}
                 /\ \A r \in Parents(q) : r \in DOMAIN disk /\ setup.holds[r].kind = "dir"
      BY <1>1, <1>2, SetupsType
    <2>. QED BY <1>3, <2>1 DEF KindsOK, InDirs
  <1>5. DirsOnce
    BY <1>2 DEF DirsOnce
  <1>6. DirsStand
    <2>1. made.dirs = <<>> /\ DOMAIN <<>> = {}
      BY <1>1
    <2>. QED BY <2>1 DEF DirsStand
  <1>7. Shut \subseteq HeldShut
    BY <1>1, <1>2, <1>3 DEF Shut, HeldShut
  <1>. QED BY <1>4, <1>5, <1>6, <1>7 DEF Shape, TreeSound

LEMMA ModesInit == Init => ModesInv
  <1>. SUFFICES ASSUME Init PROVE ModesInv
    OBVIOUS
  <1>1. FoundDestination /\ deferred = <<>> /\ phase = "entries"
    BY DEF Init, ExtractInit
  <1>2. DOMAIN deferred = {}
    BY <1>1
  <1>3. DeferredStand
    BY <1>2 DEF DeferredStand
  <1>. QED BY <1>1, <1>3, FoundShape DEF ModesInv, Undisturbed

LEMMA ModesStep == VerbsInv /\ ModesInv /\ [Next]_allVars => ModesInv'
  <1>. SUFFICES ASSUME VerbsInv, ModesInv, [Next]_allVars, setup'.verb = "unpack", away' = {}
                PROVE  Undisturbed'
    BY DEF ModesInv
  <1>1. setup' = setup /\ setup.verb = "unpack" /\ UnpackInv
    BY VerbsStep DEF VerbsInv
  <1>2. CASE ExtractNext
    <2>1. ASSUME away = {} PROVE Undisturbed'
      <3>1. Undisturbed
        BY <1>1, <2>1 DEF ModesInv
      <3>2. ASSUME NEW e \in Entries,
                   \/ Uncontained(e) \/ DestinationEntry(e) \/ DirEntry(e)
                   \/ FileEntry(e) \/ SymlinkEntry(e) \/ HardLinkEntry(e) \/ SpecialEntry(e)
            PROVE  Undisturbed'
        BY <1>1, <2>1, <3>1, <3>2, EntryModes
      <3>. QED BY <1>1, <1>2, <3>1, <3>2, EndModes, MetadataModes, SwapsAway DEF ExtractNext
    <2>2. CASE \E e \in Entries :
                 \/ Uncontained(e) \/ DestinationEntry(e) \/ DirEntry(e)
                 \/ FileEntry(e) \/ SymlinkEntry(e) \/ HardLinkEntry(e) \/ SpecialEntry(e)
      BY <2>1, <2>2, EntryNotAway
    <2>3. CASE ArchiveFails \/ EndOfArchive \/ ApplyDirMetadata
      BY <2>1, <2>3 DEF ArchiveFails, EndOfArchive, ApplyDirMetadata, destination
    <2>. QED BY <1>2, <2>2, <2>3, SwapsAway DEF ExtractNext
  <1>3. CASE UNCHANGED <<destination, phase, read, entry, extraction>>
    <2>1. UNCHANGED <<setup, disk, inode, away, archive, made, phase, deferred>>
      BY <1>3 DEF destination, extraction
    <2>2. Undisturbed
      BY <1>1, <2>1 DEF ModesInv
    <2>3. Shape'
      <3>1. DestinationTypeOK'
        BY VerbsStep DEF VerbsInv, UnpackInv, DestInv
      <3>. QED BY <2>1, <2>2, <3>1, UnchangedTidy DEF Undisturbed, Tidy, Shape
    <2>4. Shut' = Shut /\ HeldShut' = HeldShut
      BY <2>1 DEF Shut, HeldShut
    <2>5. DeferredStand' /\ (DeepestAhead /\ OpenAbove => DeepestAhead' /\ OpenAbove')
      BY <2>1, <2>2, <2>4 DEF Undisturbed, DeferredStand, DeepestAhead, OpenAbove, Stands, Folded
    <2>. QED BY <2>1, <2>2, <2>3, <2>4, <2>5 DEF Undisturbed
  <1>. QED BY <1>1, <1>2, <1>3 DEF Next, allVars


(* So the next directory whose mode is due opens, unless it is shut itself. *)
LEMMA NextOpens ==
  ASSUME DestinationTypeOK, Undisturbed, deferred \in Seq(DeferredDir), deferred # <<>>,
         phase = "dirs", There(Head(deferred).path).data \notin Locking
  PROVE  Opens(Head(deferred))
  <1>. DEFINE d == Head(deferred)
  <1>1. d = deferred[1] /\ 1 \in DOMAIN deferred
    OBVIOUS
  <1>. HIDE DEF d
  <1>2. /\ IsPath(d.path) /\ Stands(disk, inode, d.path, d.id)
        /\ \A r \in Parents(d.path) : Folded(r) \notin Shut
    BY <1>1 DEF Undisturbed, DeferredStand, OpenAbove
  <1>3. Identity(d.path) = d.id /\ There(d.path) = inode[d.id]
    BY <1>2, ThereAt DEF Stands
  <1>4. Openable(d.path)
    BY <1>2, <1>3 DEF Openable, IsDir, Stands, d
  <1>5. ASSUME NEW r \in Parents(d.path) PROVE Openable(r)
    <2>1. Folded(r) \in Parents(Folded(d.path))
      BY <1>2, FoldedParents
    <2>2. Folded(r) \in DOMAIN disk /\ inode[disk[Folded(r)]].kind = "dir"
      BY <1>2, <2>1 DEF Undisturbed, Shape, TreeSound, InDirs, Stands
    <2>3. There(r) = inode[disk[Folded(r)]]
      BY <2>2, ThereAt
    <2>4. inode[disk[Folded(r)]].data \notin Locking
      BY <1>2, <2>2 DEF Shut
    <2>. QED BY <2>2, <2>3, <2>4 DEF Openable, IsDir
  <1>. QED BY <1>3, <1>4, <1>5 DEF Opens, d

(* The mode the archive gives a directory is lost only when another program *)
(* has replaced one, or an earlier entry of the same path had shut it:      *)
(* deepest first, whatever the archive's order, no parent is shut before    *)
(* its children have theirs.                                                *)
THEOREM ParentsWaitForChildren == Spec => ModesSurviveTheirParents
  <1>1. VerbsInv /\ ModesInv /\ [Next]_allVars
          => [lost' # lost => away # {} \/ There(Head(deferred).path).data \in Locking]_lost
    <2>. SUFFICES ASSUME VerbsInv, ModesInv, [Next]_allVars, lost' # lost, away = {},
                         There(Head(deferred).path).data \notin Locking
                  PROVE  FALSE
      OBVIOUS
    <2>1. CASE setup.verb = "unpack" /\ ExtractNext
      <3>1. UnpackInv /\ Undisturbed
        BY <2>1 DEF VerbsInv, ModesInv
      <3>2. CASE \E e \in Entries :
                   \/ Uncontained(e) \/ DestinationEntry(e) \/ DirEntry(e)
                   \/ FileEntry(e) \/ SymlinkEntry(e) \/ HardLinkEntry(e) \/ SpecialEntry(e)
        BY <2>1, <3>1, <3>2, EntryDefers
      <3>3. CASE ArchiveFails \/ EndOfArchive \/ OtherSwaps
        BY <3>3 DEF ArchiveFails, EndOfArchive, OtherSwaps, extraction
      <3>4. CASE ApplyDirMetadata
        <4>1. /\ deferred \in Seq(DeferredDir) /\ deferred # <<>> /\ phase = "dirs"
              /\ DestinationTypeOK
          BY <3>1, <3>4 DEF UnpackInv, DestInv, ExtractTypes, ApplyDirMetadata
        <4>2. Opens(Head(deferred))
          BY <3>1, <4>1, NextOpens
        <4>. QED BY <3>4, <4>2 DEF ApplyDirMetadata
      <3>. QED BY <2>1, <3>2, <3>3, <3>4 DEF ExtractNext
    <2>2. CASE UNCHANGED extraction
      BY <2>2 DEF extraction
    <2>. QED BY <2>1, <2>2 DEF Next, allVars
  <1>2. VerbsInv /\ ModesInv /\ [Next]_allVars => ModesInv'
    BY ModesStep
  <1>. QED BY <1>1, <1>2, ModesInit, VerbsInvariant, PTL DEF Spec, ModesSurviveTheirParents

-------------------------------------------------------------------------------
(* unpack implements what Unpacking promises.                               *)

(* What place and the create it is for do to the tree an onlooker sees: c   *)
(* is what stands at p afterwards, or Nothing.                              *)
Landed(p, c) ==
  /\ setup' = setup /\ away' = away
  /\ DOMAIN disk' = DOMAIN Cleared(p) \cup {Folded(r) : r \in MissingParents(p)}
                      \cup {q \in {Folded(p)} : c # Nothing}
  /\ \A q \in DOMAIN Cleared(p) : q # Folded(p) \/ c = Nothing =>
        q \in DOMAIN disk /\ disk'[q] = disk[q] /\ inode'[disk[q]] = inode[disk[q]]
  /\ \A r \in MissingParents(p) : inode'[disk'[Folded(r)]] = FreshDir
  /\ c # Nothing => inode'[disk'[Folded(p)]] = c
  /\ \A r \in DOMAIN made'.at :
        \/ r \in DOMAIN Forgotten(p) /\ made'.at[r] = made.at[r]
        \/ r \in MissingParents(p) /\ made'.at[r].kind = "dir"
        \/ /\ r = p /\ c # Nothing
           /\ made'.at[r].kind = "link" => c = [kind |-> "link", data |-> made'.at[r].data]
  /\ \A r \in DOMAIN made'.dirs :
        \/ r \in DOMAIN made.dirs /\ made'.dirs[r] = made.dirs[r]
        \/ /\ Folded(r) \in DOMAIN disk' /\ disk'[Folded(r)] = made'.dirs[r]
           /\ inode'[made'.dirs[r]] = FreshDir
  /\ \A i \in away : inode'[i] = inode[i]

(* The parts place gives, whatever is then made at p.                       *)
LEMMA PlacedParts ==
  ASSUME DestinationTypeOK, TreeSound, NEW p, IsPath(p), Clear(p),
         NEW S, MissingParents(p) \subseteq S, NEW fresh \in Fresh(S, Cleared(p))
  PROVE  /\ DOMAIN PlacedDisk(p, fresh) = DOMAIN Cleared(p) \cup {Folded(r) : r \in MissingParents(p)}
         /\ \A r \in DOMAIN PlacedMade(p, fresh).at :
              \/ r \in DOMAIN Forgotten(p) /\ PlacedMade(p, fresh).at[r] = made.at[r]
              \/ r \in MissingParents(p) /\ PlacedMade(p, fresh).at[r].kind = "dir"
         /\ \A s \in S : fresh[s] \notin away
         /\ \A i \in away : PlacedInode(p, fresh)[i] = inode[i]
  <1>1. DOMAIN PlacedDisk(p, fresh) = DOMAIN Cleared(p) \cup {Folded(r) : r \in MissingParents(p)}
    BY DEF PlacedDisk, Over
  <1>2. ASSUME NEW r \in DOMAIN PlacedMade(p, fresh).at
        PROVE  \/ r \in DOMAIN Forgotten(p) /\ PlacedMade(p, fresh).at[r] = made.at[r]
               \/ r \in MissingParents(p) /\ PlacedMade(p, fresh).at[r].kind = "dir"
    <2>1. PlacedMade(p, fresh).at
            = Over([q \in MissingParents(p) |-> [kind |-> "dir", data |-> <<>>, id |-> fresh[q]]],
                   Forgotten(p))
      BY DEF PlacedMade
    <2>2. \A q \in DOMAIN Forgotten(p) : Forgotten(p)[q] = made.at[q]
      BY DEF Forgotten, Restrict
    <2>. QED BY <1>2, <2>1, <2>2 DEF Over
  <1>3. \A s \in S : fresh[s] \notin away
    BY DEF Fresh, Free
  <1>4. \A i \in away : PlacedInode(p, fresh)[i] = inode[i]
    <2>1. away \subseteq Inos
      BY DEF DestinationTypeOK
    <2>. QED BY <1>3, <2>1 DEF PlacedInode
  <1>. QED BY <1>1, <1>2, <1>3, <1>4

LEMMA ParentsLand ==
  ASSUME DestinationTypeOK, TreeSound, NEW p, IsPath(p), Clear(p), MakeParentsOnly(p)
  PROVE  Landed(p, Nothing)
  <1>. DEFINE S == MissingParents(p)
  <1>1. PICK fresh \in Fresh(S, Cleared(p)) :
          /\ disk' = PlacedDisk(p, fresh) /\ inode' = PlacedInode(p, fresh)
          /\ made' = PlacedMade(p, fresh) /\ UNCHANGED <<setup, away, archive>>
    BY DEF MakeParentsOnly
  <1>2. MissingParents(p) \subseteq S
    OBVIOUS
  <1>. HIDE DEF S
  <1>3. /\ \A q \in DOMAIN Cleared(p) :
             q \in DOMAIN disk /\ disk'[q] = disk[q] /\ inode'[disk[q]] = inode[disk[q]]
        /\ \A r \in MissingParents(p) :
             /\ Folded(r) \in DOMAIN disk' /\ disk'[Folded(r)] = fresh[r]
             /\ inode'[fresh[r]] = FreshDir
    BY <1>1, <1>2, PlacedShape
  <1>4. /\ DOMAIN disk' = DOMAIN Cleared(p) \cup {Folded(r) : r \in MissingParents(p)}
        /\ \A r \in DOMAIN made'.at :
              \/ r \in DOMAIN Forgotten(p) /\ made'.at[r] = made.at[r]
              \/ r \in MissingParents(p) /\ made'.at[r].kind = "dir"
        /\ \A i \in away : inode'[i] = inode[i]
    <2>1. /\ DOMAIN PlacedDisk(p, fresh) = DOMAIN Cleared(p) \cup {Folded(r) : r \in MissingParents(p)}
          /\ \A r \in DOMAIN PlacedMade(p, fresh).at :
               \/ r \in DOMAIN Forgotten(p) /\ PlacedMade(p, fresh).at[r] = made.at[r]
               \/ r \in MissingParents(p) /\ PlacedMade(p, fresh).at[r].kind = "dir"
          /\ \A i \in away : PlacedInode(p, fresh)[i] = inode[i]
      BY <1>1, <1>2, PlacedParts
    <2>. QED BY <1>1, <2>1
  <1>5. \A r \in DOMAIN made'.dirs :
          \/ r \in MissingParents(p) /\ made'.dirs[r] = fresh[r]
          \/ r \in DOMAIN made.dirs /\ made'.dirs[r] = made.dirs[r]
    BY <1>1, PlacedDirs
  <1>. QED BY <1>1, <1>3, <1>4, <1>5 DEF Landed

LEMMA MakeAtLands ==
  ASSUME DestinationTypeOK, TreeSound, NEW p, IsPath(p), Clear(p), ~IsDir(p), ~NameRefused(p),
         NEW node, node.kind # "none", NEW kind, NEW isNew \in BOOLEAN,
         isNew => node = FreshDir,
         kind = "link" => node = [kind |-> "link", data |-> node.data],
         MakeAt(p, node, kind, isNew)
  PROVE  Landed(p, node)
  <1>. DEFINE S == MissingParents(p) \cup {p}
  <1>1. PICK fresh \in Fresh(S, Cleared(p)) :
          /\ disk' = Put(PlacedDisk(p, fresh), Folded(p), fresh[p])
          /\ inode' = [PlacedInode(p, fresh) EXCEPT ![fresh[p]] = node]
          /\ made' = IF kind = "none" THEN PlacedMade(p, fresh)
                     ELSE LET m == Recorded(PlacedMade(p, fresh), p, kind,
                                            IF kind = "link" THEN node.data ELSE <<>>, fresh[p])
                          IN  [m EXCEPT !.dirs = IF isNew THEN Put(@, p, fresh[p]) ELSE @]
          /\ UNCHANGED <<setup, away, archive>>
    BY DEF MakeAt
  <1>2. /\ MissingParents(p) \subseteq S /\ p \in S
        /\ \A r, s \in S : r # s => fresh[r] # fresh[s]
        /\ \A r \in MissingParents(p) : r # p
    <2>1. \A r \in MissingParents(p) : r \in Parents(p)
      BY DEF MissingParents
    <2>2. \A r \in MissingParents(p) : r # p
      BY <2>1, ParentIs
    <2>. QED BY <2>2 DEF Fresh
  <1>. HIDE DEF S
  <1>. DEFINE m == PlacedMade(p, fresh)
              d == PlacedDisk(p, fresh)
              n == PlacedInode(p, fresh)
              data == IF kind = "link" THEN node.data ELSE <<>>
  <1>3. /\ \A q \in DOMAIN Cleared(p) :
             /\ q \in DOMAIN disk /\ q \in DOMAIN d
             /\ d[q] = disk[q] /\ n[disk[q]] = inode[disk[q]]
             /\ \A s \in S : fresh[s] # disk[q]
        /\ \A r \in MissingParents(p) :
             Folded(r) \in DOMAIN d /\ d[Folded(r)] = fresh[r] /\ n[fresh[r]] = FreshDir
    BY <1>2, PlacedShape
  <1>4. Folded(p) \notin DOMAIN d
    BY <1>2, PlacedAbove
  <1>5. fresh[p] \in Inos /\ DOMAIN n = Inos /\ \A r \in MissingParents(p) : fresh[r] \in Inos
    BY <1>2, PlaceTypes
  <1>6. \A r \in DOMAIN m.dirs :
          \/ r \in MissingParents(p) /\ m.dirs[r] = fresh[r]
          \/ r \in DOMAIN made.dirs /\ m.dirs[r] = made.dirs[r]
    BY PlacedDirs
  <1>7. /\ DOMAIN d = DOMAIN Cleared(p) \cup {Folded(r) : r \in MissingParents(p)}
        /\ \A r \in DOMAIN m.at :
              \/ r \in DOMAIN Forgotten(p) /\ m.at[r] = made.at[r]
              \/ r \in MissingParents(p) /\ m.at[r].kind = "dir"
        /\ \A s \in S : fresh[s] \notin away
        /\ \A i \in away : n[i] = inode[i]
    BY <1>2, PlacedParts
  <1>8. /\ made'.dirs = m.dirs \/ (isNew /\ made'.dirs = Put(m.dirs, p, fresh[p]))
        /\ \/ made'.at = m.at
           \/ made'.at = Put(m.at, p, [kind |-> kind, data |-> data, id |-> fresh[p]])
    <2>1. CASE kind = "none"
      BY <1>1, <2>1
    <2>2. CASE kind # "none"
      <3>. DEFINE at == Put(m.at, p, [kind |-> kind, data |-> data, id |-> fresh[p]])
                  w == IF isNew THEN Put(m.dirs, p, fresh[p]) ELSE m.dirs
      <3>1. made' = [at |-> at, ids |-> m.ids \cup {fresh[p]}, dirs |-> w]
        BY <1>1, <2>2 DEF Recorded
      <3>. HIDE DEF at, m
      <3>2. made'.dirs = w /\ made'.at = at
        BY <3>1
      <3>. QED BY <3>2 DEF at
    <2>. QED BY <2>1, <2>2
  <1>. HIDE DEF m, d, n
  <1>9. disk' = Put(d, Folded(p), fresh[p]) /\ inode' = [n EXCEPT ![fresh[p]] = node]
    BY <1>1 DEF d, n
  <1>10. /\ DOMAIN disk' = DOMAIN d \cup {Folded(p)} /\ disk'[Folded(p)] = fresh[p]
         /\ \A q \in DOMAIN d : disk'[q] = d[q]
         /\ inode'[fresh[p]] = node
         /\ \A i \in Inos : i # fresh[p] => inode'[i] = n[i]
    BY <1>4, <1>5, <1>9 DEF Put
  <1>11. \A q \in DOMAIN Cleared(p) :
           q \in DOMAIN disk /\ disk'[q] = disk[q] /\ inode'[disk[q]] = inode[disk[q]]
    <2>1. \A q \in DOMAIN disk : disk[q] \in Inos
      BY DEF DestinationTypeOK
    <2>. QED BY <1>2, <1>3, <1>10, <2>1
  <1>12. \A r \in MissingParents(p) :
           disk'[Folded(r)] = fresh[r] /\ inode'[fresh[r]] = FreshDir /\ Folded(r) \in DOMAIN disk'
    BY <1>2, <1>3, <1>5, <1>10
  <1>13. ASSUME NEW r \in DOMAIN made'.at
         PROVE  \/ r \in DOMAIN Forgotten(p) /\ made'.at[r] = made.at[r]
                \/ r \in MissingParents(p) /\ made'.at[r].kind = "dir"
                \/ /\ r = p /\ node # Nothing
                   /\ made'.at[r].kind = "link" => node = [kind |-> "link", data |-> made'.at[r].data]
    <2>0. node # Nothing
      BY DEF Nothing
    <2>1. CASE r \in DOMAIN m.at /\ made'.at[r] = m.at[r]
      BY <1>7, <2>1
    <2>2. CASE r = p /\ made'.at[r] = [kind |-> kind, data |-> data, id |-> fresh[p]]
      BY <2>0, <2>2
    <2>. QED BY <1>8, <1>13, <2>1, <2>2 DEF Put
  <1>14. ASSUME NEW r \in DOMAIN made'.dirs
         PROVE  \/ r \in DOMAIN made.dirs /\ made'.dirs[r] = made.dirs[r]
                \/ /\ Folded(r) \in DOMAIN disk' /\ disk'[Folded(r)] = made'.dirs[r]
                   /\ inode'[made'.dirs[r]] = FreshDir
    <2>1. CASE r \in DOMAIN m.dirs /\ made'.dirs[r] = m.dirs[r]
      BY <1>6, <1>12, <2>1
    <2>2. CASE isNew /\ r = p /\ made'.dirs[r] = fresh[p]
      BY <1>10, <2>2
    <2>. QED BY <1>8, <1>14, <2>1, <2>2 DEF Put
  <1>15. \A i \in away : inode'[i] = inode[i]
    <2>1. away \subseteq Inos
      BY DEF DestinationTypeOK
    <2>. QED BY <1>2, <1>7, <1>10, <2>1
  <1>16. DOMAIN disk' = DOMAIN Cleared(p) \cup {Folded(r) : r \in MissingParents(p)}
                      \cup {q \in {Folded(p)} : node # Nothing}
    BY <1>7, <1>10 DEF Nothing
  <1>17. setup' = setup /\ away' = away
    BY <1>1
  <1>18. \A q \in DOMAIN Cleared(p) : q # Folded(p) \/ node = Nothing =>
            q \in DOMAIN disk /\ disk'[q] = disk[q] /\ inode'[disk[q]] = inode[disk[q]]
    BY <1>11
  <1>19. \A r \in MissingParents(p) : inode'[disk'[Folded(r)]] = FreshDir
    BY <1>12
  <1>20. node # Nothing => inode'[disk'[Folded(p)]] = node
    BY <1>10
  <1>. QED BY <1>13, <1>14, <1>15, <1>16, <1>17, <1>18, <1>19, <1>20 DEF Landed

LEMMA LinkToLands ==
  ASSUME DestinationTypeOK, TreeSound, NEW p, IsPath(p), Clear(p), ~IsDir(p), ~NameRefused(p),
         NEW t, There(t).kind = "file", Folded(t) \in DOMAIN Cleared(p),
         NEW fresh \in Fresh(MissingParents(p), Cleared(p)), LinkTo(p, t, fresh)
  PROVE  Landed(p, There(t))
  <1>. DEFINE S == MissingParents(p)
              m == PlacedMade(p, fresh)
              d == PlacedDisk(p, fresh)
              n == PlacedInode(p, fresh)
              c == There(t)
  <1>1. fresh \in Fresh(S, Cleared(p)) /\ MissingParents(p) \subseteq S
    OBVIOUS
  <1>. HIDE DEF S
  <1>2. /\ \A q \in DOMAIN Cleared(p) :
             /\ q \in DOMAIN disk /\ q \in DOMAIN d
             /\ d[q] = disk[q] /\ n[disk[q]] = inode[disk[q]]
        /\ \A r \in MissingParents(p) :
             Folded(r) \in DOMAIN d /\ d[Folded(r)] = fresh[r] /\ n[fresh[r]] = FreshDir
    BY <1>1, PlacedShape
  <1>3. Folded(p) \notin DOMAIN d
    BY <1>1, PlacedAbove
  <1>4. \A r \in DOMAIN m.dirs :
          \/ r \in MissingParents(p) /\ m.dirs[r] = fresh[r]
          \/ r \in DOMAIN made.dirs /\ m.dirs[r] = made.dirs[r]
    BY PlacedDirs
  <1>5. /\ DOMAIN d = DOMAIN Cleared(p) \cup {Folded(r) : r \in MissingParents(p)}
        /\ \A r \in DOMAIN m.at :
              \/ r \in DOMAIN Forgotten(p) /\ m.at[r] = made.at[r]
              \/ r \in MissingParents(p) /\ m.at[r].kind = "dir"
        /\ \A i \in away : n[i] = inode[i]
    <2>1. ASSUME NEW T, MissingParents(p) \subseteq T, NEW g \in Fresh(T, Cleared(p))
          PROVE  /\ DOMAIN PlacedDisk(p, g) = DOMAIN Cleared(p) \cup {Folded(r) : r \in MissingParents(p)}
                 /\ \A r \in DOMAIN PlacedMade(p, g).at :
                      \/ r \in DOMAIN Forgotten(p) /\ PlacedMade(p, g).at[r] = made.at[r]
                      \/ r \in MissingParents(p) /\ PlacedMade(p, g).at[r].kind = "dir"
                 /\ \A s \in T : g[s] \notin away
                 /\ \A i \in away : PlacedInode(p, g)[i] = inode[i]
      BY <2>1, PlacedParts
    <2>2. /\ DOMAIN PlacedDisk(p, fresh) = DOMAIN Cleared(p) \cup {Folded(r) : r \in MissingParents(p)}
          /\ \A r \in DOMAIN PlacedMade(p, fresh).at :
               \/ r \in DOMAIN Forgotten(p) /\ PlacedMade(p, fresh).at[r] = made.at[r]
               \/ r \in MissingParents(p) /\ PlacedMade(p, fresh).at[r].kind = "dir"
          /\ \A i \in away : PlacedInode(p, fresh)[i] = inode[i]
      BY <1>1, <2>1
    <2>. HIDE DEF m, d, n
    <2>. QED BY <2>2 DEF m, d, n
  <1>6. Identity(t) = disk[Folded(t)] /\ c = inode[disk[Folded(t)]] /\ c.kind = "file"
    BY ThereSomething, ThereAt
  <1>7. /\ made'.dirs = m.dirs
        /\ made'.at = Put(m.at, p, [kind |-> "hard", data |-> <<>>, id |-> Identity(t)])
    BY DEF LinkTo, Recorded
  <1>8. /\ disk' = Put(d, Folded(p), disk[Folded(t)]) /\ inode' = n
        /\ setup' = setup /\ away' = away
    BY <1>6 DEF LinkTo
  <1>. HIDE DEF m, d, n, c
  <1>9. /\ DOMAIN disk' = DOMAIN d \cup {Folded(p)} /\ disk'[Folded(p)] = disk[Folded(t)]
        /\ \A q \in DOMAIN d : disk'[q] = d[q]
    BY <1>3, <1>8 DEF Put
  <1>10. inode'[disk'[Folded(p)]] = c
    BY <1>2, <1>6, <1>8, <1>9
  <1>11. \A q \in DOMAIN Cleared(p) :
           q \in DOMAIN disk /\ disk'[q] = disk[q] /\ inode'[disk[q]] = inode[disk[q]]
    BY <1>2, <1>8, <1>9
  <1>12. \A r \in MissingParents(p) :
           disk'[Folded(r)] = fresh[r] /\ inode'[fresh[r]] = FreshDir /\ Folded(r) \in DOMAIN disk'
    BY <1>2, <1>8, <1>9
  <1>13. ASSUME NEW r \in DOMAIN made'.at
         PROVE  \/ r \in DOMAIN Forgotten(p) /\ made'.at[r] = made.at[r]
                \/ r \in MissingParents(p) /\ made'.at[r].kind = "dir"
                \/ r = p /\ made'.at[r].kind = "hard"
    <2>1. CASE r \in DOMAIN m.at /\ made'.at[r] = m.at[r]
      BY <1>5, <2>1
    <2>2. CASE r = p /\ made'.at[r] = [kind |-> "hard", data |-> <<>>, id |-> Identity(t)]
      BY <2>2
    <2>. QED BY <1>7, <1>13, <2>1, <2>2 DEF Put
  <1>14. \A r \in DOMAIN made'.dirs :
           \/ r \in DOMAIN made.dirs /\ made'.dirs[r] = made.dirs[r]
           \/ /\ Folded(r) \in DOMAIN disk' /\ disk'[Folded(r)] = made'.dirs[r]
              /\ inode'[made'.dirs[r]] = FreshDir
    BY <1>4, <1>7, <1>12
  <1>15. c # Nothing
    BY <1>6 DEF Nothing
  <1>16. DOMAIN disk' = DOMAIN Cleared(p) \cup {Folded(r) : r \in MissingParents(p)}
                      \cup {q \in {Folded(p)} : c # Nothing}
    BY <1>5, <1>9, <1>15
  <1>17. \A i \in away : inode'[i] = inode[i]
    BY <1>5, <1>8
  <1>18. Landed(p, c)
    BY <1>8, <1>10, <1>11, <1>12, <1>13, <1>14, <1>15, <1>16, <1>17 DEF Landed
  <1>. QED BY <1>18 DEF c

(* What Unpacking says of paths, said of the destination.                   *)
LEMMA Spelled ==
  ASSUME DestinationTypeOK, NEW p, IsPath(p)
  PROVE  /\ Promise!At(p) = Folded(p)
         /\ Promise!Above(p) = {Folded(r) : r \in Parents(p)}
         /\ Promise!DirAt(Folded(p)) <=> IsDir(p)
         /\ DOMAIN Tree = DOMAIN disk /\ \A q \in DOMAIN disk : Tree[q] = inode[disk[q]]
  <1>1. Promise!At(p) = Folded(p)
    BY DEF Promise!At, Folded, FoldedBy
  <1>2. Promise!Above(p) = {Folded(r) : r \in Parents(p)}
    <2>1. Promise!Above(p) = Parents(Folded(p))
      BY <1>1 DEF Promise!Above, Promise!Ancestors, Parents
    <2>. QED BY <2>1, FoldedParents
  <1>3. DOMAIN Tree = DOMAIN disk /\ \A q \in DOMAIN disk : Tree[q] = inode[disk[q]]
    BY DEF Tree
  <1>4. Promise!DirAt(Folded(p)) <=> IsDir(p)
    <2>1. CASE Folded(p) \in DOMAIN disk
      BY <1>3, <2>1, ThereAt DEF Promise!DirAt, IsDir
    <2>2. CASE Folded(p) \notin DOMAIN disk
      BY <1>3, <2>2 DEF Promise!DirAt, IsDir, There, Identity, Nothing
    <2>. QED BY <2>1, <2>2
  <1>. QED BY <1>1, <1>2, <1>3, <1>4

(* Where place proceeds to make something, Unpacking lets it.               *)
LEMMA ProceedsMay ==
  ASSUME DestInv, TreeSound, setup.verb = "unpack", NEW p, IsPath(p), p # Root, p # Unsafe,
         NEW placingDir \in BOOLEAN, Proceeds(p, placingDir, Forced), ~IsDir(p)
  PROVE  Promise!MayReplace(p)
  <1>0. DestinationTypeOK
    BY DEF DestInv
  <1>1. /\ Promise!At(p) = Folded(p) /\ ~Promise!DirAt(Folded(p))
        /\ DOMAIN Tree = DOMAIN disk
    BY <1>0, Spelled
  <1>2. ASSUME Folded(p) \in DOMAIN disk PROVE setup.force
    <2>1. IsOther(p)
      BY <1>0, <1>2, NothingThere DEF TreeSound
    <2>. QED BY <2>1, ProceedsClear DEF Proceeds, Held, Forced
  <1>3. ASSUME setup.archive \in DOMAIN setup.holds PROVE Folded(p) # setup.archive
    <2>1. setup.archive \in Untouchable
      BY <1>3 DEF Untouchable
    <2>2. Apart(p)
      BY ProceedsApart
    <2>. QED BY <2>1, <2>2 DEF Apart
  <1>. QED BY <1>1, <1>2, <1>3 DEF Promise!MayReplace, Root

(* The tree with parents alone made ...                                     *)
LEMMA LandedNothing ==
  ASSUME DestinationTypeOK, TreeSound, NEW p, IsPath(p), Landed(p, Nothing),
         IsOther(p) => Promise!MayReplace(p)
  PROVE  Promise!Abandoned(p)
  <1>. DEFINE T == {Folded(r) : r \in MissingParents(p)}
  <1>1. /\ Promise!At(p) = Folded(p)
        /\ Promise!Above(p) = {Folded(r) : r \in Parents(p)}
        /\ DOMAIN Tree = DOMAIN disk /\ \A q \in DOMAIN disk : Tree[q] = inode[disk[q]]
    BY Spelled
  <1>2. MissingParents(p) \subseteq Parents(p)
    BY DEF MissingParents
  <1>3. T \in SUBSET Promise!Above(p)
    BY <1>1, <1>2
  <1>4. \A r \in MissingParents(p) : Folded(r) # Folded(p) /\ Folded(r) \notin DOMAIN disk
    <2>1. ASSUME NEW r \in MissingParents(p), Folded(r) \in DOMAIN disk PROVE FALSE
      <3>1. There(r) = inode[disk[Folded(r)]] /\ There(r).kind = "none"
        BY <2>1, ThereAt DEF MissingParents
      <3>. QED BY <2>1, <3>1 DEF TreeSound, KindsOK
    <2>. QED BY <1>2, <2>1, ParentIs
  <1>5. /\ DOMAIN disk' = DOMAIN Cleared(p) \cup T
        /\ \A q \in DOMAIN Cleared(p) :
             q \in DOMAIN disk /\ disk'[q] = disk[q] /\ inode'[disk[q]] = inode[disk[q]]
        /\ \A r \in MissingParents(p) : inode'[disk'[Folded(r)]] = FreshDir
    BY DEF Landed
  <1>6. Tree' = [q \in DOMAIN disk' |-> inode'[disk'[q]]]
    BY DEF Tree
  <1>7. \A q \in DOMAIN disk' :
          inode'[disk'[q]] = IF q \in DOMAIN Tree THEN Tree[q] ELSE Promise!NewDir
    BY <1>1, <1>4, <1>5 DEF Promise!NewDir, FreshDir
  <1>8. Tree' = Promise!Onto(DOMAIN disk')
    BY <1>6, <1>7 DEF Promise!Onto
  <1>. HIDE DEF T
  <1>9. CASE IsOther(p)
    <2>1. DOMAIN Cleared(p) = DOMAIN disk \ {Folded(p)}
      BY <1>9 DEF Cleared, Restrict
    <2>2. Folded(p) \notin T
      BY <1>4 DEF T
    <2>3. DOMAIN disk' = (DOMAIN Tree \cup T) \ {Promise!At(p)}
      BY <1>1, <1>5, <2>1, <2>2
    <2>4. Tree' = Promise!Without(p, T)
      BY <1>8, <2>3 DEF Promise!Without
    <2>. QED BY <1>3, <1>9, <2>4 DEF Promise!Abandoned
  <1>10. CASE ~IsOther(p)
    <2>1. DOMAIN disk' = DOMAIN Tree \cup T
      BY <1>1, <1>5, <1>10 DEF Cleared
    <2>2. Tree' = Promise!Under(T)
      BY <1>8, <2>1 DEF Promise!Under
    <2>. QED BY <1>3, <2>2 DEF Promise!Abandoned
  <1>. QED BY <1>9, <1>10

(* ... and with c at p.                                                     *)
LEMMA LandedSomething ==
  ASSUME DestinationTypeOK, TreeSound, NEW p, IsPath(p), ~IsDir(p), ~NameRefused(p), Clear(p),
         NEW c, c # Nothing, Landed(p, c)
  PROVE  Tree' = Promise!With(p, c, Promise!Above(p))
  <1>. DEFINE T == {Folded(r) : r \in MissingParents(p)}
              A == {Folded(r) : r \in Parents(p)}
  <1>1. /\ Promise!At(p) = Folded(p) /\ Promise!Above(p) = A
        /\ DOMAIN Tree = DOMAIN disk /\ \A q \in DOMAIN disk : Tree[q] = inode[disk[q]]
    BY Spelled
  <1>2. MissingParents(p) \subseteq Parents(p)
    BY DEF MissingParents
  <1>3. \A r \in Parents(p) : r \in MissingParents(p) \/ Folded(r) \in DOMAIN disk
    <2>1. ASSUME NEW r \in Parents(p) PROVE r \in MissingParents(p) \/ Folded(r) \in DOMAIN disk
      <3>1. \A k \in DOMAIN r : r[k] \notin Refused
        BY ParentIs DEF NameRefused
      <3>. QED BY <3>1, ThereSomething DEF MissingParents
    <2>. QED BY <2>1
  <1>4. \A r \in MissingParents(p) : Folded(r) # Folded(p) /\ Folded(r) \notin DOMAIN disk
    <2>1. ASSUME NEW r \in MissingParents(p), Folded(r) \in DOMAIN disk PROVE FALSE
      <3>1. There(r) = inode[disk[Folded(r)]] /\ There(r).kind = "none"
        BY <2>1, ThereAt DEF MissingParents
      <3>. QED BY <2>1, <3>1 DEF TreeSound, KindsOK
    <2>. QED BY <1>2, <2>1, ParentIs
  <1>5. /\ DOMAIN disk' = DOMAIN Cleared(p) \cup T \cup {Folded(p)}
        /\ \A q \in DOMAIN Cleared(p) : q # Folded(p) =>
             q \in DOMAIN disk /\ disk'[q] = disk[q] /\ inode'[disk[q]] = inode[disk[q]]
        /\ \A r \in MissingParents(p) : inode'[disk'[Folded(r)]] = FreshDir
        /\ inode'[disk'[Folded(p)]] = c
    BY DEF Landed
  <1>6. DOMAIN Cleared(p) \cup {Folded(p)} = DOMAIN disk \cup {Folded(p)}
    <2>1. CASE IsOther(p)
      BY <2>1 DEF Cleared, Restrict
    <2>2. CASE ~IsOther(p)
      BY <2>2 DEF Cleared
    <2>. QED BY <2>1, <2>2
  <1>7. DOMAIN disk' = DOMAIN Tree \cup A \cup {Folded(p)}
    BY <1>1, <1>2, <1>3, <1>5, <1>6
  <1>8. ASSUME NEW q \in DOMAIN disk', q # Folded(p)
        PROVE  inode'[disk'[q]] = Promise!Under(A)[q]
    <2>1. Promise!Under(A)[q] = IF q \in DOMAIN Tree THEN Tree[q] ELSE Promise!NewDir
      BY <1>7, <1>8 DEF Promise!Under, Promise!Onto
    <2>2. CASE q \in DOMAIN Cleared(p)
      BY <1>1, <1>5, <1>8, <2>1, <2>2
    <2>3. CASE q \in T
      BY <1>1, <1>4, <1>5, <2>1, <2>3 DEF Promise!NewDir, FreshDir
    <2>. QED BY <1>5, <1>8, <2>2, <2>3
  <1>9. Tree' = [q \in DOMAIN disk' |-> inode'[disk'[q]]]
    BY DEF Tree
  <1>. HIDE DEF A, T
  <1>10. Promise!With(p, c, A)
           = [q \in DOMAIN Tree \cup A \cup {Folded(p)} |->
                IF q = Folded(p) THEN c ELSE Promise!Under(A)[q]]
    BY <1>1 DEF Promise!With
  <1>. QED BY <1>1, <1>5, <1>7, <1>8, <1>9, <1>10

(* How the loop answers an entry, as Unpacking has it.                      *)
LEMMA EntryFailing ==
  ASSUME NEW e, Reading(e), phase' = "failed", UNCHANGED <<setup, warned>>,
         \/ Promise!Abandoned(PathOf[e.name])
         \/ /\ Promise!MayReplace(PathOf[e.name])
            /\ Tree' = Promise!With(PathOf[e.name], Promise!Cut, Promise!Above(PathOf[e.name]))
  PROVE  Promise!Entry(e)
  BY DEF Reading, Promise!Entry, Promise!EntryFailed

LEMMA EntrySkipping ==
  ASSUME NEW e, Reading(e), UNCHANGED <<setup, phase>>, warned' = warned \cup {read'},
         Promise!Abandoned(PathOf[e.name]),
         Promise!LinksToItself(e) /\ Promise!At(PathOf[e.name]) \in DOMAIN Tree => Tree' = Tree
  PROVE  Promise!Entry(e)
  BY DEF Reading, Promise!Entry, Promise!EntrySkipped

LEMMA EntryPlacing ==
  ASSUME NEW e, Reading(e), UNCHANGED <<setup, phase, warned>>, NEW c \in Promise!Says(e),
         IF e.kind = "dir" /\ (PathOf[e.name] = <<>> \/ Promise!DirAt(Promise!At(PathOf[e.name])))
         THEN Tree' = Tree
         ELSE /\ Promise!MayReplace(PathOf[e.name])
              /\ Tree' = Promise!With(PathOf[e.name], c, Promise!Above(PathOf[e.name]))
  PROVE  Promise!Entry(e)
  BY DEF Reading, Promise!Entry, Promise!EntryPlaced

LEMMA NothingSeen ==
  ASSUME UNCHANGED destination
  PROVE  Tree' = Tree /\ setup' = setup
  BY DEF destination, Tree

LEMMA SeenNothing ==
  ASSUME NEW e, Reading(e), UNCHANGED destination, (Fail /\ UNCHANGED extraction) \/ Warn
  PROVE  Promise!Entry(e)
  <1>1. Tree' = Tree /\ setup' = setup
    BY NothingSeen
  <1>2. Promise!Abandoned(PathOf[e.name])
    BY <1>1 DEF Promise!Abandoned
  <1>3. CASE Fail /\ UNCHANGED extraction
    BY <1>1, <1>2, <1>3, EntryFailing DEF Fail, extraction
  <1>4. CASE Warn
    BY <1>1, <1>2, <1>4, EntrySkipping DEF Warn
  <1>. QED BY <1>3, <1>4

-------------------------------------------------------------------------------
(* What the run knows of its destination, whoever disturbs it: of a link it *)
(* recorded, a text the archive gave; a record is of nothing it may not     *)
(* touch, but directories; and each directory it made is one, there or      *)
(* moved away.                                                              *)
Spellable(p) == p \in Seq(Seq(DOMAIN setup.fold))

LinkTrue(p) ==
  made.at[p].kind = "link" =>
    /\ made.at[p].data \in Promise!LinkTexts
    /\ ~Promise!Disturbed => There(p) = [kind |-> "link", data |-> made.at[p].data]

RecordsTrue ==
  \A p \in DOMAIN made.at :
    /\ Spellable(p) /\ LinkTrue(p)
    /\ Folded(p) \in Untouchable => setup.holds[Folded(p)].kind = "dir"

Lives(id) ==
  /\ id \in away \/ \E q \in DOMAIN disk : disk[q] = id
  /\ inode[id].kind = "dir" /\ inode[id].data # <<"theirs">>
  /\ inode[id] = [kind |-> "dir", data |-> inode[id].data]

DirsLive == \A id \in RunDirs : Lives(id)

NamesKnown == names \subseteq {e.name : e \in Entries}

Says(mode) == \E e \in Entries : e.kind = "dir" /\ e.says = mode
DeferredSaid == \A k \in DOMAIN deferred : Says(deferred[k].mode)

KeysPaths == \A q \in DOMAIN disk : IsPath(q)

Faithful == RecordsTrue /\ DirsLive /\ NamesKnown /\ DeferredSaid /\ KeysPaths

(* What a step adds to the names and the deferred modes.                    *)
Adds ==
  /\ names' \subseteq names \cup {e.name : e \in Entries}
  /\ \A k \in DOMAIN deferred' :
        \/ \E j \in DOMAIN deferred : deferred'[k] = deferred[j]
        \/ Says(deferred'[k].mode) /\ deferred'[k].id \in Range(made'.dirs)

LEMMA SpellableIs ==
  ASSUME NEW p, Spellable(p)
  PROVE  /\ IsPath(p) /\ \A r \in Parents(p) : Spellable(r)
         /\ ~Promise!Disturbed => Folded(p) = p
  <1>. DEFINE C == Seq(DOMAIN setup.fold)
  <1>1. p \in Seq(C) /\ Len(p) \in Nat /\ DOMAIN p = 1 .. Len(p)
    BY DEF Spellable
  <1>. HIDE DEF C
  <1>2. IsPath(p)
    <2>1. p \in [1 .. Len(p) -> Range(p)]
      BY <1>1 DEF Range
    <2>. QED BY <1>1, <2>1 DEF IsPath
  <1>3. \A r \in Parents(p) : r \in Seq(C)
    <2>1. ASSUME NEW k \in 1 .. Len(p) - 1 PROVE SubSeq(p, 1, k) \in Seq(C)
      BY <1>1
    <2>. QED BY <2>1 DEF Parents
  <1>4. ASSUME ~Promise!Disturbed PROVE Folded(p) = p
    <2>1. \A t \in DOMAIN setup.fold : setup.fold[t] = t
      BY <1>4 DEF Promise!Disturbed
    <2>2. ASSUME NEW k \in DOMAIN p PROVE [t \in DOMAIN p[k] |-> setup.fold[p[k][t]]] = p[k]
      <3>1. p[k] \in C
        BY <1>1
      <3>2. \A t \in DOMAIN p[k] : setup.fold[p[k][t]] = p[k][t]
        BY <2>1, <3>1 DEF C
      <3>3. p[k] = [t \in DOMAIN p[k] |-> p[k][t]]
        BY <3>1 DEF C
      <3>. QED BY <3>2, <3>3
    <2>3. p = [k \in DOMAIN p |-> p[k]]
      BY <1>1
    <2>. QED BY <2>2, <2>3 DEF Folded, FoldedBy
  <1>. QED BY <1>2, <1>3, <1>4 DEF Spellable, C

LEMMA LandedRecords ==
  ASSUME DestInv, TreeSound, DestinationTypeOK', RecordsTrue, NEW p, Spellable(p), NEW c, Landed(p, c),
         c # Nothing => ~IsDir(p) /\ Folded(p) \notin Untouchable,
         c.kind = "link" => c.data \in Promise!LinkTexts
  PROVE  RecordsTrue'
  <1>1. /\ setup' = setup
        /\ \A q \in DOMAIN Cleared(p) : q # Folded(p) \/ c = Nothing =>
              q \in DOMAIN disk /\ q \in DOMAIN disk' /\ disk'[q] = disk[q]
                /\ inode'[disk[q]] = inode[disk[q]]
        /\ c # Nothing => Folded(p) \in DOMAIN disk' /\ inode'[disk'[Folded(p)]] = c
    BY DEF Landed
  <1>2. /\ Untouchable' = Untouchable /\ \A q : Folded(q)' = Folded(q)
        /\ \A q : Spellable(q)' <=> Spellable(q)
        /\ Promise!Disturbed' <=> Promise!Disturbed
    BY <1>1 DEF Untouchable, Folded, Spellable, Promise!Disturbed
  <1>3. DestinationTypeOK
    BY DEF DestInv
  <1>4. IsPath(p) /\ (~Promise!Disturbed => Folded(p) = p) /\ \A r \in Parents(p) : Spellable(r)
    BY SpellableIs
  <1>5. ASSUME NEW r \in DOMAIN made'.at, r \in DOMAIN Forgotten(p), made'.at[r] = made.at[r]
        PROVE  /\ Spellable(r)' /\ LinkTrue(r)'
               /\ Folded(r)' \in Untouchable' => setup'.holds[Folded(r)'].kind = "dir"
    <2>1. r \in DOMAIN made.at /\ (IsOther(p) => r # p)
      BY <1>5 DEF Forgotten, Restrict
    <2>2. /\ Spellable(r) /\ LinkTrue(r)
          /\ Folded(r) \in Untouchable => setup.holds[Folded(r)].kind = "dir"
      BY <2>1 DEF RecordsTrue
    <2>3. ASSUME made.at[r].kind = "link", ~Promise!Disturbed
          PROVE  There(r)' = [kind |-> "link", data |-> made.at[r].data]
      <3>1. There(r) = [kind |-> "link", data |-> made.at[r].data]
        BY <2>2, <2>3 DEF LinkTrue
      <3>2. Folded(r) = r /\ Folded(p) = p
        BY <1>4, <2>2, <2>3, SpellableIs
      <3>3. r \in DOMAIN disk /\ There(r) = inode[disk[r]]
        BY <1>3, <3>1, <3>2, ThereSomething, ThereAt
      <3>4. r # p
        BY <2>1, <3>1 DEF IsOther
      <3>5. r \in DOMAIN Cleared(p) /\ r # Folded(p)
        BY <3>2, <3>3, <3>4 DEF Cleared, Restrict
      <3>6. r \in DOMAIN disk' /\ inode'[disk'[r]] = inode[disk[r]]
        BY <1>1, <3>5
      <3>7. disk'[r] # None
        BY <3>6, NoneAssumption DEF DestinationTypeOK
      <3>8. Folded(r)' = r
        BY <1>2, <3>2
      <3>9. There(r)' = inode'[disk'[r]]
        BY <3>6, <3>7, <3>8 DEF There, Identity
      <3>. QED BY <3>1, <3>3, <3>6, <3>9
    <2>4. LinkTrue(r)'
      BY <1>2, <1>5, <2>2, <2>3 DEF LinkTrue
    <2>. QED BY <1>1, <1>2, <2>2, <2>4
  <1>6. ASSUME NEW r \in DOMAIN made'.at, r \in MissingParents(p), made'.at[r].kind = "dir"
        PROVE  /\ Spellable(r)' /\ LinkTrue(r)'
               /\ Folded(r)' \in Untouchable' => setup'.holds[Folded(r)'].kind = "dir"
    <2>1. r \in Parents(p) /\ There(r).kind = "none"
      BY <1>6 DEF MissingParents
    <2>2. Folded(r) \notin Untouchable
      <3>1. ASSUME Folded(r) \in Untouchable PROVE FALSE
        <4>1. Folded(r) \in DOMAIN disk
          BY <3>1 DEF DestInv, Untouched
        <4>. QED BY <1>3, <2>1, <4>1, ThereAt DEF TreeSound, KindsOK
      <3>. QED BY <3>1
    <2>. QED BY <1>2, <1>4, <1>6, <2>1, <2>2 DEF LinkTrue
  <1>7. ASSUME p \in DOMAIN made'.at, c # Nothing,
               made'.at[p].kind = "link" => c = [kind |-> "link", data |-> made'.at[p].data]
        PROVE  /\ Spellable(p)' /\ LinkTrue(p)'
               /\ Folded(p)' \in Untouchable' => setup'.holds[Folded(p)'].kind = "dir"
    <2>1. Folded(p)' \notin Untouchable'
      BY <1>2, <1>7
    <2>2. There(p)' = c
      <3>1. Folded(p) \in DOMAIN disk' /\ inode'[disk'[Folded(p)]] = c
        BY <1>1, <1>7
      <3>2. disk'[Folded(p)] # None
        BY <3>1, NoneAssumption DEF DestinationTypeOK
      <3>. QED BY <1>2, <3>1, <3>2 DEF There, Identity
    <2>3. LinkTrue(p)'
      BY <1>7, <2>2 DEF LinkTrue
    <2>. QED BY <1>2, <2>1, <2>3
  <1>8. \A r \in DOMAIN made'.at :
          \/ r \in DOMAIN Forgotten(p) /\ made'.at[r] = made.at[r]
          \/ r \in MissingParents(p) /\ made'.at[r].kind = "dir"
          \/ /\ r = p /\ c # Nothing
             /\ made'.at[r].kind = "link" => c = [kind |-> "link", data |-> made'.at[r].data]
    BY DEF Landed
  <1>. QED BY <1>5, <1>6, <1>7, <1>8 DEF RecordsTrue

LEMMA LandedDirs ==
  ASSUME DestinationTypeOK, TreeSound, DirsLive, Adds, NEW p, NEW c, Landed(p, c),
         c # Nothing => ~IsDir(p)
  PROVE  DirsLive'
  <1>1. ASSUME NEW id, Lives(id) PROVE Lives(id)'
    <2>1. /\ inode[id].kind = "dir" /\ inode[id].data # <<"theirs">>
          /\ inode[id] = [kind |-> "dir", data |-> inode[id].data]
      BY <1>1 DEF Lives
    <2>2. CASE id \in away
      <3>1. inode'[id] = inode[id] /\ away' = away
        BY <2>2 DEF Landed
      <3>. QED BY <2>1, <2>2, <3>1 DEF Lives
    <2>3. CASE \E q \in DOMAIN disk : disk[q] = id
      <3>1. PICK q \in DOMAIN disk : disk[q] = id
        BY <2>3
      <3>2. q \in DOMAIN Cleared(p)
        <4>1. CASE IsOther(p)
          <5>1. There(p) = inode[disk[Folded(p)]]
            BY <4>1, ThereSomething, ThereAt DEF IsOther
          <5>2. q # Folded(p)
            BY <2>1, <3>1, <4>1, <5>1 DEF IsOther
          <5>. QED BY <4>1, <5>2 DEF Cleared, Restrict
        <4>2. CASE ~IsOther(p)
          BY <4>2 DEF Cleared
        <4>. QED BY <4>1, <4>2
      <3>3. q # Folded(p) \/ c = Nothing
        BY <2>1, <3>1, ThereAt DEF IsDir
      <3>4. q \in DOMAIN disk' /\ disk'[q] = id /\ inode'[id] = inode[id]
        BY <3>1, <3>2, <3>3 DEF Landed
      <3>. QED BY <2>1, <3>4 DEF Lives
    <2>. QED BY <1>1, <2>2, <2>3 DEF Lives
  <1>2. ASSUME NEW id \in Range(made'.dirs) PROVE Lives(id)'
    <2>1. PICK r \in DOMAIN made'.dirs : id = made'.dirs[r]
      BY DEF Range
    <2>2. CASE r \in DOMAIN made.dirs /\ made'.dirs[r] = made.dirs[r]
      <3>1. id \in RunDirs
        BY <2>1, <2>2 DEF RunDirs, Range
      <3>. QED BY <1>1, <3>1 DEF DirsLive
    <2>3. CASE /\ Folded(r) \in DOMAIN disk' /\ disk'[Folded(r)] = made'.dirs[r]
               /\ inode'[made'.dirs[r]] = FreshDir
      BY <2>1, <2>3 DEF Lives, FreshDir
    <2>. QED BY <2>1, <2>2, <2>3 DEF Landed
  <1>3. ASSUME NEW k \in DOMAIN deferred', NEW id, id = deferred'[k].id PROVE Lives(id)'
    <2>1. CASE \E j \in DOMAIN deferred : deferred'[k] = deferred[j]
      <3>1. PICK j \in DOMAIN deferred : deferred'[k] = deferred[j]
        BY <2>1
      <3>2. deferred[j].id \in RunDirs
        BY <3>1 DEF RunDirs
      <3>. QED BY <1>1, <1>3, <3>1, <3>2 DEF DirsLive
    <2>2. CASE deferred'[k].id \in Range(made'.dirs)
      BY <1>2, <1>3, <2>2
    <2>. QED BY <1>3, <2>1, <2>2 DEF Adds
  <1>. QED BY <1>2, <1>3 DEF DirsLive, RunDirs

LEMMA AddsKnown ==
  ASSUME NamesKnown, DeferredSaid, Adds
  PROVE  NamesKnown' /\ DeferredSaid'
  <1>1. NamesKnown'
    BY DEF Adds, NamesKnown
  <1>2. ASSUME NEW k \in DOMAIN deferred' PROVE Says(deferred'[k].mode)
    <2>1. CASE \E j \in DOMAIN deferred : deferred'[k] = deferred[j]
      BY <2>1 DEF DeferredSaid
    <2>. QED BY <2>1 DEF Adds
  <1>3. \A mode : Says(mode)' <=> Says(mode)
    BY DEF Says
  <1>. QED BY <1>1, <1>2, <1>3 DEF DeferredSaid

LEMMA LandedFaithful ==
  ASSUME DestInv, TreeSound, DestinationTypeOK', Faithful, Adds,
         NEW p, Spellable(p), NEW c, Landed(p, c),
         c # Nothing => ~IsDir(p) /\ Folded(p) \notin Untouchable,
         c.kind = "link" => c.data \in Promise!LinkTexts
  PROVE  Faithful'
  <1>1. RecordsTrue'
    BY LandedRecords DEF Faithful
  <1>2. DirsLive'
    BY LandedDirs DEF Faithful, DestInv
  <1>3. KeysPaths'
    <2>1. IsPath(p)
      BY SpellableIs
    <2>2. IsPath(Folded(p)) /\ \A r \in MissingParents(p) : IsPath(Folded(r))
      BY <2>1, FoldedIs, ParentIs DEF MissingParents
    <2>3. DOMAIN Cleared(p) \subseteq DOMAIN disk
      BY DEF Cleared, Restrict
    <2>. QED BY <2>2, <2>3 DEF Landed, KeysPaths, Faithful
  <1>. QED BY <1>1, <1>2, <1>3, AddsKnown DEF Faithful

(* A step that moves nothing, with at most one record more.                 *)
LEMMA StillFaithful ==
  ASSUME Faithful, Adds, UNCHANGED <<setup, disk, inode, away>>, made'.dirs = made.dirs,
         \A r \in DOMAIN made'.at :
            \/ r \in DOMAIN made.at /\ made'.at[r] = made.at[r]
            \/ /\ Spellable(r) /\ LinkTrue(r)'
               /\ Folded(r) \in Untouchable => setup.holds[Folded(r)].kind = "dir"
  PROVE  Faithful'
  <1>1. /\ Untouchable' = Untouchable /\ \A q : Folded(q)' = Folded(q)
        /\ \A q : Spellable(q)' <=> Spellable(q)
        /\ \A q : There(q)' = There(q)
        /\ Promise!Disturbed' <=> Promise!Disturbed
    BY DEF Untouchable, Folded, Spellable, Promise!Disturbed, There, Identity
  <1>2. ASSUME NEW r \in DOMAIN made'.at
        PROVE  /\ Spellable(r)' /\ LinkTrue(r)'
               /\ Folded(r)' \in Untouchable' => setup'.holds[Folded(r)'].kind = "dir"
    <2>1. CASE r \in DOMAIN made.at /\ made'.at[r] = made.at[r]
      <3>1. /\ Spellable(r) /\ LinkTrue(r)
            /\ Folded(r) \in Untouchable => setup.holds[Folded(r)].kind = "dir"
        BY <2>1 DEF Faithful, RecordsTrue
      <3>2. There(r)' = There(r)
        BY DEF There, Identity, Folded
      <3>3. LinkTrue(r)'
        BY <1>1, <2>1, <3>1, <3>2 DEF LinkTrue
      <3>4. Spellable(r)' /\ Folded(r)' = Folded(r)
        BY <3>1 DEF Spellable, Folded
      <3>. QED BY <1>1, <3>1, <3>3, <3>4
    <2>2. CASE /\ Spellable(r) /\ LinkTrue(r)'
               /\ Folded(r) \in Untouchable => setup.holds[Folded(r)].kind = "dir"
      <3>1. Spellable(r)' /\ Folded(r)' = Folded(r)
        BY <2>2 DEF Spellable, Folded
      <3>. QED BY <1>1, <2>2, <3>1
    <2>. QED BY <1>2, <2>1, <2>2
  <1>3. RecordsTrue'
    BY <1>2 DEF RecordsTrue
  <1>4. ASSUME NEW id, Lives(id) PROVE Lives(id)'
    BY <1>4 DEF Lives
  <1>5. ASSUME NEW k \in DOMAIN deferred' PROVE deferred'[k].id \in RunDirs
    BY DEF Adds, RunDirs
  <1>6. Range(made'.dirs) \subseteq RunDirs
    BY DEF RunDirs
  <1>7. DirsLive'
    BY <1>4, <1>5, <1>6 DEF DirsLive, RunDirs, Faithful
  <1>8. KeysPaths'
    BY DEF KeysPaths, Faithful
  <1>. QED BY <1>3, <1>7, <1>8, AddsKnown DEF Faithful

LEMMA NothingFaithful ==
  ASSUME Faithful, UNCHANGED destination, (Fail /\ UNCHANGED extraction) \/ Warn
  PROVE  Faithful'
  <1>1. Adds
    BY DEF Adds, Warn, Fail, extraction
  <1>. QED BY <1>1, StillFaithful DEF destination

(* An entry with a path to go to, and the loop about to take it there.      *)
Ready(e, p) ==
  /\ DestInv /\ TreeSound /\ Faithful /\ DestinationTypeOK' /\ setup.verb = "unpack"
  /\ Reading(e) /\ p = PathOf[e.name] /\ p # Unsafe /\ p # Root /\ Spellable(p)

ToItself(e, p) == Promise!LinksToItself(e) /\ Folded(p) \in DOMAIN disk

LEMMA DeclinedPromised ==
  ASSUME NEW e, NEW p, Ready(e, p), NEW placingDir, Declined(p, placingDir)
  PROVE  Promise!Entry(e) /\ Faithful'
  BY SeenNothing, NothingFaithful DEF Declined, Ready

LEMMA SkippedPromised ==
  ASSUME NEW e, NEW p, Ready(e, p), UNCHANGED destination, (Fail /\ UNCHANGED extraction) \/ Warn
  PROVE  Promise!Entry(e) /\ Faithful'
  BY SeenNothing, NothingFaithful DEF Ready

LEMMA NoNodePromised ==
  ASSUME NEW e, NEW p, Ready(e, p), NEW placingDir \in BOOLEAN, Proceeds(p, placingDir, Forced),
         MakeParentsOnly(p), (Fail /\ UNCHANGED extraction) \/ Warn, ~ToItself(e, p)
  PROVE  Promise!Entry(e) /\ Faithful'
  <1>1. /\ DestinationTypeOK /\ IsPath(p) /\ Clear(p) /\ p = PathOf[e.name] /\ Reading(e)
    BY SpellableIs, ProceedsClear DEF Ready, DestInv
  <1>2. Landed(p, Nothing)
    BY <1>1, ParentsLand DEF Ready
  <1>3. IsOther(p) => Promise!MayReplace(p)
    BY <1>1, ProceedsMay DEF Ready, IsOther, IsDir
  <1>4. Promise!Abandoned(p)
    BY <1>1, <1>2, <1>3, LandedNothing DEF Ready
  <1>5. Adds
    BY DEF Adds, Warn, Fail, extraction
  <1>6. Nothing.kind # "link"
    BY DEF Nothing
  <1>7. Faithful'
    BY <1>2, <1>5, <1>6, LandedFaithful DEF Ready
  <1>8. setup' = setup
    BY <1>2 DEF Landed
  <1>9. CASE Fail /\ UNCHANGED extraction
    BY <1>1, <1>4, <1>7, <1>8, <1>9, EntryFailing DEF Fail, extraction
  <1>10. CASE Warn
    <2>1. Promise!At(p) = Folded(p) /\ DOMAIN Tree = DOMAIN disk
      BY <1>1, Spelled
    <2>2. ~(Promise!LinksToItself(e) /\ Promise!At(PathOf[e.name]) \in DOMAIN Tree)
      BY <1>1, <2>1 DEF ToItself
    <2>3. UNCHANGED <<setup, phase>> /\ warned' = warned \cup {read'}
      BY <1>8, <1>10 DEF Warn
    <2>. QED BY <1>1, <1>4, <1>7, <2>2, <2>3, EntrySkipping
  <1>. QED BY <1>9, <1>10

LEMMA LandedPromised ==
  ASSUME NEW e, NEW p, Ready(e, p), NEW placingDir \in BOOLEAN, Proceeds(p, placingDir, Forced),
         ~IsDir(p), ~NameRefused(p), NEW c, c # Nothing, Landed(p, c), Adds,
         c.kind = "link" => c.data \in Promise!LinkTexts,
         \/ c \in Promise!Says(e) /\ UNCHANGED <<phase, warned>>
         \/ c = Promise!Cut /\ Fail /\ UNCHANGED warned
  PROVE  Promise!Entry(e) /\ Faithful'
  <1>1. /\ DestinationTypeOK /\ IsPath(p) /\ Clear(p) /\ p = PathOf[e.name] /\ Reading(e)
    BY SpellableIs, ProceedsClear DEF Ready, DestInv
  <1>2. Promise!MayReplace(p)
    BY <1>1, ProceedsMay DEF Ready
  <1>3. Tree' = Promise!With(p, c, Promise!Above(p))
    BY <1>1, LandedSomething DEF Ready
  <1>4. Folded(p) \notin Untouchable
    BY ProceedsApart DEF Ready, Apart
  <1>5. Faithful'
    BY <1>4, LandedFaithful DEF Ready
  <1>6. setup' = setup
    BY DEF Landed
  <1>7. CASE c \in Promise!Says(e) /\ UNCHANGED <<phase, warned>>
    <2>1. Promise!At(p) = Folded(p) /\ ~Promise!DirAt(Promise!At(p))
      BY <1>1, Spelled
    <2>2. p # <<>>
      BY DEF Ready, Root
    <2>. QED BY <1>1, <1>2, <1>3, <1>5, <1>6, <1>7, <2>1, <2>2, EntryPlacing
  <1>8. CASE c = Promise!Cut /\ Fail /\ UNCHANGED warned
    BY <1>1, <1>2, <1>3, <1>5, <1>6, <1>8, EntryFailing DEF Fail
  <1>. QED BY <1>7, <1>8

LEMMA MadePromised ==
  ASSUME NEW e, NEW p, Ready(e, p), NEW placingDir \in BOOLEAN, Proceeds(p, placingDir, Forced),
         ~IsDir(p), ~NameRefused(p),
         NEW node, node.kind # "none", NEW kind, NEW isNew \in BOOLEAN,
         isNew => node = FreshDir,
         kind = "link" => node = [kind |-> "link", data |-> node.data],
         MakeAt(p, node, kind, isNew), Adds,
         node.kind = "link" => node.data \in Promise!LinkTexts,
         \/ node \in Promise!Says(e) /\ UNCHANGED <<phase, warned>>
         \/ node = Promise!Cut /\ Fail /\ UNCHANGED warned
  PROVE  Promise!Entry(e) /\ Faithful'
  <1>1. DestinationTypeOK /\ TreeSound /\ IsPath(p) /\ Clear(p)
    BY SpellableIs, ProceedsClear DEF Ready, DestInv
  <1>2. Landed(p, node)
    BY <1>1, MakeAtLands
  <1>3. node # Nothing
    BY DEF Nothing
  <1>. QED BY <1>2, <1>3, LandedPromised

LEMMA EntryReady ==
  ASSUME UnpackInv, TreeSound, Faithful, DestinationTypeOK', setup.verb = "unpack",
         NEW e \in Entries, Reading(e), Contained(e), PathOf[e.name] # Root
  PROVE  Ready(e, PathOf[e.name])
  <1>1. PathOf[e.name] # Unsafe
    BY DEF Contained
  <1>2. DestInv /\ setup \in Setups
    BY DEF UnpackInv, DestInv
  <1>3. Spellable(PathOf[e.name])
    BY <1>1, <1>2, FoldsPaths DEF Spellable
  <1>. QED BY <1>1, <1>2, <1>3 DEF Ready

LEMMA RecordingAdds ==
  ASSUME NEW e \in Entries, Recording(e), deferred' = deferred
  PROVE  Adds
  BY DEF Adds, Recording

LEMMA DeferringAdds ==
  ASSUME NEW e \in Entries, e.kind = "dir", deferred \in Seq(DeferredDir), NEW p,
         Recording(e), Deferring(e, p)
  PROVE  Adds
  <1>1. names' \subseteq names \cup {f.name : f \in Entries}
    BY DEF Recording
  <1>2. CASE deferred' = deferred
    BY <1>1, <1>2 DEF Adds
  <1>3. CASE p \in DOMAIN made'.dirs
    <2>. DEFINE d == [path |-> p, mode |-> e.says, id |-> made'.dirs[p], entry |-> read']
    <2>1. deferred' = Append(deferred, d)
      BY <1>3 DEF Deferring
    <2>2. d.mode = e.says /\ d.id = made'.dirs[p]
      OBVIOUS
    <2>3. Says(d.mode) /\ d.id \in Range(made'.dirs)
      BY <1>3, <2>2 DEF Says, Range
    <2>. HIDE DEF d
    <2>4. \A k \in DOMAIN deferred' : (\E j \in DOMAIN deferred : deferred'[k] = deferred[j]) \/ deferred'[k] = d
      BY <2>1
    <2>. QED BY <1>1, <2>3, <2>4 DEF Adds
  <1>. QED BY <1>2, <1>3 DEF Deferring

LEMMA FilePromised ==
  ASSUME NEW e \in Entries, NEW p, Ready(e, p), FileEntry(e)
  PROVE  Promise!Entry(e) /\ Faithful'
  <1>1. e.kind = "file" /\ p = PathOf[e.name]
    BY DEF FileEntry, Ready
  <1>2. CASE Declined(p, FALSE)
    BY <1>2, DeclinedPromised
  <1>3. CASE Proceeds(p, FALSE, Forced) /\ MakeParentsOnly(p) /\ ((Fail /\ UNCHANGED extraction) \/ Warn)
    <2>1. ~ToItself(e, p)
      BY <1>1 DEF ToItself, Promise!LinksToItself
    <2>. QED BY <1>3, <2>1, NoNodePromised
  <1>4. ASSUME Proceeds(p, FALSE, Forced), ~NameRefused(p), NEW node, NEW kind, node.kind = "file",
               kind # "link", MakeAt(p, node, kind, FALSE), Adds,
               \/ node \in Promise!Says(e) /\ UNCHANGED <<phase, warned>>
               \/ node = Promise!Cut /\ Fail /\ UNCHANGED warned
        PROVE  Promise!Entry(e) /\ Faithful'
    <2>1. ~IsDir(p)
      BY <1>4, ProceedsToNoDir
    <2>2. node.kind # "none" /\ node.kind # "link"
      BY <1>4
    <2>. QED BY <1>4, <2>1, <2>2, MadePromised
  <1>5. CASE /\ Proceeds(p, FALSE, Forced) /\ ~NameRefused(p)
             /\ MakeAt(p, [kind |-> "file", data |-> <<"cut">>], "none", FALSE)
             /\ Fail /\ UNCHANGED extraction
    <2>1. Adds
      BY <1>5 DEF Adds, extraction
    <2>2. UNCHANGED warned
      BY <1>5 DEF extraction
    <2>3. [kind |-> "file", data |-> <<"cut">>] = Promise!Cut
      BY DEF Promise!Cut
    <2>. QED BY <1>4, <1>5, <2>1, <2>2, <2>3
  <1>6. CASE /\ Proceeds(p, FALSE, Forced) /\ ~NameRefused(p)
             /\ MakeAt(p, [kind |-> "file", data |-> Payloads[read']], "file", FALSE)
             /\ Recording(e) /\ UNCHANGED <<phase, warned, deferred, lost>>
    <2>1. Adds
      BY <1>6, RecordingAdds
    <2>2. [kind |-> "file", data |-> Payloads[read']] \in Promise!Says(e)
      BY <1>1 DEF Promise!Says
    <2>. QED BY <1>4, <1>6, <2>1, <2>2
  <1>. QED BY <1>1, <1>2, <1>3, <1>5, <1>6 DEF FileEntry, RefusedName, CreateFails

LEMMA PlaceSymlinkPromised ==
  ASSUME NEW e \in Entries, NEW p, Ready(e, p), NEW text, PlaceSymlink(e, p, text),
         text \in Promise!LinkTexts, [kind |-> "link", data |-> text] \in Promise!Says(e),
         Proceeds(p, FALSE, Forced) => ~ToItself(e, p)
  PROVE  Promise!Entry(e) /\ Faithful'
  <1>1. CASE UNCHANGED destination /\ ((Fail /\ UNCHANGED extraction) \/ Warn)
    BY <1>1, SkippedPromised
  <1>2. CASE Declined(p, FALSE)
    BY <1>2, DeclinedPromised
  <1>3. CASE Proceeds(p, FALSE, Forced) /\ MakeParentsOnly(p) /\ ((Fail /\ UNCHANGED extraction) \/ Warn)
    BY <1>3, NoNodePromised
  <1>4. CASE /\ Proceeds(p, FALSE, Forced) /\ ~NameRefused(p)
             /\ MakeAt(p, [kind |-> "link", data |-> text], "link", FALSE)
             /\ Recording(e) /\ UNCHANGED <<phase, warned, deferred, lost>>
    <2>. DEFINE node == [kind |-> "link", data |-> text]
    <2>1. ~IsDir(p)
      BY <1>4, ProceedsToNoDir
    <2>2. Adds
      BY <1>4, RecordingAdds
    <2>3. /\ node.kind # "none" /\ node = [kind |-> "link", data |-> node.data]
          /\ node.data \in Promise!LinkTexts /\ node \in Promise!Says(e)
      OBVIOUS
    <2>4. MakeAt(p, node, "link", FALSE)
      BY <1>4
    <2>. HIDE DEF node
    <2>. QED BY <1>4, <2>1, <2>2, <2>3, <2>4, MadePromised
  <1>. QED BY <1>1, <1>2, <1>3, <1>4 DEF PlaceSymlink, RefusedName, CreateFails

LEMMA SymlinkPromised ==
  ASSUME NEW e \in Entries, NEW p, Ready(e, p), SymlinkEntry(e)
  PROVE  Promise!Entry(e) /\ Faithful'
  <1>1. e.kind = "symlink" /\ p = PathOf[e.name] /\ PlaceSymlink(e, p, e.says)
    BY DEF SymlinkEntry, Ready
  <1>2. e.says \in Promise!LinkTexts
    BY <1>1 DEF Promise!LinkTexts
  <1>3. [kind |-> "link", data |-> e.says] \in Promise!Says(e)
    BY <1>1 DEF Promise!Says
  <1>4. ~ToItself(e, p)
    BY <1>1 DEF ToItself, Promise!LinksToItself
  <1>. QED BY <1>1, <1>2, <1>3, <1>4, PlaceSymlinkPromised

(* What stands at a hard link's target is what the entry says.              *)
LEMMA TargetSaid ==
  ASSUME NEW e, e.kind = "hardlink", DestinationTypeOK, NEW t, t = PathOf[e.to], IsPath(t),
         There(t).kind \notin {"none", "dir"}
  PROVE  There(t) \in Promise!Says(e)
  <1>1. /\ Promise!At(t) = Folded(t) /\ ~Promise!DirAt(Folded(t))
        /\ DOMAIN Tree = DOMAIN disk /\ \A q \in DOMAIN disk : Tree[q] = inode[disk[q]]
    BY Spelled DEF IsDir
  <1>2. Folded(t) \in DOMAIN disk
    BY ThereSomething
  <1>3. Tree[Folded(t)] = There(t)
    BY <1>1, <1>2, ThereAt
  <1>. QED BY <1>1, <1>2, <1>3 DEF Promise!Says

LEMMA LinkOrCopyPromised ==
  ASSUME NEW e \in Entries, NEW p, Ready(e, p), e.kind = "hardlink",
         NEW t, t = PathOf[e.to], IsPath(t), LinkOrCopy(e, p, t),
         Proceeds(p, FALSE, Forced) => ~ToItself(e, p)
  PROVE  Promise!Entry(e) /\ Faithful'
  <1>0. DestinationTypeOK /\ TreeSound /\ IsPath(p)
    BY SpellableIs DEF Ready, DestInv
  <1>1. CASE UNCHANGED destination /\ ((Fail /\ UNCHANGED extraction) \/ Warn)
    BY <1>1, SkippedPromised
  <1>2. CASE Declined(p, FALSE)
    BY <1>2, DeclinedPromised
  <1>3. CASE Proceeds(p, FALSE, Forced) /\ MakeParentsOnly(p) /\ ((Fail /\ UNCHANGED extraction) \/ Warn)
    BY <1>3, NoNodePromised
  <1>4. ASSUME There(t).kind = "file" PROVE There(t) \in Promise!Says(e)
    BY <1>0, <1>4, TargetSaid
  <1>5. CASE /\ Proceeds(p, FALSE, Forced) /\ ~NameRefused(p)
             /\ MakeAt(p, [kind |-> "file", data |-> <<"cut">>], "none", FALSE)
             /\ Fail /\ UNCHANGED extraction
    <2>. DEFINE node == [kind |-> "file", data |-> <<"cut">>]
    <2>1. Adds
      BY <1>5 DEF Adds, extraction
    <2>2. UNCHANGED warned
      BY <1>5 DEF extraction
    <2>3. node = Promise!Cut /\ node.kind # "none" /\ node.kind # "link"
      BY DEF Promise!Cut
    <2>4. ~IsDir(p) /\ MakeAt(p, node, "none", FALSE)
      BY <1>5, ProceedsToNoDir
    <2>. HIDE DEF node
    <2>. QED BY <1>5, <2>1, <2>2, <2>3, <2>4, MadePromised
  <1>6. CASE /\ Proceeds(p, FALSE, Forced) /\ ~NameRefused(p) /\ There(t).kind = "file"
             /\ MakeAt(p, There(t), "hard", FALSE)
             /\ Recording(e) /\ UNCHANGED <<phase, warned, deferred, lost>>
    <2>1. Adds
      BY <1>6, RecordingAdds
    <2>2. ~IsDir(p) /\ There(t) \in Promise!Says(e)
      BY <1>4, <1>6, ProceedsToNoDir
    <2>3. There(t).kind # "none" /\ There(t).kind # "link"
      BY <1>6
    <2>. QED BY <1>6, <2>1, <2>2, <2>3, MadePromised
  <1>7. CASE /\ Proceeds(p, FALSE, Forced) /\ ~NameRefused(p) /\ There(t).kind = "file"
             /\ Folded(t) \in DOMAIN Cleared(p)
             /\ \E fresh \in Fresh(MissingParents(p), Cleared(p)) : LinkTo(p, t, fresh)
             /\ Recording(e) /\ UNCHANGED <<phase, warned, deferred, lost>>
    <2>1. Adds
      BY <1>7, RecordingAdds
    <2>2. ~IsDir(p) /\ There(t) \in Promise!Says(e) /\ Clear(p)
      BY <1>4, <1>7, ProceedsToNoDir, ProceedsClear
    <2>3. There(t) # Nothing /\ There(t).kind # "link"
      BY <1>7 DEF Nothing
    <2>4. Landed(p, There(t))
      BY <1>0, <1>7, <2>2, LinkToLands
    <2>. QED BY <1>7, <2>1, <2>2, <2>3, <2>4, LandedPromised
  <1>. QED BY <1>1, <1>2, <1>3, <1>5, <1>6, <1>7 DEF LinkOrCopy, RefusedName, CreateFails, LinkTo

LEMMA AlreadyLinkedPromised ==
  ASSUME NEW e \in Entries, NEW p, Ready(e, p), e.kind = "hardlink",
         NEW t, t = PathOf[e.to], t \in DOMAIN made.at, OneInode(t, p), AlreadyLinked(e, p, t)
  PROVE  Promise!Entry(e) /\ Faithful'
  <1>0. /\ DestInv /\ DestinationTypeOK /\ TreeSound /\ Faithful /\ IsPath(p)
        /\ Reading(e) /\ p = PathOf[e.name] /\ Spellable(p)
    BY SpellableIs DEF Ready, DestInv
  <1>1. CASE ~DistinctName(t, p)
    BY <1>1, SkippedPromised DEF AlreadyLinked
  <1>2. CASE DistinctName(t, p)
    <2>. DEFINE k == made.at[t]
                kind == IF k.kind = "link" THEN "link" ELSE "hard"
    <2>1. /\ Forced /\ Recording(e)
          /\ made' = Recorded(made, p, kind, k.data, Identity(p))
          /\ UNCHANGED <<setup, disk, inode, away, archive, phase, warned, deferred, lost>>
      BY <1>2 DEF AlreadyLinked
    <2>2. /\ Identity(t) = Identity(p) /\ Identity(p) # None /\ There(p) = There(t)
          /\ Folded(p) \in DOMAIN disk /\ Folded(t) \in DOMAIN disk
      BY DEF OneInode, There, Identity
    <2>3. /\ There(t) = inode[disk[Folded(t)]] /\ Identity(t) = disk[Folded(t)]
          /\ There(p) = inode[disk[Folded(p)]]
      BY <1>0, <2>2, ThereAt
    <2>4. There(t).kind # "none"
      BY <1>0, <2>2, <2>3 DEF TreeSound, KindsOK
    <2>5. There(t).kind # "dir"
      <3>. DEFINE N == {q \in DOMAIN disk : disk[q] = Identity(t)}
      <3>1. ASSUME There(t).kind = "dir" PROVE FALSE
        <4>1. N = {Folded(t)}
          BY <1>0, <2>2, <2>3, <3>1 DEF TreeSound, DirsOnce
        <4>2. Cardinality(N) = 1
          BY <4>1, FS_Singleton
        <4>. QED BY <1>2, <4>2 DEF DistinctName, OneEntry, Links
      <3>. QED BY <3>1
    <2>6. Spellable(t) /\ IsPath(t) /\ LinkTrue(t)
      BY <1>0, SpellableIs DEF Faithful, RecordsTrue
    <2>7. There(t) \in Promise!Says(e)
      BY <1>0, <2>4, <2>5, <2>6, TargetSaid
    <2>8. p \in DOMAIN made.at
      BY <1>2 DEF DistinctName, MadeExact
    <2>9. Folded(p) \notin Untouchable
      <3>1. ASSUME Folded(p) \in Untouchable PROVE FALSE
        <4>1. setup.holds[Folded(p)].kind = "dir"
          BY <1>0, <2>8, <3>1 DEF Faithful, RecordsTrue
        <4>2. inode[disk[Folded(p)]] = setup.holds[Folded(p)]
          BY <1>0, <3>1 DEF DestInv, Untouched
        <4>. QED BY <2>2, <2>3, <2>5, <4>1, <4>2
      <3>. QED BY <3>1
    <2>10. /\ Promise!At(p) = Folded(p) /\ (Promise!DirAt(Folded(p)) <=> IsDir(p))
           /\ Promise!Above(p) = {Folded(r) : r \in Parents(p)}
           /\ DOMAIN Tree = DOMAIN disk /\ \A q \in DOMAIN disk : Tree[q] = inode[disk[q]]
      BY <1>0, Spelled
    <2>11. ~IsDir(p)
      BY <2>2, <2>5 DEF IsDir
    <2>12. Promise!MayReplace(p)
      <3>1. setup.archive \in DOMAIN setup.holds => setup.archive \in Untouchable
        BY DEF Untouchable
      <3>2. p # <<>> /\ p # Unsafe
        BY DEF Ready, Root
      <3>. QED BY <2>1, <2>9, <2>10, <2>11, <3>1, <3>2 DEF Promise!MayReplace, Forced
    <2>13. \A r \in Parents(p) : Folded(r) \in DOMAIN disk
      <3>1. Parents(Folded(p)) = {Folded(r) : r \in Parents(p)}
        BY <1>0, FoldedParents
      <3>. QED BY <1>0, <2>2, <3>1 DEF TreeSound, InDirs
    <2>14. Tree = Promise!With(p, There(t), Promise!Above(p))
      <3>. DEFINE A == Promise!Above(p)
      <3>1. DOMAIN Tree \cup A \cup {Folded(p)} = DOMAIN Tree
        BY <2>2, <2>10, <2>13
      <3>2. Tree = [q \in DOMAIN Tree |-> Tree[q]]
        BY DEF Tree
      <3>3. \A q \in DOMAIN Tree : q # Folded(p) => Promise!Under(A)[q] = Tree[q]
        BY DEF Promise!Under, Promise!Onto
      <3>4. Tree[Folded(p)] = There(t)
        BY <2>2, <2>3, <2>10
      <3>. HIDE DEF A
      <3>5. Promise!With(p, There(t), A)
              = [q \in DOMAIN Tree |-> IF q = Folded(p) THEN There(t) ELSE Promise!Under(A)[q]]
        BY <2>10, <3>1 DEF Promise!With
      <3>6. \A q \in DOMAIN Tree :
              Tree[q] = IF q = Folded(p) THEN There(t) ELSE Promise!Under(A)[q]
        BY <3>3, <3>4
      <3>7. Tree = Promise!With(p, There(t), A)
        BY <3>2, <3>5, <3>6
      <3>. QED BY <3>7 DEF A
    <2>15. Tree' = Tree
      BY <2>1 DEF Tree
    <2>16. Promise!Entry(e)
      <3>1. UNCHANGED <<setup, phase, warned>> /\ e.kind # "dir"
        BY <2>1
      <3>2. Tree' = Promise!With(p, There(t), Promise!Above(p))
        BY <2>14, <2>15
      <3>. QED BY <1>0, <2>7, <2>12, <3>1, <3>2, EntryPlacing
    <2>17. Faithful'
      <3>. DEFINE w == [kind |-> kind, data |-> k.data, id |-> Identity(p)]
      <3>1. Adds
        BY <2>1, RecordingAdds
      <3>2. made'.dirs = made.dirs /\ made'.at = Put(made.at, p, w)
        BY <2>1 DEF Recorded
      <3>3. There(p)' = There(p) /\ (Promise!Disturbed' <=> Promise!Disturbed)
        BY <2>1 DEF There, Identity, Folded, Promise!Disturbed
      <3>4. p \in DOMAIN made'.at /\ made'.at[p] = w
        BY <3>2 DEF Put
      <3>5. LinkTrue(p)'
        <4>1. w.kind = "link" => k.kind = "link"
          OBVIOUS
        <4>2. w.data = k.data
          OBVIOUS
        <4>. QED BY <2>2, <2>6, <3>3, <3>4, <4>1, <4>2 DEF LinkTrue
      <3>. HIDE DEF w
      <3>6. \A r \in DOMAIN made'.at : r # p => r \in DOMAIN made.at /\ made'.at[r] = made.at[r]
        BY <3>2 DEF Put
      <3>7. UNCHANGED <<setup, disk, inode, away>>
        BY <2>1
      <3>. QED BY <1>0, <2>9, <3>1, <3>2, <3>5, <3>6, <3>7, StillFaithful
    <2>. QED BY <2>16, <2>17
  <1>. QED BY <1>1, <1>2

(* A hard link whose own name is its target's, and there, is answered as    *)
(* one inode already: place never removes what it is to link to.            *)
LEMMA HardLinkPromised ==
  ASSUME NEW e \in Entries, NEW p, Ready(e, p), HardLinkEntry(e)
  PROVE  Promise!Entry(e) /\ Faithful'
  <1>. DEFINE t == PathOf[e.to]
              kind == made.at[t].kind
  <1>1. /\ e.kind = "hardlink" /\ p = PathOf[e.name]
        /\ DestInv /\ DestinationTypeOK /\ TreeSound /\ Faithful /\ IsPath(p)
    BY SpellableIs DEF HardLinkEntry, Ready, DestInv
  <1>2. CASE UNCHANGED destination /\ ((Fail /\ UNCHANGED extraction) \/ Warn)
    BY <1>2, SkippedPromised
  <1>3. CASE PathOf[e.to] # Unsafe /\ ~NoTarget(e) /\ HardLinkTo(e, p, t)
    <2>1. t \in DOMAIN made.at /\ Spellable(t) /\ LinkTrue(t) /\ IsPath(t)
      BY <1>1, <1>3, SpellableIs DEF NoTarget, Resolves, Faithful, RecordsTrue
    <2>2. CASE kind # "dir" /\ OneInode(t, p) /\ (DistinctName(t, p) => Forced)
      <3>1. AlreadyLinked(e, p, t)
        BY <1>3, <2>2 DEF HardLinkTo
      <3>. QED BY <1>1, <2>1, <2>2, <3>1, AlreadyLinkedPromised
    <2>3. CASE kind # "dir" /\ ~(OneInode(t, p) /\ (DistinctName(t, p) => Forced))
      <3>1. ASSUME Proceeds(p, FALSE, Forced), ToItself(e, p) PROVE FALSE
        <4>1. Folded(p) \in DOMAIN disk /\ Folded(t) = Folded(p)
          BY <1>1, <2>1, <3>1, Spelled DEF ToItself, Promise!LinksToItself
        <4>2. Identity(p) # None /\ Identity(t) = Identity(p)
          BY <1>1, <4>1, ThereAt, NoneAssumption DEF Identity
        <4>3. ~Forced
          BY <2>3, <4>2 DEF OneInode
        <4>4. ~IsDir(p) /\ Clear(p)
          BY <3>1, ProceedsToNoDir, ProceedsClear
        <4>5. IsOther(p)
          BY <1>1, <4>1, <4>4, NothingThere DEF TreeSound
        <4>. QED BY <3>1, <4>3, <4>4, <4>5 DEF Proceeds, Held
      <3>2. \/ kind = "link" /\ PlaceSymlink(e, p, made.at[t].data)
            \/ LinkOrCopy(e, p, t)
        BY <1>3, <2>3 DEF HardLinkTo
      <3>3. CASE kind = "link" /\ PlaceSymlink(e, p, made.at[t].data)
        <4>. DEFINE text == made.at[t].data
        <4>1. text \in Promise!LinkTexts
          BY <2>1, <3>3 DEF LinkTrue
        <4>2. [kind |-> "link", data |-> text] \in Promise!Says(e)
          <5>1. CASE Promise!Disturbed
            BY <1>1, <4>1, <5>1 DEF Promise!Says
          <5>2. CASE ~Promise!Disturbed
            <6>1. There(t) = [kind |-> "link", data |-> text]
              BY <2>1, <3>3, <5>2 DEF LinkTrue
            <6>2. There(t).kind \notin {"none", "dir"}
              BY <6>1
            <6>3. There(t) \in Promise!Says(e)
              BY <1>1, <2>1, <6>2, TargetSaid
            <6>. QED BY <6>1, <6>3
          <5>. QED BY <5>1, <5>2
        <4>3. PlaceSymlink(e, p, text)
          BY <3>3
        <4>. HIDE DEF text
        <4>. QED BY <3>1, <4>1, <4>2, <4>3, PlaceSymlinkPromised
      <3>4. CASE LinkOrCopy(e, p, t)
        BY <1>1, <2>1, <3>1, <3>4, LinkOrCopyPromised
      <3>. QED BY <3>2, <3>3, <3>4
    <2>4. CASE kind = "dir"
      BY <1>2, <1>3, <2>4 DEF HardLinkTo
    <2>. QED BY <2>2, <2>3, <2>4
  <1>. QED BY <1>1, <1>2, <1>3 DEF HardLinkEntry

LEMMA DirPromised ==
  ASSUME NEW e \in Entries, NEW p, Ready(e, p), UnpackInv, DirEntry(e)
  PROVE  Promise!Entry(e) /\ Faithful'
  <1>1. /\ e.kind = "dir" /\ p = PathOf[e.name] /\ Reading(e) /\ Spellable(p) /\ IsPath(p)
        /\ DestInv /\ DestinationTypeOK /\ TreeSound /\ Faithful /\ deferred \in Seq(DeferredDir)
    BY SpellableIs DEF DirEntry, Ready, DestInv, UnpackInv, ExtractTypes
  <1>2. ~ToItself(e, p)
    BY <1>1 DEF ToItself, Promise!LinksToItself
  <1>3. Promise!NewDir \in Promise!Says(e)
    BY <1>1 DEF Promise!Says
  <1>4. CASE Declined(p, TRUE)
    BY <1>4, DeclinedPromised
  <1>5. CASE Proceeds(p, TRUE, Forced) /\ (RefusedName(p) \/ CreateFails(p))
    BY <1>2, <1>5, NoNodePromised DEF RefusedName, CreateFails
  <1>6. CASE /\ Proceeds(p, TRUE, Forced) /\ ~NameRefused(p) /\ ~IsDir(p)
             /\ MakeAt(p, FreshDir, "dir", TRUE)
             /\ Recording(e) /\ Deferring(e, p) /\ UNCHANGED <<phase, warned, lost>>
    <2>1. Adds
      BY <1>1, <1>6, DeferringAdds
    <2>2. FreshDir.kind = "dir" /\ FreshDir = Promise!NewDir
      BY DEF FreshDir, Promise!NewDir
    <2>3. FreshDir.kind # "none" /\ FreshDir.kind # "link" /\ FreshDir \in Promise!Says(e)
      BY <1>3, <2>2
    <2>. QED BY <1>6, <2>1, <2>3, MadePromised
  <1>7. CASE /\ IsDir(p) /\ made' = Recorded(made, p, "dir", <<>>, Identity(p))
             /\ UNCHANGED <<setup, disk, inode, away, archive>>
             /\ Recording(e) /\ Deferring(e, p) /\ UNCHANGED <<phase, warned, lost>>
    <2>. DEFINE w == [kind |-> "dir", data |-> <<>>, id |-> Identity(p)]
    <2>1. Adds
      BY <1>1, <1>7, DeferringAdds
    <2>2. Tree' = Tree
      BY <1>7 DEF Tree
    <2>3. Promise!DirAt(Promise!At(p))
      BY <1>1, <1>7, Spelled
    <2>4. Promise!Entry(e)
      BY <1>1, <1>3, <1>7, <2>2, <2>3, EntryPlacing
    <2>5. made'.dirs = made.dirs /\ made'.at = Put(made.at, p, w)
      BY <1>7 DEF Recorded
    <2>6. /\ made'.at[p] = w
          /\ \A r \in DOMAIN made'.at : r # p => r \in DOMAIN made.at /\ made'.at[r] = made.at[r]
      BY <2>5 DEF Put
    <2>7. LinkTrue(p)'
      BY <2>6 DEF LinkTrue
    <2>8. Folded(p) \in Untouchable => setup.holds[Folded(p)].kind = "dir"
      <3>1. ASSUME Folded(p) \in Untouchable PROVE setup.holds[Folded(p)].kind = "dir"
        <4>1. Folded(p) \in DOMAIN disk /\ inode[disk[Folded(p)]] = setup.holds[Folded(p)]
          BY <1>1, <3>1 DEF DestInv, Untouched
        <4>. QED BY <1>1, <1>7, <4>1, ThereAt DEF IsDir
      <3>. QED BY <3>1
    <2>9. UNCHANGED <<setup, disk, inode, away>>
      BY <1>7
    <2>10. Faithful'
      BY <1>1, <2>1, <2>5, <2>6, <2>7, <2>8, <2>9, StillFaithful
    <2>. QED BY <2>4, <2>10
  <1>. QED BY <1>1, <1>4, <1>5, <1>6, <1>7 DEF DirEntry

LEMMA EntryPromised ==
  ASSUME UnpackInv, setup.verb = "unpack", TreeSound, Faithful, NEW e \in Entries,
         \/ Uncontained(e) \/ DestinationEntry(e) \/ DirEntry(e)
         \/ FileEntry(e) \/ SymlinkEntry(e) \/ HardLinkEntry(e) \/ SpecialEntry(e)
  PROVE  Promise!Entry(e) /\ Faithful'
  <1>1. DestinationTypeOK'
    <2>1. UnpackInv'
      BY EntryKeeps
    <2>. QED BY <2>1 DEF UnpackInv, DestInv
  <1>2. CASE Uncontained(e)
    BY <1>2, SeenNothing, NothingFaithful DEF Uncontained, destination, extraction
  <1>3. CASE SpecialEntry(e)
    BY <1>3, SeenNothing, NothingFaithful DEF SpecialEntry
  <1>4. CASE DestinationEntry(e)
    <2>1. e.kind = "dir" /\ PathOf[e.name] = <<>>
      BY <1>4 DEF DestinationEntry, Contained, Root
    <2>2. Reading(e) /\ UNCHANGED <<setup, phase, warned>> /\ UNCHANGED destination /\ Tree' = Tree
      BY <1>4, NothingSeen DEF DestinationEntry, destination
    <2>3. Promise!NewDir \in Promise!Says(e)
      BY <2>1 DEF Promise!Says
    <2>4. Promise!Entry(e)
      BY <2>1, <2>2, <2>3, EntryPlacing
    <2>5. Adds
      BY <1>4, RecordingAdds DEF DestinationEntry
    <2>6. Faithful'
      BY <2>2, <2>5, StillFaithful DEF destination
    <2>. QED BY <2>4, <2>6
  <1>5. CASE DirEntry(e) \/ FileEntry(e) \/ SymlinkEntry(e) \/ HardLinkEntry(e)
    <2>1. Reading(e) /\ Contained(e) /\ PathOf[e.name] # Root
      BY <1>5 DEF DirEntry, FileEntry, SymlinkEntry, HardLinkEntry, Contained
    <2>2. Ready(e, PathOf[e.name])
      BY <1>1, <2>1, EntryReady
    <2>. QED BY <1>5, <2>2, DirPromised, FilePromised, SymlinkPromised, HardLinkPromised
  <1>. QED BY <1>2, <1>3, <1>4, <1>5

(* The end of the archive, and what cuts it short.                          *)
LEMMA EndPromised ==
  ASSUME UnpackInv, TreeSound, Faithful, ArchiveFails \/ EndOfArchive
  PROVE  /\ Promise!Fails \/ UNCHANGED <<setup, Tree, read, entry, warned, phase = "failed">>
         /\ TreeSound' /\ Faithful'
  <1>1. UNCHANGED destination /\ Tree' = Tree /\ UNCHANGED <<setup, read, entry, warned, names>>
    BY NothingSeen DEF ArchiveFails, EndOfArchive, extraction
  <1>2. TreeSound'
    BY <1>1 DEF destination, TreeSound, KindsOK, InDirs, DirsOnce
  <1>3. Promise!Fails \/ UNCHANGED <<setup, Tree, read, entry, warned, phase = "failed">>
    <2>1. CASE ArchiveFails
      BY <1>1, <2>1 DEF ArchiveFails, Fail, Promise!Fails
    <2>2. CASE EndOfArchive
      BY <1>1, <2>2 DEF EndOfArchive
    <2>. QED BY <2>1, <2>2
  <1>4. Adds
    <2>1. CASE ArchiveFails
      BY <2>1 DEF ArchiveFails, extraction, Adds
    <2>2. CASE EndOfArchive
      <3>1. PICK f \in [DOMAIN deferred -> DOMAIN deferred] :
              deferred' = [k \in DOMAIN deferred |-> deferred[f[k]]]
        BY <2>2 DEF EndOfArchive, DeepestFirst
      <3>2. \A k \in DOMAIN deferred' : deferred'[k] = deferred[f[k]] /\ f[k] \in DOMAIN deferred
        BY <3>1
      <3>. QED BY <1>1, <3>2 DEF Adds
    <2>. QED BY <2>1, <2>2
  <1>5. Faithful'
    BY <1>1, <1>4, StillFaithful DEF destination
  <1>. QED BY <1>2, <1>3, <1>5

(* A mode reaches the one path of a directory this run made.                *)
LEMMA MetadataPromised ==
  ASSUME UnpackInv, setup.verb = "unpack", TreeSound, Faithful, ApplyDirMetadata
  PROVE  /\ Promise!SetMode \/ UNCHANGED <<setup, Tree, read, entry, warned, phase = "failed">>
         /\ TreeSound' /\ Faithful'
  <1>. DEFINE d == Head(deferred)
  <1>1. /\ deferred \in Seq(DeferredDir) /\ deferred # <<>> /\ deferred' = Tail(deferred)
        /\ UNCHANGED <<setup, disk, away, archive, made, phase, read, entry, warned, names>>
        /\ DestInv /\ DestinationTypeOK
    BY DEF UnpackInv, ExtractTypes, ApplyDirMetadata, DestInv
  <1>2. /\ d = deferred[1] /\ 1 \in DOMAIN deferred
        /\ \A k \in DOMAIN deferred' : k + 1 \in DOMAIN deferred /\ deferred'[k] = deferred[k + 1]
    BY <1>1
  <1>3. /\ IF Opens(d) THEN inode' = [inode EXCEPT ![Identity(d.path)].data = d.mode]
                       ELSE inode' = inode
    BY DEF ApplyDirMetadata
  <1>. HIDE DEF d
  <1>4. Adds
    BY <1>1, <1>2 DEF Adds
  <1>5. CASE ~Opens(d)
    <2>1. UNCHANGED <<setup, disk, inode, away, made>>
      BY <1>1, <1>3, <1>5
    <2>2. TreeSound'
      BY <2>1 DEF TreeSound, KindsOK, InDirs, DirsOnce
    <2>3. Faithful'
      BY <1>4, <2>1, StillFaithful
    <2>4. UNCHANGED <<setup, Tree, read, entry, warned, phase = "failed">>
      BY <1>1, <2>1 DEF Tree
    <2>. QED BY <2>2, <2>3, <2>4
  <1>6. CASE Opens(d)
    <2>. DEFINE q == Folded(d.path)
    <2>1. Lives(d.id) /\ d.id \in RunDirs
      <3>1. d.id \in RunDirs
        BY <1>2 DEF RunDirs
      <3>. QED BY <3>1 DEF Faithful, DirsLive
    <2>2. Says(d.mode)
      BY <1>2 DEF Faithful, DeferredSaid
    <2>3. d.id \in Inos
      <3>1. d \in DeferredDir
        BY <1>1, <1>2
      <3>. QED BY <3>1 DEF DeferredDir
    <2>4. Identity(d.path) = d.id /\ q \in DOMAIN disk /\ disk[q] = d.id
      BY <1>6, <2>3, NoneAssumption DEF Opens, Identity
    <2>5. /\ DOMAIN inode = Inos
          /\ inode' = [inode EXCEPT ![d.id].data = d.mode]
      BY <1>1, <1>3, <1>6, <2>4 DEF DestinationTypeOK
    <2>6. inode[d.id] = [kind |-> "dir", data |-> inode[d.id].data] /\ inode[d.id].data # <<"theirs">>
      BY <2>1 DEF Lives
    <2>7. /\ inode'[d.id] = [kind |-> "dir", data |-> d.mode]
          /\ \A i \in Inos : i # d.id => inode'[i] = inode[i]
      <3>1. inode'[d.id] = [inode[d.id] EXCEPT !.data = d.mode]
        BY <2>3, <2>5
      <3>2. \A i \in Inos : i # d.id => inode'[i] = inode[i]
        BY <2>5
      <3>3. inode'[d.id] = [kind |-> "dir", data |-> d.mode]
        BY <2>6, <3>1
      <3>. QED BY <3>2, <3>3
    <2>8. \A r \in DOMAIN disk : disk[r] \in Inos
      BY <1>1 DEF DestinationTypeOK
    <2>9. \A r \in DOMAIN disk : r # q => disk[r] # d.id
      BY <2>4, <2>6 DEF TreeSound, DirsOnce
    <2>10. \A r \in DOMAIN disk : inode'[disk[r]].kind = inode[disk[r]].kind
      BY <2>6, <2>7, <2>8
    <2>11. TreeSound'
      BY <1>1, <2>10 DEF TreeSound, KindsOK, InDirs, DirsOnce
    <2>12. Promise!SetMode
      <3>1. q \notin Promise!HeldDirs
        <4>1. ASSUME q \in Promise!HeldDirs PROVE FALSE
          <5>1. q \in Untouchable
            BY <4>1 DEF Promise!HeldDirs, Untouchable
          <5>. QED BY <1>1, <2>1, <2>4, <5>1 DEF DestInv, Untouched
        <4>. QED BY <4>1
      <3>2. DOMAIN Tree = DOMAIN disk /\ \A r \in DOMAIN disk : Tree[r] = inode[disk[r]]
        BY DEF Tree
      <3>3. Tree[q] = [kind |-> "dir", data |-> inode[d.id].data]
        BY <2>4, <2>6, <3>2
      <3>4. Promise!DirAt(q) /\ Tree[q] # Promise!Theirs
        BY <2>4, <2>6, <3>2, <3>3 DEF Promise!DirAt, Promise!Theirs
      <3>5. Tree' = [r \in DOMAIN disk |-> inode'[disk[r]]]
        BY <1>1 DEF Tree
      <3>6. Tree' = [Tree EXCEPT ![q].data = d.mode]
        <4>. DEFINE T == Tree
                    m == [kind |-> "dir", data |-> d.mode]
        <4>1. T = [r \in DOMAIN disk |-> inode[disk[r]]] /\ DOMAIN T = DOMAIN disk
          BY DEF Tree
        <4>2. [T[q] EXCEPT !.data = d.mode] = m
          BY <3>3
        <4>. HIDE DEF T, m, q
        <4>3. [T EXCEPT ![q].data = d.mode] = [r \in DOMAIN T |-> IF r = q THEN m ELSE T[r]]
          BY <4>2
        <4>4. \A r \in DOMAIN disk : inode'[disk[r]] = IF r = q THEN m ELSE T[r]
          BY <2>4, <2>7, <2>8, <2>9, <4>1 DEF m
        <4>5. Tree' = [T EXCEPT ![q].data = d.mode]
          BY <3>5, <4>1, <4>3, <4>4
        <4>. QED BY <4>5 DEF T
      <3>7. PICK e \in Entries : e.kind = "dir" /\ e.says = d.mode
        BY <2>2 DEF Says
      <3>8. UNCHANGED <<setup, read, entry, warned, phase = "failed">>
        BY <1>1
      <3>. HIDE DEF q
      <3>. QED BY <2>4, <3>1, <3>2, <3>4, <3>6, <3>7, <3>8 DEF Promise!SetMode
    <2>13. d.mode # <<"theirs">>
      BY <2>2, TheirsApart DEF Says
    <2>14. ASSUME NEW id, Lives(id) PROVE Lives(id)'
      <3>1. id \in Inos
        BY <1>1, <2>8, <2>14 DEF Lives, DestinationTypeOK
      <3>2. CASE id = d.id
        BY <1>1, <2>7, <2>13, <2>14, <3>2 DEF Lives
      <3>3. CASE id # d.id
        <4>1. inode'[id] = inode[id]
          BY <2>7, <3>1, <3>3
        <4>. QED BY <1>1, <2>14, <4>1 DEF Lives
      <3>. QED BY <3>2, <3>3
    <2>15. DirsLive'
      <3>1. RunDirs' \subseteq RunDirs
        BY <1>1, <1>2 DEF RunDirs
      <3>. QED BY <2>14, <3>1 DEF DirsLive, Faithful
    <2>16. ASSUME NEW r \in DOMAIN made.at
           PROVE  /\ Spellable(r)' /\ LinkTrue(r)'
                  /\ Folded(r)' \in Untouchable' => setup'.holds[Folded(r)'].kind = "dir"
      <3>1. /\ Spellable(r) /\ LinkTrue(r)
            /\ Folded(r) \in Untouchable => setup.holds[Folded(r)].kind = "dir"
        BY DEF Faithful, RecordsTrue
      <3>2. Spellable(r)' /\ Folded(r)' = Folded(r) /\ Untouchable' = Untouchable
            /\ (Promise!Disturbed' <=> Promise!Disturbed)
        BY <1>1, <3>1 DEF Spellable, Folded, Untouchable, Promise!Disturbed
      <3>3. ASSUME NEW text, There(r) = [kind |-> "link", data |-> text] PROVE There(r)' = There(r)
        <4>1. There(r).kind = "link"
          BY <3>3
        <4>2. Folded(r) \in DOMAIN disk /\ There(r) = inode[disk[Folded(r)]] /\ Identity(r) = disk[Folded(r)]
          BY <1>1, <4>1, ThereSomething, ThereAt
        <4>3. disk[Folded(r)] # d.id
          BY <2>6, <4>1, <4>2
        <4>4. inode'[disk[Folded(r)]] = inode[disk[Folded(r)]]
          BY <2>7, <2>8, <4>2, <4>3
        <4>5. Identity(r)' = Identity(r)
          BY <1>1, <3>2 DEF Identity
        <4>. QED BY <2>8, <4>2, <4>4, <4>5, NoneAssumption DEF There
      <3>4. LinkTrue(r)'
        BY <1>1, <3>1, <3>2, <3>3 DEF LinkTrue
      <3>. QED BY <1>1, <3>1, <3>2, <3>4
    <2>17. RecordsTrue'
      BY <1>1, <2>16 DEF RecordsTrue
    <2>18. Faithful'
      BY <1>1, <1>4, <2>15, <2>17, AddsKnown DEF Faithful, KeysPaths
    <2>. QED BY <2>11, <2>12, <2>18
  <1>. QED BY <1>5, <1>6

(* Another program's swap, which reaches no other name.                     *)
LEMMA SwapPromised ==
  ASSUME UnpackInv, setup.verb = "unpack", TreeSound, Faithful, OtherSwaps
  PROVE  Promise!Others /\ TreeSound' /\ Faithful'
  <1>1. PICK w \in DOMAIN disk, i \in Free(disk),
             node \in {[kind |-> "dir", data |-> <<"theirs">>],
                       [kind |-> "link", data |-> <<"theirs">>]} :
          /\ IsDir(w) /\ disk[w] \in Range(made.dirs)
          /\ away' = {disk[r] : r \in Below(w)}
          /\ disk' = Put(Restrict(disk, DOMAIN disk \ Below(w)), w, i)
          /\ inode' = [inode EXCEPT ![i] = node]
    BY DEF OtherSwaps
  <1>2. /\ UNCHANGED <<setup, archive, made, phase, read, entry, extraction>>
        /\ DestInv /\ DestinationTypeOK /\ setup.others /\ away = {}
    BY DEF UnpackInv, OtherSwaps, DestInv
  <1>3. /\ i \in Inos /\ DOMAIN inode = Inos
        /\ \A q \in DOMAIN disk : disk[q] \in Inos /\ disk[q] # i
    BY <1>2 DEF Free, DestinationTypeOK, Range
  <1>4. \A q \in DOMAIN disk : inode'[disk[q]] = inode[disk[q]]
    BY <1>1, <1>3
  <1>5. inode'[i] = node /\ node.kind \in {"dir", "link"}
    BY <1>1, <1>3
  <1>6. /\ DOMAIN disk' = (DOMAIN disk \ Below(w)) \cup {w} /\ disk'[w] = i
        /\ \A q \in DOMAIN disk \ Below(w) : q # w /\ disk'[q] = disk[q]
    <2>1. w \in Below(w)
      BY DEF Below
    <2>. QED BY <1>1, <2>1 DEF Put, Restrict
  <1>7. \A q \in DOMAIN disk : q \in Below(w) <=> (q = w \/ w \in Parents(q))
    BY DEF Below
  <1>8. \A q \in DOMAIN disk : IsPath(q)
    BY DEF Faithful, KeysPaths
  <1>9. Promise!Others
    <2>1. /\ DOMAIN Tree = DOMAIN disk /\ \A q \in DOMAIN disk : Tree[q] = inode[disk[q]]
          /\ DOMAIN Tree' = DOMAIN disk' /\ \A q \in DOMAIN disk' : Tree'[q] = inode'[disk'[q]]
      BY DEF Tree
    <2>2. ASSUME NEW r \in DOMAIN Tree \cup DOMAIN Tree'
          PROVE  \/ r = w \/ w \in Promise!Ancestors(r)
                 \/ r \in DOMAIN Tree \cap DOMAIN Tree' /\ Tree'[r] = Tree[r]
      <3>1. CASE r \in DOMAIN disk \ Below(w)
        BY <1>4, <1>6, <2>1, <3>1
      <3>2. CASE r = w \/ w \in Parents(r)
        BY <3>2 DEF Parents, Promise!Ancestors
      <3>. QED BY <1>6, <1>7, <2>1, <2>2, <3>1, <3>2
    <2>3. UNCHANGED <<setup, read, entry, warned, phase = "failed">>
      BY <1>2 DEF extraction
    <2>. QED BY <1>2, <2>1, <2>2, <2>3 DEF Promise!Others
  <1>10. TreeSound'
    <2>1. KindsOK'
      BY <1>4, <1>5, <1>6 DEF TreeSound, KindsOK
    <2>2. ASSUME NEW q \in DOMAIN disk', NEW r \in Parents(q)
          PROVE  r \in DOMAIN disk' /\ inode'[disk'[r]].kind = "dir"
      <3>1. q \in DOMAIN disk /\ IsPath(q) /\ (q = w \/ q \notin Below(w))
        BY <1>6, <1>8
      <3>2. r \in DOMAIN disk /\ inode[disk[r]].kind = "dir" /\ IsPath(r)
        BY <1>8, <2>2, <3>1 DEF TreeSound, InDirs
      <3>3. r # q /\ Parents(r) \subseteq Parents(q)
        BY <2>2, <3>1, ParentIs
      <3>4. w \notin Parents(w)
        BY <1>8, ParentIs
      <3>5. r \notin Below(w)
        BY <1>7, <2>2, <3>1, <3>2, <3>3, <3>4
      <3>. QED BY <1>4, <1>6, <3>2, <3>5
    <2>3. InDirs'
      BY <2>2 DEF InDirs
    <2>4. DirsOnce'
      BY <1>3, <1>4, <1>6 DEF TreeSound, DirsOnce
    <2>. QED BY <2>1, <2>3, <2>4 DEF TreeSound
  <1>11. ASSUME NEW id, Lives(id) PROVE Lives(id)'
    <2>1. PICK q \in DOMAIN disk : disk[q] = id
      BY <1>2, <1>11 DEF Lives
    <2>2. inode'[id] = inode[id]
      BY <1>4, <2>1
    <2>3. CASE q \in Below(w)
      BY <1>1, <1>11, <2>1, <2>2, <2>3 DEF Lives
    <2>4. CASE q \notin Below(w)
      <3>1. q \in DOMAIN disk' /\ disk'[q] = id
        BY <1>6, <2>1, <2>4
      <3>. QED BY <1>11, <2>2, <3>1 DEF Lives
    <2>. QED BY <2>3, <2>4
  <1>12. DirsLive'
    <2>1. RunDirs' = RunDirs
      BY <1>2 DEF RunDirs, extraction
    <2>. QED BY <1>11, <2>1 DEF DirsLive, Faithful
  <1>13. RecordsTrue'
    <2>1. Promise!Disturbed'
      BY <1>2 DEF Promise!Disturbed
    <2>2. ASSUME NEW r \in DOMAIN made.at
          PROVE  /\ Spellable(r)' /\ LinkTrue(r)'
                 /\ Folded(r)' \in Untouchable' => setup'.holds[Folded(r)'].kind = "dir"
      <3>1. /\ Spellable(r) /\ LinkTrue(r)
            /\ Folded(r) \in Untouchable => setup.holds[Folded(r)].kind = "dir"
        BY DEF Faithful, RecordsTrue
      <3>2. Spellable(r)' /\ Folded(r)' = Folded(r) /\ Untouchable' = Untouchable
        BY <1>2, <3>1 DEF Spellable, Folded, Untouchable
      <3>3. LinkTrue(r)'
        BY <1>2, <2>1, <3>1 DEF LinkTrue
      <3>. QED BY <1>2, <3>1, <3>2, <3>3
    <2>. QED BY <1>2, <2>2 DEF RecordsTrue
  <1>14. Adds /\ KeysPaths'
    BY <1>2, <1>6, <1>8 DEF Adds, extraction, KeysPaths
  <1>15. Faithful'
    BY <1>12, <1>13, <1>14, AddsKnown DEF Faithful
  <1>. QED BY <1>9, <1>10, <1>15

-------------------------------------------------------------------------------
PromiseInv == setup.verb = "unpack" => TreeSound /\ Faithful

promised == <<setup, Tree, read, entry, warned, phase = "failed">>

LEMMA UnpackPromised ==
  ASSUME UnpackInv, setup.verb = "unpack", TreeSound, Faithful, ExtractNext
  PROVE  (Promise!Next \/ UNCHANGED promised) /\ TreeSound' /\ Faithful'
  <1>1. CASE \E e \in Entries :
               \/ Uncontained(e) \/ DestinationEntry(e) \/ DirEntry(e)
               \/ FileEntry(e) \/ SymlinkEntry(e) \/ HardLinkEntry(e) \/ SpecialEntry(e)
    <2>1. PICK e \in Entries :
               \/ Uncontained(e) \/ DestinationEntry(e) \/ DirEntry(e)
               \/ FileEntry(e) \/ SymlinkEntry(e) \/ HardLinkEntry(e) \/ SpecialEntry(e)
      BY <1>1
    <2>2. Promise!Entry(e) /\ Faithful'
      BY <2>1, EntryPromised
    <2>3. Tidy
      BY <2>1, EntryTidy
    <2>. QED BY <2>2, <2>3 DEF Tidy, Promise!Next
  <1>2. CASE ArchiveFails \/ EndOfArchive
    BY <1>2, EndPromised DEF Promise!Next, promised
  <1>3. CASE ApplyDirMetadata
    BY <1>3, MetadataPromised DEF Promise!Next, promised
  <1>4. CASE OtherSwaps
    BY <1>4, SwapPromised DEF Promise!Next
  <1>. QED BY <1>1, <1>2, <1>3, <1>4 DEF ExtractNext

LEMMA PromiseInit == Init => PromiseInv /\ (setup.verb = "unpack" => Promise!Init)
  <1>. SUFFICES ASSUME Init PROVE PromiseInv /\ Promise!Init
    OBVIOUS
  <1>1. /\ FoundDestination /\ deferred = <<>> /\ names = {} /\ phase = "entries"
        /\ read = 0 /\ entry = None /\ warned = {}
    BY DEF Init, ExtractInit
  <1>2. /\ setup \in Setups /\ disk \in Fresh(DOMAIN setup.holds, <<>>)
        /\ made = [at |-> <<>>, ids |-> {}, dirs |-> <<>>]
        /\ inode = [i \in Inos |-> IF i \in Range(disk)
                                   THEN setup.holds[CHOOSE q \in DOMAIN disk : disk[q] = i]
                                   ELSE Nothing]
    BY <1>1 DEF FoundDestination
  <1>3. /\ DOMAIN disk = DOMAIN setup.holds /\ \A q \in DOMAIN disk : disk[q] \in Inos
        /\ \A q, r \in DOMAIN disk : q # r => disk[q] # disk[r]
    BY <1>2 DEF Fresh, Free
  <1>4. ASSUME NEW q \in DOMAIN disk PROVE inode[disk[q]] = setup.holds[q]
    <2>1. disk[q] \in Inos /\ disk[q] \in Range(disk)
      BY <1>3 DEF Range
    <2>2. (CHOOSE r \in DOMAIN disk : disk[r] = disk[q]) = q
      BY <1>3
    <2>. QED BY <1>2, <2>1, <2>2
  <1>5. setup.holds = [q \in DOMAIN setup.holds |-> setup.holds[q]]
        /\ \A q \in DOMAIN setup.holds : IsPath(q)
    BY <1>2, SetupsType DEF IsPath
  <1>6. Tree = setup.holds
    BY <1>3, <1>4, <1>5 DEF Tree
  <1>7. Promise!Init
    BY <1>1, <1>2, <1>6 DEF Promise!Init
  <1>8. DOMAIN made.at = {} /\ DOMAIN made.dirs = {} /\ DOMAIN deferred = {}
    BY <1>1, <1>2
  <1>9. Faithful
    <2>1. RunDirs = {}
      BY <1>8 DEF RunDirs, Range
    <2>. QED BY <1>1, <1>3, <1>5, <1>8, <2>1
         DEF Faithful, RecordsTrue, DirsLive, NamesKnown, DeferredSaid, KeysPaths
  <1>10. TreeSound
    BY <1>1, FoundShape DEF Shape
  <1>. QED BY <1>7, <1>9, <1>10 DEF PromiseInv

LEMMA PromiseStep ==
  VerbsInv /\ PromiseInv /\ [Next]_allVars
    => PromiseInv' /\ [setup.verb = "unpack" => Promise!Next]_promised
  <1>. SUFFICES ASSUME VerbsInv, PromiseInv, [Next]_allVars
                PROVE  PromiseInv' /\ [setup.verb = "unpack" => Promise!Next]_promised
    OBVIOUS
  <1>1. setup' = setup /\ UnpackInv
    BY VerbsStep DEF VerbsInv
  <1>2. CASE setup.verb # "unpack"
    BY <1>1, <1>2 DEF PromiseInv
  <1>3. CASE setup.verb = "unpack" /\ ExtractNext
    <2>1. TreeSound /\ Faithful
      BY <1>3 DEF PromiseInv
    <2>2. (Promise!Next \/ UNCHANGED promised) /\ TreeSound' /\ Faithful'
      BY <1>1, <1>3, <2>1, UnpackPromised
    <2>. QED BY <2>2 DEF PromiseInv
  <1>4. CASE setup.verb = "unpack" /\ UNCHANGED allVars
    <2>1. UNCHANGED <<setup, disk, inode, away, archive, made, phase, read, entry, warned, names, deferred>>
      BY <1>4 DEF allVars, destination, extraction
    <2>2. TreeSound /\ Faithful
      BY <1>4 DEF PromiseInv
    <2>3. UNCHANGED promised
      BY <2>1 DEF promised, Tree
    <2>4. TreeSound'
      BY <2>1, <2>2 DEF TreeSound, KindsOK, InDirs, DirsOnce
    <2>5. Adds
      BY <2>1 DEF Adds
    <2>6. Faithful'
      BY <2>1, <2>2, <2>5, StillFaithful
    <2>. QED BY <2>3, <2>4, <2>6 DEF PromiseInv
  <1>. QED BY <1>2, <1>3, <1>4 DEF Next

(* `unpack` implements its abstract promise, from the destination as it is  *)
(* found on: every step puts what an entry says at its own path, or warns,  *)
(* or ends the run, and reaches no other name, whichever inodes the names   *)
(* share, however the file system folds them, whatever the archive holds.   *)
THEOREM UnpackKeepsItsPromise == Spec => ImplementsUnpacking
  <1>1. Init => VerbsInv
    BY VerbsInit
  <1>2. VerbsInv /\ [Next]_allVars => VerbsInv'
    BY VerbsStep
  <1>3. PromiseInv /\ [setup.verb = "unpack" => Promise!Next]_promised
          => [setup.verb = "unpack" => Promise!Next]_<<setup, Tree, read, entry, warned, phase = "failed">>
    BY DEF promised
  <1>. QED BY <1>1, <1>2, <1>3, PromiseInit, PromiseStep, PTL DEF Spec, ImplementsUnpacking
=============================================================================
