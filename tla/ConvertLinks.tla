------------------------------ MODULE ConvertLinks ----------------------------
(***************************************************************************)
(* convert's loop over a source archive's entries (convert_entries in       *)
(* crates/stuffr/src/entries.rs): which are written, and what a hard link   *)
(* becomes.  Into a container that stores links it stays one; into any other*)
(* it is a copy of its target's payload, kept while that streamed past.     *)
(* Every payload is an id; what a name means in the source, and what the    *)
(* output holds under it, are ids too.  An entry is one step, but for a file*)
(* with a payload, whose bytes pass one at a time.                          *)
(***************************************************************************)
EXTENDS LinkCache

CONSTANTS
  Conversions,     (* [caps, limits]: the target's capabilities, the policy   *)
  Announcements,   (* what announces_links answers of a cpio                 *)
  Sizes,           (* declared sizes                                         *)
  MaxEntries       (* bound: entries in the source                           *)

ASSUME ConvertAssumption ==
  /\ \A c \in Conversions : LimitsOK(c.limits)
  /\ {c.caps : c \in Conversions} \subseteq
       [links : BOOLEAN, symlinks : BOOLEAN, dirs : BOOLEAN, unique : BOOLEAN]
  /\ Announcements \subseteq Nat
  /\ Sizes \subseteq Nat \cup {Unknown} /\ IsFiniteSet(Sizes)
  /\ MaxEntries \in Nat

VARIABLES
  caps,      (* the target's                                                 *)
  cache,     (* links                                                        *)
  written,   (* the names this run wrote                                     *)
  symlinks,  (* symlinks[n]: the symlink n, its text, Lost if not written    *)
  file,      (* the file whose payload is passing, or NoFile                 *)
  count,     (* entries so far, the one passing included                     *)
  failed,    (* the run has ended in an error                                *)
  meaning,   (* ghost: what the source means by each name                    *)
  stored     (* ghost: what a reader of the output finds under each name     *)

StoresLinks == caps.links
StoresSymlinks == caps.symlinks
StoresDirs == caps.dirs
UniqueNames == caps.unique

vars == <<caps, cache, written, symlinks, file, count, failed, meaning, stored>>

(* The ids: an empty payload is like any other; every other entry, the      *)
(* number-th, has its own.                                                  *)
Nothing == -1
Empty == 0
Lost == -2
NoFile == [name |-> "none"]

Init ==
  /\ \E c \in Conversions : caps = c.caps /\ cache = NewCache(c.limits)
  /\ written = {}
  /\ symlinks = [n \in Names |-> Nothing]
  /\ file = NoFile
  /\ count = 0
  /\ failed = FALSE
  /\ meaning = [n \in Names |-> Nothing]
  /\ stored = [n \in Names |-> Nothing]

-------------------------------------------------------------------------------
(* The next entry is n's; the source means id by it.                        *)
Reads(n, id) ==
  /\ ~ failed /\ file = NoFile
  /\ count < MaxEntries
  /\ count' = count + 1
  /\ meaning' = [meaning EXCEPT ![n] = id]
  /\ UNCHANGED <<caps, file, failed>>

This == count + 1

Writes(n, id) ==
  /\ written' = written \cup {n}
  /\ stored' = [stored EXCEPT ![n] = id]

WritesNot == UNCHANGED <<written, stored>>

Duplicate(n) == UniqueNames /\ n \in written

Symlinks(n, id) == symlinks' = [symlinks EXCEPT ![n] = id]

-------------------------------------------------------------------------------
(* A device, a fifo, a directory where there are none: never stored.        *)
(* (Variant: a payload kept under its name stays.)                          *)
SkipOtherKeeping(n) ==
  /\ Reads(n, This)
  /\ Symlinks(n, Nothing)
  /\ WritesNot
  /\ UNCHANGED cache

SkipOther(n) ==
  /\ Reads(n, This)
  /\ Symlinks(n, Nothing)
  /\ cache' = forget(cache, n)
  /\ WritesNot

(* A directory: stored, unless its name is there already.                   *)
Directory(n) ==
  /\ StoresDirs
  /\ Reads(n, This)
  /\ Symlinks(n, Nothing)
  /\ cache' = forget(cache, n)
  /\ IF Duplicate(n) THEN WritesNot ELSE Writes(n, This)

Symlink(n) ==
  /\ Reads(n, This)
  /\ cache' = forget(cache, n)
  /\ IF ~ StoresSymlinks \/ Duplicate(n)
     THEN Symlinks(n, Lost) /\ WritesNot
     ELSE Symlinks(n, This) /\ Writes(n, This)

-------------------------------------------------------------------------------
(* A file: its name's cache entry goes and a spool opens, if it is wanted.  *)
SkipDuplicateFile(n) ==
  /\ Reads(n, This)
  /\ Duplicate(n)
  /\ Symlinks(n, Nothing)
  /\ cache' = forget(cache, n)
  /\ WritesNot

BeginFile(n, size, announced) ==
  LET opened == IF ~ StoresLinks /\ wants(cache, announced) THEN spool(cache, n, size)
                ELSE <<forget(cache, n), NoSpool>>
  IN  /\ ~ failed /\ file = NoFile
      /\ count < MaxEntries
      /\ ~ Duplicate(n)
      /\ Symlinks(n, Nothing)
      /\ count' = This
      /\ cache' = opened[1]
      /\ file' = [name |-> n, size |-> size, announced |-> announced, passed |-> 0,
                  spool |-> opened[2]]
      /\ UNCHANGED <<caps, written, failed, meaning, stored>>

(* A unit of payload, through the tee: the spool takes it in memory, then   *)
(* in a temp file; one past its room, or whose file fails, is dropped.      *)
Pushed(s, total) ==
  IF s.tier = "none" \/ total > s.room \/ (total > s.mem /\ ~ cache.limits.disk) THEN {NoSpool}
  ELSE IF total > s.mem \/ s.tier = "file" THEN {[s EXCEPT !.tier = "file"], NoSpool}
  ELSE {s}

Pass ==
  /\ ~ failed /\ file # NoFile
  /\ IF file.size = Unknown THEN file.passed <= cache.limits.total ELSE file.passed < file.size
  /\ \E s \in Pushed(file.spool, file.passed + 1) :
       file' = [file EXCEPT !.passed = @ + 1, !.spool = s]
  /\ UNCHANGED <<caps, cache, written, symlinks, count, failed, meaning, stored>>

(* The payload's end: it is kept if all of it was spooled and the temp file *)
(* can be finished.                                                         *)
EndFile ==
  LET n == file.name
      id == IF file.passed = 0 THEN Empty ELSE count
      p == [id |-> id, len |-> file.passed, tier |-> file.spool.tier]
      keptOr == {keep(cache, n, p, file.announced)} \cup (IF p.tier = "file" THEN {cache} ELSE {})
  IN  /\ ~ failed /\ file # NoFile
      /\ file.size \in {Unknown, file.passed}
      /\ cache' \in (IF StoresLinks THEN {cache}
                     ELSE IF file.passed = 0 THEN {keep_empty(cache, n)}
                     ELSE IF file.spool.tier # "none" THEN keptOr
                     ELSE {cache})
      /\ Writes(n, id)
      /\ meaning' = [meaning EXCEPT ![n] = id]
      /\ file' = NoFile
      /\ UNCHANGED <<caps, symlinks, count, failed>>

(* A payload that is not its declared length, a full disk, the budget ...   *)
Fails ==
  /\ ~ failed
  /\ failed' = TRUE
  /\ UNCHANGED <<caps, cache, written, symlinks, file, count, meaning, stored>>

-------------------------------------------------------------------------------
(* A hard link n to t; no reader yields a link to its own name.             *)
Link(n, t) ==
  /\ n # t
  /\ Reads(n, meaning[t])

(* LinkCopy, looked up before n's own name supersedes anything.             *)
CopyOfBytes(t) == contains(cache, t)
CopyOfSymlink(t) == ~ contains(cache, t) /\ symlinks[t] >= 0

CanWrite(t) == StoresLinks \/ CopyOfBytes(t) \/ (CopyOfSymlink(t) /\ StoresSymlinks)

SkipLink(n, t) ==
  /\ Link(n, t)
  /\ ~ CanWrite(t) \/ Duplicate(n)
  /\ Symlinks(n, Nothing)
  /\ cache' = link_seen(forget(cache, n), t)
  /\ WritesNot

(* Stored as a link, to a name this run wrote (variant: to any name).       *)
StoreLinkAnyway(n, t) ==
  /\ Link(n, t)
  /\ StoresLinks
  /\ ~ Duplicate(n)
  /\ Symlinks(n, Nothing)
  /\ Writes(n, stored[t])
  /\ UNCHANGED cache

StoreLink(n, t) ==
  /\ Link(n, t)
  /\ StoresLinks
  /\ ~ Duplicate(n)
  /\ Symlinks(n, Nothing)
  /\ IF t \in written THEN Writes(n, stored[t]) ELSE WritesNot
  /\ UNCHANGED cache

(* Written as a file of its own, from the kept bytes.                       *)
CopyLink(n, t) ==
  /\ Link(n, t)
  /\ ~ StoresLinks /\ CopyOfBytes(t)
  /\ ~ Duplicate(n)
  /\ Symlinks(n, Nothing)
  /\ cache' = link_seen(forget(cache, n), t)
  /\ Writes(n, IF t \in cache.empties THEN Empty ELSE cache.kept[t].id)

(* Written as the symlink its target is.                                    *)
CopySymlink(n, t) ==
  /\ Link(n, t)
  /\ ~ StoresLinks /\ StoresSymlinks /\ CopyOfSymlink(t)
  /\ ~ Duplicate(n)
  /\ Symlinks(n, symlinks[t])
  /\ cache' = link_seen(forget(cache, n), t)
  /\ Writes(n, symlinks[t])

(* announces_links: only a cpio says how many links are to come.            *)
Announced == IF cache.limits.announced THEN Announcements ELSE {Unknown}

Next ==
  \/ \E n \in Names :
       \/ SkipOther(n) \/ Directory(n) \/ Symlink(n) \/ SkipDuplicateFile(n)
       \/ \E size \in Sizes, announced \in Announced : BeginFile(n, size, announced)
       \/ \E t \in Names : SkipLink(n, t) \/ StoreLink(n, t) \/ CopyLink(n, t) \/ CopySymlink(n, t)
  \/ Pass
  \/ EndFile
  \/ Fails

Spec == Init /\ [][Next]_vars

-------------------------------------------------------------------------------
(* Types of the state.                                                      *)
Ids == {Nothing} \cup 0 .. MaxEntries

TypeOK ==
  /\ \E c \in Conversions : caps = c.caps /\ cache.limits = c.limits
  /\ DOMAIN cache.kept \subseteq Names
  /\ cache.kept \in [DOMAIN cache.kept ->
       [seq : 0 .. cache.next_seq - 1, id : 1 .. MaxEntries, len : 1 .. cache.limits.total,
        tier : {"memory", "file"}, left : {Unknown} \cup (Nat \ {0})]]
  /\ cache.empties \subseteq Names \ DOMAIN cache.kept
  /\ written \subseteq Names
  /\ symlinks \in [Names -> {Nothing, Lost} \cup 1 .. MaxEntries]
  /\ file = NoFile \/ file.name \in Names
  /\ count \in 0 .. MaxEntries
  /\ failed \in BOOLEAN
  /\ {meaning, stored} \subseteq [Names -> Ids]

(* The running counters are what the kept payloads add up to, and the       *)
(* eviction order lists them once each: a subtraction on removal never goes *)
(* below zero and nothing is charged for good.                              *)
CountsExact ==
  LET In(tier) == {n \in DOMAIN cache.kept : cache.kept[n].tier = tier}
      len == [n \in DOMAIN cache.kept |-> cache.kept[n].len]
      Lists(queue, S) ==
        /\ DOMAIN queue = {cache.kept[n].seq : n \in S}
        /\ \A n \in S : queue[cache.kept[n].seq] = n
  IN  /\ cache.in_memory = Total(In("memory"), len) /\ cache.on_disk = Total(In("file"), len)
      /\ cache.mem_overhead = Cardinality(In("memory")) * Overhead
      /\ cache.disk_overhead = Cardinality(In("file")) * Overhead
      /\ Lists(cache.order, DOMAIN cache.kept) /\ Lists(cache.disk_order, In("file"))

(* "The cache never holds more than its policy allows", with what a spool   *)
(* being filled has taken; nor more open temporary files of its own; and    *)
(* its counts are exact.                                                    *)
WithinPolicy ==
  LET filling == file # NoFile /\ file.spool.tier # "none" /\ file.passed > 0
      passing == IF filling THEN file.passed + Overhead ELSE 0
  IN  /\ CountsExact
      /\ held(cache) + passing <= cache.limits.total
      /\ held_in_memory(cache) + (IF filling /\ file.spool.tier = "memory" THEN passing ELSE 0) <= cache.limits.mem
      /\ files(cache) <= MaxFiles

(* "A later link to a name means the LATEST entry of that name": whatever   *)
(* an entry, link or not, gets under its name in the output is what the     *)
(* source means by that name at that moment, never an older payload.        *)
WrittenAsMeant ==
  [][\A n \in Names : stored'[n] # stored[n] => stored'[n] = meaning'[n]]_vars

(* The same of what is not stored as a link, whatever the archive repeats,  *)
(* skips or evicts in between.                                              *)
CopiedAsMeant ==
  [][\A n \in Names :
       ~ StoresLinks /\ stored'[n] # stored[n] => stored'[n] = meaning'[n]]_vars

(* A link that is written stands for something in the output: "never stored *)
(* dangling", never a partial or empty stand-in.                            *)
NeverDangling == \A n \in written : stored[n] # Nothing
===============================================================================
