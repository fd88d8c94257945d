--------------------------------- MODULE Pack ---------------------------------
(***************************************************************************)
(* `pack` (entries.rs create_archive, walk.rs): the walk of each path named *)
(* on the command line, the plan of what to store, and the writing of it,   *)
(* while another program changes the tree between any two system calls.     *)
(*                                                                         *)
(* The walk learns a file's length, and the header that carries it is       *)
(* written long before the file's last byte is read; the archive itself may *)
(* lie in the tree; and what cannot be stored is named, not fatal.  A path  *)
(* is a sequence of components, a component a number (in the order of the   *)
(* names' bytes), a byte of a file a number.                                *)
(***************************************************************************)
EXTENDS Integers, Sequences, FiniteSets, SequencesExt

CONSTANTS
  Scenes,      (* where a run may start: [tree, files, asked, changes]       *)
  Garbled,     (* components that are not UTF-8                              *)
  MaxChanges   (* bound: how often the other program changes something       *)

(***************************************************************************)
(* A tree: finitely many names, each below a directory; a file has an inode *)
(* and a link somewhere to lead.  What a change puts is of these kinds too. *)
(***************************************************************************)
Paths == Seq(Nat)
Nodes(inos) ==
  [kind : {"dir"}, lists : BOOLEAN, enters : BOOLEAN] \cup [kind : {"file"}, ino : inos]
  \cup [kind : {"link"}, to : Paths] \cup [kind : {"special"}]
FileStates == [bytes : Seq(Nat), reads : BOOLEAN]

Tree(t, inos) ==
  /\ IsFiniteSet(DOMAIN t) /\ DOMAIN t \subseteq Paths /\ t \in [DOMAIN t -> Nodes(inos)]
  /\ <<>> \in DOMAIN t /\ t[<<>>].kind = "dir"
  /\ \A q \in DOMAIN t \ {<<>>} : Front(q) \in DOMAIN t /\ t[Front(q)].kind = "dir"

Changing(inos) ==
  [what : {"path"}, path : Paths \ {<<>>}, node : Nodes(inos) \cup [kind : {"none"}]]
  \cup [what : {"file"}, ino : inos, file : FileStates, was : Seq(Nat)]

(* A path that ends in a name of its own, or one like `.`.                  *)
Named(p) == p.at = <<>> => p.dotted
Asks ==
  [paths : Seq({p \in [at : Paths, dotted : BOOLEAN] : Named(p)}) \ {<<>>},
   dst : Paths \ {<<>>}, force : BOOLEAN, holds : [dirs : BOOLEAN, links : BOOLEAN],
   unspeakable : SUBSET Paths]

ASSUME PackAssumption ==
  /\ Garbled \subseteq Nat
  /\ \A s \in Scenes :
       /\ DOMAIN s.files \subseteq Nat \ {0} /\ s.files \in [DOMAIN s.files -> FileStates]
       /\ Tree(s.tree, DOMAIN s.files) /\ s.changes \subseteq Changing(DOMAIN s.files)
       /\ s.asked \in Asks

VARIABLES
  tree,        (* real path -> what is there: see Kinds                      *)
  files,       (* inode -> [bytes, reads]; an unlinked one may still be read *)
  asked,       (* the command: paths, dst, force, and what the container     *)
               (* holds                                                      *)
  pending,     (* the changes the other program may still make               *)
  changes,     (* history: the changes it made                               *)
  target,      (* dst_canonical                                              *)
  opened,      (* the inode of a file the archive is written through, if any *)
  stage,       (* what pack does next, or how it ended                       *)
  turn,        (* the paths named that were walked; then the items written   *)
  here,        (* the directory to be listed, or the link to be read         *)
  stack,       (* the walk's stack, its top first                            *)
  found,       (* the items of this walk yet to be looked at                 *)
  plan,        (* plan                                                       *)
  excluded,    (* excluded_output                                            *)
  told,        (* the names in the notes and the warnings                    *)
  linked,      (* the count in the summary of hard links                     *)
  reader,      (* ExactLength over the file being stored                     *)
  stored,      (* what the container was given                               *)
  held         (* history: what each file stored held when it was ended      *)

world == <<tree, files, pending, changes>>
walking == <<here, stack, found>>
planning == <<plan, excluded>>
writing == <<linked, reader, stored, held>>
packVars == <<world, asked, target, opened, stage, turn, walking, planning, told, writing>>

(***************************************************************************)
(* The file system.                                                        *)
(***************************************************************************)
Folder(lists, enters) == [kind |-> "dir", lists |-> lists, enters |-> enters]
File(i) == [kind |-> "file", ino |-> i]
Link(p) == [kind |-> "link", to |-> p]
Special == [kind |-> "special"]
Gone == [kind |-> "none"]

Nowhere == <<-1>>
Lossy == 0          (* U+FFFD, what a garbled component is rendered as       *)

Is(q, kind) == q \in DOMAIN tree /\ tree[q].kind = kind
Searchable(d) == Is(d, "dir") /\ tree[d].enters

(* Links are followed, at most two in a row.                               *)
Hop(q) == IF Is(q, "link") THEN tree[q].to ELSE q
Landed(q) ==
  LET r == Hop(Hop(q)) IN IF r \in DOMAIN tree /\ ~ Is(r, "link") THEN r ELSE Nowhere

Into(d, c) ==
  IF Searchable(d) /\ Append(d, c) \in DOMAIN tree THEN Landed(Append(d, c)) ELSE Nowhere

(* What a path leads to, component by component, and the directory entry   *)
(* it names.                                                               *)
Canonical(p) ==
  LET led[k \in 0 .. Len(p)] == IF k = 0 THEN <<>> ELSE Into(led[k - 1], p[k])
  IN  led[Len(p)]
Spot(p) ==
  LET d == Canonical(Front(p))
  IN  IF Searchable(d) /\ Append(d, Last(p)) \in DOMAIN tree THEN Append(d, Last(p))
      ELSE Nowhere

Readable(q) == Is(q, "file") /\ files[tree[q].ino].reads
Size(q) == Len(files[tree[q].ino].bytes)
NamesOf(i) == {q \in DOMAIN tree : tree[q].kind = "file" /\ tree[q].ino = i}

(***************************************************************************)
(* Names and items.                                                        *)
(***************************************************************************)
Rendered(name) == [k \in DOMAIN name |-> IF name[k] \in Garbled THEN Lossy ELSE name[k]]
Decodable(p) == \A k \in DOMAIN p : p[k] \notin Garbled

(* The name a path is stored under: its own last component, or, of one     *)
(* like `.`, that of the directory it is.                                  *)
entry_name_for(p) ==
  LET real == Canonical(p.at)
  IN  IF ~ p.dotted THEN <<Last(p.at)>>
      ELSE IF real \in {Nowhere, <<>>} THEN Nowhere ELSE <<Last(real)>>

NoInode == 0
Item(name, at, kind, size, link, to) ==
  [name |-> name, at |-> at, kind |-> kind, size |-> size, link |-> link, to |-> to]
Skipped(name) == Item(Rendered(name), <<>>, "skipped", 0, NoInode, <<>>)

(* An inode with one name has no link_id.                                  *)
link_id_of(q) == IF Cardinality(NamesOf(tree[q].ino)) > 1 THEN tree[q].ino ELSE NoInode

item_for(name, at, q) ==
  IF Is(q, "dir") THEN Item(name, at, "dir", 0, NoInode, <<>>)
  ELSE IF Is(q, "file") THEN Item(name, at, "file", Size(q), link_id_of(q), <<>>)
  ELSE Skipped(name)

(***************************************************************************)
(* The walk of one path.                                                   *)
(***************************************************************************)
AtTurn == asked.paths[turn + 1]

(* The path is looked at to refuse what cannot be stored at all...         *)
Name ==
  /\ stage = "naming" /\ turn < Len(asked.paths)
  /\ LET name == entry_name_for(AtTurn)
         real == Canonical(AtTurn.at)
     IN  stage' = IF name # Nowhere /\ Decodable(name) /\ (Is(real, "dir") \/ Is(real, "file"))
                  THEN "root" ELSE "refused"
  /\ here' = [at |-> AtTurn.at, name |-> entry_name_for(AtTurn)]
  /\ UNCHANGED <<world, asked, target, opened, turn, stack, found, planning, told, writing>>

(* ... and again as the walk's root, following a link both times.          *)
Root ==
  /\ stage = "root"
  /\ LET real == Canonical(here.at)
     IN  /\ stage' = IF real = Nowhere THEN "refused"
                     ELSE IF Is(real, "dir") THEN "listing" ELSE "walking"
         /\ found' = IF real = Nowhere THEN <<>> ELSE <<item_for(here.name, here.at, real)>>
  /\ UNCHANGED <<world, asked, target, opened, turn, here, stack, planning, told, writing>>

Child(d, c) == [at |-> Append(d.at, c), name |-> Append(d.name, c)]

(* children_of, pushed so that the first of them is the next visited.      *)
NamesIn(real) == {Last(q) : q \in {q \in DOMAIN tree : q # <<>> /\ Front(q) = real}}
Rank(names, c) == Cardinality({b \in names : b <= c})
Children(d, real) ==
  [k \in 1 .. Cardinality(NamesIn(real)) |->
     Child(d, CHOOSE c \in NamesIn(real) : Rank(NamesIn(real), c) = k)]

List ==
  /\ stage = "listing" /\ stage' = "walking"
  /\ LET real == Canonical(here.at)
     IN  IF Is(real, "dir") /\ tree[real].lists
         THEN stack' = Children(here, real) \o stack /\ UNCHANGED found
         ELSE found' = Append(found, Skipped(here.name)) /\ UNCHANGED stack
  /\ UNCHANGED <<world, asked, target, opened, turn, here, planning, told, writing>>

(* symlink_metadata: a link met in the walk is never followed.  A name     *)
(* that is not UTF-8 takes what is below it along.                         *)
Visit ==
  /\ stage = "walking" /\ stack # <<>>
  /\ here' = Head(stack) /\ stack' = Tail(stack)
  /\ LET child == Head(stack)
         q == Spot(child.at)
         lost == q = Nowhere \/ ~ Decodable(<<Last(child.name)>>)
     IN  \/ /\ lost
            /\ found' = Append(found, Skipped(child.name)) /\ UNCHANGED stage
         \/ /\ ~ lost /\ Is(q, "link") /\ stage' = "linking" /\ UNCHANGED found
         \/ /\ ~ lost /\ ~ Is(q, "link")
            /\ stage' = IF Is(q, "dir") THEN "listing" ELSE "walking"
            /\ found' = Append(found, item_for(child.name, child.at, q))
  /\ UNCHANGED <<world, asked, target, opened, turn, planning, told, writing>>

(* read_link, a call of its own.                                           *)
ReadLink ==
  /\ stage = "linking" /\ stage' = "walking"
  /\ LET q == Spot(here.at)
     IN  found' = Append(found,
           IF Is(q, "link") /\ Decodable(tree[q].to)
           THEN Item(here.name, here.at, "link", 0, NoInode, tree[q].to)
           ELSE Skipped(here.name))
  /\ UNCHANGED <<world, asked, target, opened, turn, here, stack, planning, told, writing>>

(***************************************************************************)
(* The plan.                                                               *)
(***************************************************************************)
canonical_output_path(dst) ==
  LET d == Canonical(Front(dst)) IN IF d = Nowhere THEN Nowhere ELSE Append(d, Last(dst))

(* Variant: by the path as it is spelt.                                    *)
is_output_file_as_spelt(item) == item.kind = "file" /\ item.at = asked.dst

is_output_file(item) ==
  item.kind = "file" /\ target # Nowhere /\ Canonical(item.at) = target

Claimed == {plan[k].name : k \in {k \in DOMAIN plan : plan[k].kind # "skipped"}}

(* The archive being written is left out, with a note; a name is stored    *)
(* once; an item the walk skipped claims none.                             *)
Sift ==
  /\ stage = "walking" /\ stack = <<>> /\ found # <<>>
  /\ found' = Tail(found)
  /\ LET item == Head(found)
     IN  \/ /\ is_output_file(item)
            /\ excluded' = TRUE /\ told' = told \cup {item.name}
            /\ UNCHANGED <<plan, stage>>
         \/ /\ ~ is_output_file(item) /\ (item.kind = "skipped" \/ item.name \notin Claimed)
            /\ plan' = Append(plan, item)
            /\ UNCHANGED <<excluded, told, stage>>
         \/ /\ ~ is_output_file(item) /\ item.kind # "skipped" /\ item.name \in Claimed
            /\ stage' = "refused"
            /\ UNCHANGED <<plan, excluded, told>>
  /\ UNCHANGED <<world, asked, target, opened, turn, here, stack, writing>>

NextPath ==
  /\ stage = "walking" /\ stack = <<>> /\ found = <<>>
  /\ stage' = "naming" /\ turn' = turn + 1
  /\ UNCHANGED <<world, asked, target, opened, walking, planning, told, writing>>

(* Nothing worth writing: nothing at all, or directories alone where the   *)
(* archive of the last run was.                                            *)
Barren ==
  LET kinds == {plan[k].kind : k \in DOMAIN plan}
  IN  \/ kinds \subseteq {"skipped"}
      \/ excluded /\ kinds \cap {"file", "link"} = {}

(* Output::create: a destination that is there is replaced only by force;  *)
(* a directory cannot be; what is not a file is written through.           *)
Opens(dst) ==
  /\ Searchable(Canonical(Front(dst)))
  /\ Spot(dst) # Nowhere => asked.force /\ ~ Is(Spot(dst), "dir")

Through == Is(Spot(asked.dst), "link") /\ Is(Canonical(asked.dst), "file")

Create ==
  /\ stage = "naming" /\ turn = Len(asked.paths)
  /\ stage' = IF Barren \/ ~ Opens(asked.dst) THEN "refused" ELSE "writing"
  /\ turn' = 0
  /\ files' = IF stage' = "writing" /\ Through
              THEN [files EXCEPT ![tree[Canonical(asked.dst)].ino].bytes = <<>>] ELSE files
  /\ opened' = IF stage' = "writing" /\ Through THEN tree[Canonical(asked.dst)].ino ELSE NoInode
  /\ UNCHANGED <<tree, pending, changes, asked, target, walking, planning, told, writing>>

(***************************************************************************)
(* The writing.                                                            *)
(***************************************************************************)
Idle == [ino |-> NoInode, at |-> 0, remaining |-> 0, content |-> <<>>, padded |-> FALSE]

AtHand == plan[turn + 1]

(* plan_entry_write, for what a walk yields.                               *)
Holds(kind) ==
  (kind = "dir" => asked.holds.dirs) /\ (kind = "link" => asked.holds.links)

Entry(name, kind, content) == [name |-> name, kind |-> kind, content |-> content]

(* hardlink_count: how many of the plan share an inode with another of it. *)
hardlink_count ==
  Cardinality({k \in DOMAIN plan :
    plan[k].link # NoInode /\ \E j \in DOMAIN plan \ {k} : plan[j].link = plan[k].link})

Telling == told' = told \cup {AtHand.name}

(* An item without a payload; one the container has no entry for.          *)
Record ==
  /\ stage = "writing" /\ turn < Len(plan) /\ AtHand.kind # "file"
  /\ turn' = turn + 1
  /\ \/ /\ AtHand.kind # "skipped" /\ Holds(AtHand.kind)
        /\ stored' = Append(stored, Entry(AtHand.name, AtHand.kind, AtHand.to))
        /\ held' = Append(held, <<>>)
        /\ UNCHANGED told
     \/ /\ AtHand.kind = "skipped" \/ ~ Holds(AtHand.kind)
        /\ Telling /\ UNCHANGED <<stored, held>>
  /\ UNCHANGED <<world, asked, target, opened, stage, walking, planning, linked, reader>>

(* A file that cannot be opened is named and left out.  The open follows   *)
(* links; a directory opens and cannot be read; a socket cannot be opened, *)
(* a fifo no one writes to is waited for.  The writer may refuse the       *)
(* entry's name.                                                           *)
Unopenable(q) ==
  \/ q = Nowhere \/ Is(q, "special")
  \/ Is(q, "file") /\ ~ Readable(q)
  \/ Is(q, "dir") /\ ~ tree[q].lists

Open ==
  /\ stage = "writing" /\ turn < Len(plan) /\ AtHand.kind = "file"
  /\ LET q == Canonical(AtHand.at)
     IN  \/ /\ Unopenable(q)
            /\ Telling /\ turn' = turn + 1 /\ UNCHANGED <<stage, reader>>
         \/ /\ Is(q, "dir") /\ tree[q].lists /\ stage' = "failed"
            /\ UNCHANGED <<told, turn, reader>>
         \/ /\ Is(q, "special") /\ stage' = "waiting"
            /\ UNCHANGED <<told, turn, reader>>
         \/ /\ Readable(q) /\ AtHand.name \in asked.unspeakable /\ stage' = "failed"
            /\ UNCHANGED <<told, turn, reader>>
         \/ /\ Readable(q) /\ AtHand.name \notin asked.unspeakable /\ stage' = "payload"
            /\ reader' = [Idle EXCEPT !.ino = tree[q].ino, !.remaining = AtHand.size]
            /\ UNCHANGED <<told, turn>>
  /\ UNCHANGED <<world, asked, target, opened, walking, planning, linked, stored, held>>

Left == Len(files[reader.ino].bytes) > reader.at

(* ExactLength::read, a byte at a time: the file's, or a zero where the    *)
(* file ends short of the length promised...                               *)
PaddedShort == [reader EXCEPT !.remaining = 0, !.padded = TRUE]   \* variant: no fill
Padded == [reader EXCEPT !.remaining = @ - 1, !.content = Append(@, 0), !.padded = TRUE]
Read ==
  /\ stage = "payload" /\ reader.remaining > 0
  /\ reader' = IF Left
               THEN [reader EXCEPT !.at = @ + 1, !.remaining = @ - 1,
                                   !.content = Append(@, files[reader.ino].bytes[reader.at + 1])]
               ELSE Padded
  /\ UNCHANGED <<world, asked, target, opened, stage, turn, walking, planning, told, linked, stored, held>>

(* ... then one byte more is asked for, to tell a file that has grown.     *)
(* The writer compares what it was given with the length declared.         *)
Grown == Left
Stored ==
  /\ stage = "payload" /\ reader.remaining = 0
  /\ stage' = IF Len(reader.content) = AtHand.size THEN "writing" ELSE "failed"
  /\ stored' = Append(stored, Entry(AtHand.name, "file", reader.content))
  /\ held' = Append(held, files[reader.ino].bytes)
  /\ told' = IF reader.padded \/ Grown THEN told \cup {AtHand.name} ELSE told
  /\ reader' = Idle /\ turn' = turn + 1
  /\ UNCHANGED <<world, asked, target, opened, walking, planning, linked>>

(* finish_target, the summary of hard links, and the archive's name.       *)
Finish ==
  /\ stage = "writing" /\ turn = Len(plan)
  /\ stage' = "done" /\ linked' = hardlink_count
  /\ UNCHANGED <<world, asked, target, opened, turn, walking, planning, told, reader, stored, held>>

(***************************************************************************)
(* The other program: it puts something at a path in place of what was     *)
(* there, removes it, or changes a file in place.                          *)
(***************************************************************************)
Put(path, node) ==
  LET spared == {q \in DOMAIN tree : ~ IsPrefix(path, q)}
  IN  [q \in IF node = Gone THEN spared ELSE spared \cup {path} |->
        IF q = path THEN node ELSE tree[q]]

Ended == stage \in {"done", "refused", "failed", "waiting"}

Changed ==
  /\ ~ Ended /\ Cardinality(changes) < MaxChanges
  /\ \E c \in pending :
       /\ pending' = pending \ {c}
       /\ \/ /\ c.what = "path" /\ Is(Front(c.path), "dir")
             /\ tree' = Put(c.path, c.node)
             /\ changes' = changes \cup {c} /\ UNCHANGED files
          \/ /\ c.what = "file"
             /\ files' = [files EXCEPT ![c.ino] = c.file]
             /\ changes' = changes \cup {[c EXCEPT !.was = files[c.ino].bytes]}
             /\ UNCHANGED tree
  /\ UNCHANGED <<asked, target, opened, stage, turn, walking, planning, told, writing>>

PackInit ==
  /\ \E scene \in Scenes :
       /\ tree = scene.tree /\ files = scene.files /\ asked = scene.asked
       /\ pending = scene.changes
  /\ changes = {}
  /\ target = canonical_output_path(asked.dst) /\ opened = NoInode
  /\ stage = "naming" /\ turn = 0
  /\ here = [at |-> <<>>, name |-> <<>>]
  /\ stack = <<>> /\ found = <<>> /\ plan = <<>>
  /\ excluded = FALSE /\ told = {} /\ linked = 0
  /\ reader = Idle /\ stored = <<>> /\ held = <<>>

PackNext ==
  \/ Name \/ Root \/ List \/ Visit \/ ReadLink
  \/ Sift \/ NextPath \/ Create
  \/ Record \/ Open \/ Read \/ Stored \/ Finish
  \/ Changed

(***************************************************************************)
(* Properties.                                                             *)
(***************************************************************************)
Walked == {k \in DOMAIN asked.paths : Canonical(asked.paths[k].at) # Nowhere}
Base(k) == Canonical(asked.paths[k].at)
Beneath(k) == {q \in DOMAIN tree : IsPrefix(Base(k), q)}
NameAt(k, q) == entry_name_for(asked.paths[k]) \o SubSeq(q, Len(Base(k)) + 1, Len(q))

(* Nobody touched what is at q, nor the way it was reached by: with a link *)
(* on that way, nobody put or removed anything; nor is the archive written *)
(* through another name of the file.                                       *)
Steady(k, q) ==
  /\ \A c \in changes :
       /\ c.what = "path" => asked.paths[k].at = Base(k) /\ ~ IsPrefix(c.path, q)
       /\ c.what = "file" => ~ (Is(q, "file") /\ tree[q].ino = c.ino)
  /\ Is(q, "file") => tree[q].ino # opened

(* Why what is at q, or all of it and all beneath it, cannot be stored.    *)
Barred(k, q) ==
  /\ q # Base(k)
  /\ ~ Decodable(<<Last(q)>>) \/ ~ Searchable(Front(q))
Unstorable(k, q) ==
  \/ Barred(k, q)
  \/ Is(q, "special")
  \/ Is(q, "link") /\ (~ Decodable(tree[q].to) \/ ~ asked.holds.links)
  \/ Is(q, "dir") /\ ~ asked.holds.dirs
  \/ Is(q, "file") /\ (q = target \/ ~ Readable(q))
Stop(k, q) ==
  {t \in Beneath(k) : IsPrefix(t, q) /\ IF t = q THEN Unstorable(k, t)
                                        ELSE Barred(k, t) \/ ~ tree[t].lists}

ContentAt(q) ==
  IF Is(q, "file") THEN files[tree[q].ino].bytes
  ELSE IF Is(q, "link") THEN tree[q].to ELSE <<>>

Kept(k, q) == Entry(NameAt(k, q), tree[q].kind, ContentAt(q)) \in Range(stored)

(* Whatever was there all along is in the archive as it is, or is named    *)
(* (itself, or the directory it is lost with) for a reason there is.       *)
KeptOrTold ==
  stage = "done" => \A k \in Walked : \A q \in Beneath(k) :
    Steady(k, q) =>
      IF Stop(k, q) = {} THEN Kept(k, q)
      ELSE \E t \in Stop(k, q) : Rendered(NameAt(k, t)) \in told

(* A file stored without a word is, byte for byte, what one file held, all  *)
(* of it if nobody wrote to one, and no mere beginning of what it held when *)
(* its entry was ended.                                                    *)
FileChanges == {c \in changes : c.what = "file"}
Versions(i) == {files[i].bytes} \cup {c.was : c \in {c \in FileChanges : c.ino = i}}
WholeOrTold ==
  \A k \in DOMAIN stored :
    stored[k].kind = "file" /\ stored[k].name \notin told =>
      /\ \E i \in DOMAIN files : \A n \in DOMAIN stored[k].content :
           \E v \in Versions(i) : n \in DOMAIN v /\ v[n] = stored[k].content[n]
      /\ FileChanges = {} => stored[k].content = held[k]
      /\ ~ IsStrictPrefix(stored[k].content, held[k])

(* Entries come in the order of their names, each directory before what is *)
(* in it, whatever order the file system lists them in.                    *)
Before(a, b) ==
  \/ IsStrictPrefix(a, b)
  \/ \E k \in DOMAIN a \cap DOMAIN b : a[k] < b[k] /\ \A j \in 1 .. k - 1 : a[j] = b[j]
InOrder ==
  \A j, k \in DOMAIN stored :
    j < k /\ Head(stored[j].name) = Head(stored[k].name) => Before(stored[j].name, stored[k].name)

(* No change to a file, short of its becoming a directory or a fifo, fails *)
(* the whole run; and an undisturbed run is refused only for a path that   *)
(* cannot be stored, two of one name, a destination that is there, or for  *)
(* nothing to store.                                                       *)
Puts(kind) == \E c \in changes : c.what = "path" /\ c.node.kind = kind
Refusable ==
  \/ \E k \in DOMAIN asked.paths :
       LET p == asked.paths[k]
       IN  \/ entry_name_for(p) = Nowhere \/ ~ Decodable(entry_name_for(p))
           \/ Canonical(p.at) = Nowhere \/ Is(Canonical(p.at), "special")
           \/ \E j \in DOMAIN asked.paths \ {k} :
                entry_name_for(asked.paths[j]) = entry_name_for(p)
  \/ ~ Opens(asked.dst) \/ excluded
Steadfast ==
  /\ stage = "failed" => Puts("dir") \/ Puts("link") \/ asked.unspeakable # {}
  /\ stage = "waiting" => Puts("special") \/ Puts("link")
  /\ stage = "refused" /\ changes = {} => Refusable

(* An archive that was there and was left out of its successor is not      *)
(* replaced by directories alone, where the container holds links and the  *)
(* files planned can be read.                                              *)
Worthwhile ==
  stage = "done" /\ excluded /\ changes = {} /\ asked.holds.links =>
    \/ \E k \in DOMAIN stored : stored[k].kind # "dir"
    \/ \E i \in DOMAIN files : ~ files[i].reads

(* The summary of an undisturbed run counts the files stored that have     *)
(* another name stored as well, once each, when all could be read.         *)
Files ==
  {n \in UNION {{<<k, q>> : q \in Beneath(k)} : k \in Walked} :
     Is(n[2], "file") /\ Stop(n[1], n[2]) = {}}
LinksTold ==
  stage = "done" /\ changes = {} /\ (\A i \in DOMAIN files : files[i].reads) =>
    linked = Cardinality({m \in Files : /\ Cardinality(NamesOf(tree[m[2]].ino)) > 1
                                        /\ \E n \in Files \ {m} : tree[m[2]] = tree[n[2]]})

PackedAsFound ==
  KeptOrTold /\ WholeOrTold /\ InOrder /\ Steadfast /\ Worthwhile /\ LinksTold

(* Types; and how the walk and the writing stand to each other.            *)
Stages == {"naming", "root", "listing", "walking", "linking", "writing", "payload",
           "done", "refused", "failed", "waiting"}
Items ==
  [name : Paths, at : Paths, kind : {"dir", "file", "link", "skipped"}, size : Nat,
   link : Nat, to : Paths]
Spots == [at : Paths, name : Paths]
Readers == [ino : Nat, at : Nat, remaining : Nat, content : Seq(Nat), padded : BOOLEAN]
Entries == [name : Paths, kind : {"dir", "file", "link"}, content : Seq(Nat)]

PackTypeOK ==
  /\ stage \in Stages /\ turn \in Nat
  /\ DOMAIN files \subseteq Nat \ {0} /\ files \in [DOMAIN files -> FileStates]
  /\ Tree(tree, DOMAIN files) /\ asked \in Asks
  /\ pending \cup changes \subseteq Changing(DOMAIN files)
  /\ target \in Paths \cup {Nowhere} /\ opened \in Nat /\ told \subseteq Paths
  /\ here \in [at : Paths, name : Paths \cup {Nowhere}] /\ stack \in Seq(Spots)
  /\ found \in Seq(Items) /\ plan \in Seq(Items)
  /\ excluded \in BOOLEAN /\ linked \in 0 .. Len(plan)
  /\ reader \in Readers
  /\ stored \in Seq(Entries) /\ held \in Seq(Seq(Nat)) /\ Len(stored) = Len(held)
  /\ stage = "naming" => turn <= Len(asked.paths)
  /\ stage \in {"root", "listing", "walking", "linking"} =>
       turn < Len(asked.paths) /\ here.name \in Paths
  /\ stage \in {"naming", "root", "writing", "payload"} => stack = <<>> /\ found = <<>>
  /\ stage = "writing" => turn <= Len(plan)
  /\ stage = "payload" =>
       /\ turn < Len(plan) /\ AtHand.kind = "file" /\ reader.ino \in DOMAIN files
       /\ Len(reader.content) + reader.remaining = AtHand.size
  /\ stage # "payload" => reader = Idle
===============================================================================
