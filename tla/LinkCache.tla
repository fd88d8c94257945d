------------------------------- MODULE LinkCache ------------------------------
(***************************************************************************)
(* The payloads convert and cat keep, so that a later hard link can be     *)
(* written as a copy of its target (crates/stuffr/src/link_cache.rs).  A   *)
(* cache is a record, an operation an operator on it.  Sizes are in units; *)
(* names cost the same, within Overhead.                                   *)
(***************************************************************************)
EXTENDS Integers, FiniteSets, FiniteSetsExt, Totals

CONSTANTS
  Names,
  MaxFiles,   (* MAX_SPOOLED_LINK_PAYLOADS                                   *)
  Overhead    (* KEPT_ENTRY_OVERHEAD and the name                            *)

(* Limits and CachePolicy: bytes in memory and in all, whether there is a   *)
(* temp file to go to, Announced (cpio) or Recent (tar).                    *)
LimitsOK(limits) ==
  /\ {limits.mem, limits.total} \subseteq Nat /\ limits.mem <= limits.total
  /\ {limits.disk, limits.announced} \subseteq BOOLEAN
  /\ ~ limits.disk => limits.mem = limits.total
  /\ ~ limits.announced => ~ limits.disk

ASSUME CacheAssumption ==
  /\ IsFiniteSet(Names)
  /\ Overhead \in Nat
  /\ MaxFiles \in Nat \ {0}

Unknown == -1

(* kept[n]: its place in the order, its payload (id: whose bytes; in memory *)
(* or in a file of its own), and the links to come.  order and disk_order   *)
(* name what is kept, and what is kept in a file, by its place.             *)
NewCache(limits) ==
  [limits |-> limits, kept |-> << >>, order |-> << >>, disk_order |-> << >>, next_seq |-> 0,
   in_memory |-> 0, on_disk |-> 0, mem_overhead |-> 0, disk_overhead |-> 0, empties |-> {}]

held(c) == c.in_memory + c.on_disk + c.mem_overhead + c.disk_overhead
held_in_memory(c) == c.in_memory + c.mem_overhead
files(c) == Cardinality(DOMAIN c.disk_order)

SatSub(a, b) == IF a >= b THEN a - b ELSE 0
Least(a, b) == IF a <= b THEN a ELSE b

Less(f, x) == [y \in DOMAIN f \ {x} |-> f[y]]
Bound(f, x, v) == [y \in DOMAIN f \cup {x} |-> IF y = x THEN v ELSE f[y]]

(* Take the payload kept under n out, and un-count it.                      *)
remove(c, n) ==
  LET k == c.kept[n]
      gone == [c EXCEPT !.kept = Less(@, n), !.order = Less(@, k.seq)]
  IN  IF n \notin DOMAIN c.kept THEN c
      ELSE IF k.tier = "file"
      THEN [gone EXCEPT !.disk_order = Less(@, k.seq), !.on_disk = @ - k.len,
                        !.disk_overhead = @ - Overhead]
      ELSE [gone EXCEPT !.in_memory = @ - k.len, !.mem_overhead = @ - Overhead]

forget(c, n) == remove([c EXCEPT !.empties = @ \ {n}], n)

(* evict_oldest, of all that is kept or of what is kept in files.           *)
Queue(c, tier) == IF tier = "file" THEN c.disk_order ELSE c.order
evict(c, tier) ==
  LET q == Queue(c, tier) IN IF DOMAIN q = {} THEN c ELSE remove(c, q[Min(DOMAIN q)])

(* The cache after each number of evictions, and `while over {evict}`: the  *)
(* fewest that do, or all there are.                                        *)
Evictable(c, tier) == Cardinality(DOMAIN Queue(c, tier))
Evictions(c, tier) ==
  LET e[k \in 0 .. Evictable(c, tier)] == IF k = 0 THEN c ELSE evict(e[k - 1], tier) IN e

Roomy(c, charged) ==
  LET e == Evictions(c, "any")
  IN  e[Min({k \in DOMAIN e : held(e[k]) + charged <= c.limits.total} \cup {Evictable(c, "any")})]
RoomyInMemory(c, charged) ==
  LET e == Evictions(c, "any")
  IN  e[Min({k \in DOMAIN e : held_in_memory(e[k]) + charged <= c.limits.mem}
              \cup {Evictable(c, "any")})]
WithFileFree(c) ==
  LET e == Evictions(c, "file")
  IN  e[Min({k \in DOMAIN e : files(e[k]) < MaxFiles} \cup {Evictable(c, "file")})]

wants(c, announced) == ~ c.limits.announced \/ announced > 0

-------------------------------------------------------------------------------
(* A spool sized from what is left once older payloads made room: where its *)
(* bytes are, or that there is none.                                        *)
NoSpool == [tier |-> "none", room |-> 0, mem |-> 0]

(* spool: the cache, and the spool (variant: sized as if nothing were kept).*)
SpoolWhole(c, n, size) ==
  << forget(c, n), [tier |-> "memory", room |-> c.limits.total, mem |-> c.limits.mem] >>

Spool(e) ==
  LET room == SatSub(SatSub(e.limits.total, held(e)), Overhead)
      mem == SatSub(SatSub(e.limits.mem, held_in_memory(e)), Overhead)
  IN  [tier |-> "memory", room |-> room, mem |-> Least(mem, room)]

spool(c, n, size) ==
  LET f == forget(c, n)
      e == IF size = Unknown THEN f ELSE Roomy(f, size + Overhead)
  IN  IF size # Unknown /\ size + Overhead > c.limits.total THEN <<f, NoSpool>>
      ELSE <<e, Spool(e)>>

(* keep: p is the payload, [id, len, tier].                                 *)
Declined(c, p, links_to_come) ==
  \/ links_to_come = 0
  \/ p.len + Overhead > c.limits.total
  \/ p.tier = "file" /\ ~ c.limits.disk
  \/ p.tier = "memory" /\ p.len + Overhead > c.limits.mem

WithRoom(c, p) ==
  LET e == Roomy(c, p.len + Overhead)
  IN  IF p.tier = "file" THEN WithFileFree(e) ELSE RoomyInMemory(e, p.len + Overhead)

Added(c, n, p, links_to_come) ==
  LET k == [seq |-> c.next_seq, id |-> p.id, len |-> p.len, tier |-> p.tier,
            left |-> links_to_come]
      there == [c EXCEPT !.kept = Bound(@, n, k), !.order = Bound(@, k.seq, n),
                         !.next_seq = @ + 1]
  IN  IF p.tier = "file"
      THEN [there EXCEPT !.disk_order = Bound(@, k.seq, n), !.on_disk = @ + p.len,
                         !.disk_overhead = @ + Overhead]
      ELSE [there EXCEPT !.in_memory = @ + p.len, !.mem_overhead = @ + Overhead]

keep(c, n, p, links_to_come) ==
  LET f == forget(c, n)
  IN  IF Declined(f, p, links_to_come) THEN f ELSE Added(WithRoom(f, p), n, p, links_to_come)

keep_empty(c, n) == [forget(c, n) EXCEPT !.empties = @ \cup {n}]

contains(c, n) == n \in c.empties \cup DOMAIN c.kept

(* link_seen: an announced count drops, and the payload with its last link  *)
(* (variant: the payload stays).                                            *)
CountedDown(c, n, left) ==
  [c EXCEPT !.kept = Bound(@, n, [seq |-> @[n].seq, id |-> @[n].id, len |-> @[n].len,
                                  tier |-> @[n].tier, left |-> left])]

link_counted(c, n) ==
  IF n \notin DOMAIN c.kept \/ c.kept[n].left = Unknown THEN c
  ELSE CountedDown(c, n, SatSub(c.kept[n].left, 1))

link_seen(c, n) ==
  IF n \notin DOMAIN c.kept \/ c.kept[n].left = Unknown THEN c
  ELSE IF c.kept[n].left <= 1 THEN remove(c, n)
  ELSE CountedDown(c, n, c.kept[n].left - 1)
===============================================================================
