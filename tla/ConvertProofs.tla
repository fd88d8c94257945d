----------------------------- MODULE ConvertProofs -----------------------------
(***************************************************************************)
(* Proofs about Convert, for any names, conversions, archives and limits.  *)
(* First of LinkCache, operation by operation: each keeps the cache sound  *)
(* (its counters are exact, its eviction order lists what is kept once,    *)
(* nothing passes the policy), and says what it leaves under each name.    *)
(* Then of the loop over entries, and of the bytes of one archive.         *)
(***************************************************************************)
EXTENDS Convert, FiniteSetTheorems, WellFoundedInduction, TLAPS

-------------------------------------------------------------------------------
(* Numbers and sums.                                                        *)

(* Numbers have a least.                                                    *)
LEMMA LeastOf ==
  ASSUME NEW S, S \subseteq Nat, S # {}
  PROVE  Min(S) \in S /\ \A k \in S : Min(S) <= k
  <1>. DEFINE R == {ss \in Nat \X Nat : ss[1] < ss[2]}
  <1>1. IsWellFoundedOn(R, Nat)
    BY NatLessThanWellFounded DEF OpToRel
  <1>2. \A n, k \in Nat : ~ (<<k, n>> \in R) => n <= k
    OBVIOUS
  <1>. HIDE DEF R
  <1>3. PICK n \in S : \A k \in S : ~ (<<k, n>> \in R)
    BY <1>1, WFMin
  <1>4. \A k \in S : n <= k
    BY <1>2, <1>3
  <1>. QED BY <1>3, <1>4 DEF Min

(* A multiple less one share is a natural number.                           *)
LEMMA OneFewer == ASSUME NEW p \in Nat \ {0}, NEW q \in Nat PROVE p * q - q \in Nat
  <1>1. \A i, j \in Nat : i * j \in Nat /\ (i + 1) * j = i * j + j
    OBVIOUS
  <1>2. p - 1 \in Nat /\ p = (p - 1) + 1
    OBVIOUS
  <1>3. p * q = (p - 1) * q + q /\ (p - 1) * q \in Nat
    BY <1>1, <1>2
  <1>. QED BY <1>3

(* One share: n elements.                                                   *)
LEMMA SharePart ==
  ASSUME NEW d, NEW n \in Nat
  PROVE  /\ IsFiniteSet({d} \X (1 .. n))
         /\ Cardinality({d} \X (1 .. n)) = n
  <1>1. IsFiniteSet({d}) /\ Cardinality({d}) = 1
    BY FS_Singleton
  <1>2. IsFiniteSet(1 .. n) /\ Cardinality(1 .. n) = n
    BY FS_Interval
  <1>3. /\ IsFiniteSet({d} \X (1 .. n))
        /\ Cardinality({d} \X (1 .. n)) = Cardinality({d}) * Cardinality(1 .. n)
    BY <1>1, <1>2, FS_Product
  <1>. QED BY <1>1, <1>2, <1>3

(* Natural shares of finitely many add up to a natural number.              *)
LEMMA TotalType ==
  ASSUME NEW D, IsFiniteSet(D), NEW amount, \A d \in D : amount[d] \in Nat
  PROVE  IsFiniteSet(Parts(D, amount)) /\ Total(D, amount) \in Nat
  <1>. DEFINE share == [d \in D |-> {d} \X (1 .. amount[d])]
              S == {share[d] : d \in D}
  <1>1. share \in Surjection(D, S)
    BY DEF Surjection
  <1>2. IsFiniteSet(S)
    <2>. HIDE DEF share, S
    <2>. QED BY <1>1, FS_Surjection
  <1>3. \A T \in S : IsFiniteSet(T)
    <2>1. ASSUME NEW d \in D PROVE IsFiniteSet(share[d])
      <3>1. amount[d] \in Nat
        OBVIOUS
      <3>. QED BY <3>1, SharePart
    <2>. QED BY <2>1
  <1>4. IsFiniteSet(UNION S)
    <2>. HIDE DEF S
    <2>. QED BY <1>2, <1>3, FS_UNION
  <1>5. UNION S = Parts(D, amount)
    BY DEF Parts
  <1>6. IsFiniteSet(Parts(D, amount))
    <2>. HIDE DEF S
    <2>. QED BY <1>4, <1>5
  <1>. QED BY <1>6, FS_CardinalityType DEF Total

(* The total is of the shares alone, and nothing's is nothing.              *)
LEMMA TotalSame ==
  ASSUME NEW D, NEW a, NEW b, \A d \in D : a[d] = b[d]
  PROVE  Total(D, a) = Total(D, b)
  <1>1. Parts(D, a) = Parts(D, b)
    BY DEF Parts
  <1>. QED BY <1>1 DEF Total

LEMMA TotalOfNone == ASSUME NEW amount PROVE Total({}, amount) = 0
  <1>1. Parts({}, amount) = {}
    BY DEF Parts
  <1>. QED BY <1>1, FS_EmptySet DEF Total

(* A total with one share out.                                              *)
LEMMA TotalWithout ==
  ASSUME NEW D, IsFiniteSet(D), NEW d \in D, NEW amount, \A x \in D : amount[x] \in Nat
  PROVE  /\ Total(D \ {d}, amount) \in Nat
         /\ Total(D, amount) = Total(D \ {d}, amount) + amount[d]
  <1>. DEFINE own == {d} \X (1 .. amount[d])
              rest == Parts(D \ {d}, amount)
  <1>1. IsFiniteSet(own) /\ Cardinality(own) = amount[d]
    BY SharePart
  <1>2. IsFiniteSet(D \ {d})
    BY FS_RemoveElement
  <1>3. IsFiniteSet(rest) /\ Total(D \ {d}, amount) \in Nat
    BY <1>2, TotalType
  <1>4. Parts(D, amount) = rest \cup own
    BY DEF Parts
  <1>5. rest \cap own = {}
    BY DEF Parts
  <1>6. Cardinality(rest \cup own)
          = Cardinality(rest) + Cardinality(own) - Cardinality(rest \cap own)
    <2>. HIDE DEF rest, own
    <2>. QED BY <1>1, <1>3, FS_Union
  <1>7. Cardinality(rest \cap own) = 0
    BY <1>5, FS_EmptySet
  <1>. QED BY <1>1, <1>3, <1>4, <1>6, <1>7 DEF Total

-------------------------------------------------------------------------------
(* The link cache: what a sound one is.                                     *)
Policies == {c.limits : c \in Conversions}
Tiers == {"memory", "file"}
Payloads == [seq : Nat, id : Nat, len : Nat, tier : Tiers, left : Nat \cup {Unknown}]

Partial(A, B) == UNION {[S -> B] : S \in SUBSET A}

Caches ==
  [limits : Policies, kept : Partial(Names, Payloads), order : Partial(Nat, Names),
   disk_order : Partial(Nat, Names), next_seq : Nat, in_memory : Nat, on_disk : Nat,
   mem_overhead : Nat, disk_overhead : Nat, empties : SUBSET Names]

Held(c, tier) == {n \in DOMAIN c.kept : c.kept[n].tier = tier}
Lengths(c) == [n \in DOMAIN c.kept |-> c.kept[n].len]

(* A queue lists what of c is in S, each by its place.                      *)
Lists(c, queue, S) ==
  /\ DOMAIN queue = {c.kept[n].seq : n \in S}
  /\ \A n \in S : queue[c.kept[n].seq] = n

Listed(c) ==
  /\ Lists(c, c.order, DOMAIN c.kept)
  /\ Lists(c, c.disk_order, Held(c, "file"))

Counted(c) ==
  /\ c.in_memory = Total(Held(c, "memory"), Lengths(c))
  /\ c.on_disk = Total(Held(c, "file"), Lengths(c))
  /\ c.mem_overhead = Cardinality(Held(c, "memory")) * Overhead
  /\ c.disk_overhead = Cardinality(Held(c, "file")) * Overhead

Bounded(c) ==
  /\ held(c) <= c.limits.total
  /\ held_in_memory(c) <= c.limits.mem
  /\ files(c) <= MaxFiles

Proper(c) ==
  /\ \A n \in DOMAIN c.kept :
       /\ c.kept[n].seq < c.next_seq
       /\ c.kept[n].id \in 1 .. MaxEntries
       /\ c.kept[n].len \in 1 .. c.limits.total
       /\ c.kept[n].left # 0
  /\ c.empties \cap DOMAIN c.kept = {}

Sound(c) == c \in Caches /\ Listed(c) /\ Counted(c) /\ Bounded(c) /\ Proper(c)

(* d is c with nothing but less kept.                                       *)
Reduced(d, c) ==
  /\ d.limits = c.limits /\ d.empties = c.empties /\ d.next_seq = c.next_seq
  /\ DOMAIN d.kept \subseteq DOMAIN c.kept
  /\ \A n \in DOMAIN d.kept : d.kept[n] = c.kept[n]
  /\ held(d) <= held(c) /\ held_in_memory(d) <= held_in_memory(c) /\ files(d) <= files(c)

LEMMA LimitsType ==
  ASSUME NEW l \in Policies
  PROVE  /\ l.mem \in Nat /\ l.total \in Nat /\ l.mem <= l.total
         /\ l.disk \in BOOLEAN /\ l.announced \in BOOLEAN
         /\ ~ l.disk => l.mem = l.total
         /\ ~ l.announced => ~ l.disk
  BY ConvertAssumption DEF Policies, LimitsOK

LEMMA PartialType ==
  ASSUME NEW A, NEW B, NEW f
  PROVE  f \in Partial(A, B) <=>
           /\ f = [x \in DOMAIN f |-> f[x]]
           /\ DOMAIN f \subseteq A
           /\ \A x \in DOMAIN f : f[x] \in B
  BY DEF Partial

LEMMA LessOf ==
  ASSUME NEW f, NEW x
  PROVE  /\ DOMAIN Less(f, x) = DOMAIN f \ {x}
         /\ \A y \in DOMAIN f \ {x} : Less(f, x)[y] = f[y]
  BY DEF Less

LEMMA BoundOf ==
  ASSUME NEW f, NEW x, NEW v
  PROVE  /\ DOMAIN Bound(f, x, v) = DOMAIN f \cup {x}
         /\ Bound(f, x, v)[x] = v
         /\ \A y \in DOMAIN f \ {x} : Bound(f, x, v)[y] = f[y]
  BY DEF Bound

LEMMA LessPartial ==
  ASSUME NEW A, NEW B, NEW f \in Partial(A, B), NEW x
  PROVE  Less(f, x) \in Partial(A, B)
  BY PartialType DEF Less

LEMMA BoundPartial ==
  ASSUME NEW A, NEW B, NEW f \in Partial(A, B), NEW x \in A, NEW v \in B
  PROVE  Bound(f, x, v) \in Partial(A, B)
  BY PartialType DEF Bound

(* The parts of a sound cache.                                              *)
LEMMA SoundType ==
  ASSUME NEW c, c \in Caches
  PROVE  /\ c.limits \in Policies /\ c.limits.mem \in Nat /\ c.limits.total \in Nat
         /\ c.kept \in Partial(Names, Payloads)
         /\ c.order \in Partial(Nat, Names) /\ c.disk_order \in Partial(Nat, Names)
         /\ {c.next_seq, c.in_memory, c.on_disk, c.mem_overhead, c.disk_overhead} \subseteq Nat
         /\ c.empties \subseteq Names
         /\ DOMAIN c.kept \subseteq Names /\ IsFiniteSet(DOMAIN c.kept)
         /\ \A n \in DOMAIN c.kept : c.kept[n] \in Payloads
         /\ DOMAIN c.order \subseteq Nat /\ DOMAIN c.disk_order \subseteq Nat
         /\ \A q \in DOMAIN c.order : c.order[q] \in Names
         /\ \A q \in DOMAIN c.disk_order : c.disk_order[q] \in Names
  <1>1. /\ c.limits \in Policies
        /\ c.kept \in Partial(Names, Payloads)
        /\ c.order \in Partial(Nat, Names) /\ c.disk_order \in Partial(Nat, Names)
        /\ {c.next_seq, c.in_memory, c.on_disk, c.mem_overhead, c.disk_overhead} \subseteq Nat
        /\ c.empties \subseteq Names
    BY DEF Caches
  <1>2. /\ DOMAIN c.kept \subseteq Names /\ \A n \in DOMAIN c.kept : c.kept[n] \in Payloads
        /\ DOMAIN c.order \subseteq Nat /\ DOMAIN c.disk_order \subseteq Nat
        /\ \A q \in DOMAIN c.order : c.order[q] \in Names
        /\ \A q \in DOMAIN c.disk_order : c.disk_order[q] \in Names
    BY <1>1, PartialType
  <1>3. IsFiniteSet(DOMAIN c.kept)
    BY <1>2, CacheAssumption, FS_Subset
  <1>. QED BY <1>1, <1>2, <1>3, LimitsType

(* Only finitely many payloads are in each tier.                            *)
LEMMA HeldFinite ==
  ASSUME NEW c, c \in Caches, NEW tier
  PROVE  /\ IsFiniteSet(Held(c, tier)) /\ Held(c, tier) \subseteq DOMAIN c.kept
         /\ \A n \in Held(c, tier) : Lengths(c)[n] = c.kept[n].len /\ Lengths(c)[n] \in Nat
         /\ Cardinality(Held(c, tier)) \in Nat
  <1>1. Held(c, tier) \subseteq DOMAIN c.kept
    BY DEF Held
  <1>2. IsFiniteSet(Held(c, tier))
    BY <1>1, SoundType, FS_Subset
  <1>3. \A n \in DOMAIN c.kept : Lengths(c)[n] = c.kept[n].len /\ c.kept[n].len \in Nat
    BY SoundType DEF Lengths, Payloads
  <1>. QED BY <1>1, <1>2, <1>3, FS_CardinalityType

-------------------------------------------------------------------------------
(* remove: what it changes, field by field.                                 *)
LEMMA RemoveFile ==
  ASSUME NEW c, c \in Caches, NEW n \in DOMAIN c.kept, c.kept[n].tier = "file",
         c.on_disk - c.kept[n].len \in Nat, c.disk_overhead - Overhead \in Nat
  PROVE  LET r == remove(c, n)
         IN  /\ r \in Caches
             /\ r.limits = c.limits /\ r.next_seq = c.next_seq /\ r.empties = c.empties
             /\ r.kept = Less(c.kept, n)
             /\ r.order = Less(c.order, c.kept[n].seq)
             /\ r.disk_order = Less(c.disk_order, c.kept[n].seq)
             /\ r.in_memory = c.in_memory /\ r.mem_overhead = c.mem_overhead
             /\ r.on_disk = c.on_disk - c.kept[n].len
             /\ r.disk_overhead = c.disk_overhead - Overhead
  <1>. DEFINE kept == Less(c.kept, n)
              order == Less(c.order, c.kept[n].seq)
              disk_order == Less(c.disk_order, c.kept[n].seq)
              on_disk == c.on_disk - c.kept[n].len
              disk_overhead == c.disk_overhead - Overhead
  <1>1. /\ kept \in Partial(Names, Payloads)
        /\ order \in Partial(Nat, Names) /\ disk_order \in Partial(Nat, Names)
        /\ on_disk \in Nat /\ disk_overhead \in Nat
    BY SoundType, LessPartial
  <1>2. remove(c, n) =
          [[c EXCEPT !.kept = kept, !.order = order] EXCEPT
             !.disk_order = disk_order, !.on_disk = on_disk, !.disk_overhead = disk_overhead]
    <2>1. remove(c, n) =
            LET gone == [c EXCEPT !.kept = kept, !.order = order]
            IN  [gone EXCEPT !.disk_order = Less(@, c.kept[n].seq), !.on_disk = @ - c.kept[n].len,
                             !.disk_overhead = @ - Overhead]
      BY DEF remove
    <2>2. LET gone == [c EXCEPT !.kept = kept, !.order = order]
          IN  /\ gone.disk_order = c.disk_order /\ gone.on_disk = c.on_disk
              /\ gone.disk_overhead = c.disk_overhead
      <3>. HIDE DEF kept, order
      <3>. QED BY DEF Caches
    <2>. HIDE DEF kept, order
    <2>. QED BY <2>1, <2>2
  <1>. HIDE DEF kept, order, disk_order, on_disk, disk_overhead
  <1>3. LET r == remove(c, n)
         IN  /\ r \in Caches
             /\ r.limits = c.limits /\ r.next_seq = c.next_seq /\ r.empties = c.empties
             /\ r.kept = kept /\ r.order = order /\ r.disk_order = disk_order
             /\ r.in_memory = c.in_memory /\ r.mem_overhead = c.mem_overhead
             /\ r.on_disk = on_disk /\ r.disk_overhead = disk_overhead
    BY <1>1, <1>2, ZenonT(60) DEF Caches
  <1>. QED BY <1>3 DEF kept, order, disk_order, on_disk, disk_overhead

LEMMA RemoveMemory ==
  ASSUME NEW c, c \in Caches, NEW n \in DOMAIN c.kept, c.kept[n].tier # "file",
         c.in_memory - c.kept[n].len \in Nat, c.mem_overhead - Overhead \in Nat
  PROVE  LET r == remove(c, n)
         IN  /\ r \in Caches
             /\ r.limits = c.limits /\ r.next_seq = c.next_seq /\ r.empties = c.empties
             /\ r.kept = Less(c.kept, n)
             /\ r.order = Less(c.order, c.kept[n].seq)
             /\ r.disk_order = c.disk_order
             /\ r.on_disk = c.on_disk /\ r.disk_overhead = c.disk_overhead
             /\ r.in_memory = c.in_memory - c.kept[n].len
             /\ r.mem_overhead = c.mem_overhead - Overhead
  <1>. DEFINE kept == Less(c.kept, n)
              order == Less(c.order, c.kept[n].seq)
              in_memory == c.in_memory - c.kept[n].len
              mem_overhead == c.mem_overhead - Overhead
  <1>1. /\ kept \in Partial(Names, Payloads) /\ order \in Partial(Nat, Names)
        /\ in_memory \in Nat /\ mem_overhead \in Nat
    BY SoundType, LessPartial
  <1>2. remove(c, n) =
          [[c EXCEPT !.kept = kept, !.order = order] EXCEPT
             !.in_memory = in_memory, !.mem_overhead = mem_overhead]
    <2>1. remove(c, n) =
            LET gone == [c EXCEPT !.kept = kept, !.order = order]
            IN  [gone EXCEPT !.in_memory = @ - c.kept[n].len, !.mem_overhead = @ - Overhead]
      BY DEF remove
    <2>2. LET gone == [c EXCEPT !.kept = kept, !.order = order]
          IN  gone.in_memory = c.in_memory /\ gone.mem_overhead = c.mem_overhead
      <3>. HIDE DEF kept, order
      <3>. QED BY DEF Caches
    <2>. HIDE DEF kept, order
    <2>. QED BY <2>1, <2>2
  <1>. HIDE DEF kept, order, in_memory, mem_overhead
  <1>3. LET r == remove(c, n)
         IN  /\ r \in Caches
             /\ r.limits = c.limits /\ r.next_seq = c.next_seq /\ r.empties = c.empties
             /\ r.kept = kept /\ r.order = order /\ r.disk_order = c.disk_order
             /\ r.on_disk = c.on_disk /\ r.disk_overhead = c.disk_overhead
             /\ r.in_memory = in_memory /\ r.mem_overhead = mem_overhead
    BY <1>1, <1>2 DEF Caches
  <1>. QED BY <1>3 DEF kept, order, in_memory, mem_overhead

(* A queue without what is taken out.                                       *)
LEMMA UnlistedOne ==
  ASSUME NEW c \in Caches, Listed(c), NEW d, NEW n \in DOMAIN c.kept,
         d.kept = Less(c.kept, n), NEW queue \in Partial(Nat, Names),
         NEW S \in SUBSET DOMAIN c.kept, Lists(c, queue, S), n \in S
  PROVE  Lists(d, Less(queue, c.kept[n].seq), S \ {n})
  <1>1. \A m \in S \ {n} : d.kept[m] = c.kept[m]
    BY DEF Less
  <1>2. \A m \in S \ {n} : c.kept[m].seq # c.kept[n].seq
    BY DEF Lists
  <1>3. /\ DOMAIN Less(queue, c.kept[n].seq) = DOMAIN queue \ {c.kept[n].seq}
        /\ \A q \in DOMAIN queue \ {c.kept[n].seq} : Less(queue, c.kept[n].seq)[q] = queue[q]
    BY LessOf
  <1>. QED BY <1>1, <1>2, <1>3 DEF Lists

LEMMA StillListed ==
  ASSUME NEW c, NEW d, NEW queue, NEW S, Lists(c, queue, S), \A m \in S : d.kept[m] = c.kept[m]
  PROVE  Lists(d, queue, S)
  BY DEF Lists

(* What of a tier is left of c in d, and what it adds up to.                *)
LEMMA TierLess ==
  ASSUME NEW c \in Caches, NEW d \in Caches, NEW n \in DOMAIN c.kept, d.kept = Less(c.kept, n),
         NEW tier, c.kept[n].tier = tier
  PROVE  /\ Held(d, tier) = Held(c, tier) \ {n}
         /\ Total(Held(d, tier), Lengths(d)) + c.kept[n].len = Total(Held(c, tier), Lengths(c))
         /\ Cardinality(Held(d, tier)) * Overhead + Overhead = Cardinality(Held(c, tier)) * Overhead
         /\ Total(Held(d, tier), Lengths(d)) \in Nat
         /\ Cardinality(Held(d, tier)) * Overhead \in Nat
  <1>1. DOMAIN d.kept = DOMAIN c.kept \ {n} /\ \A m \in DOMAIN d.kept : d.kept[m] = c.kept[m]
    BY DEF Less
  <1>2. Held(d, tier) = Held(c, tier) \ {n} /\ n \in Held(c, tier)
    BY <1>1 DEF Held
  <1>3. /\ Total(Held(c, tier) \ {n}, Lengths(c)) \in Nat
        /\ Total(Held(c, tier), Lengths(c))
             = Total(Held(c, tier) \ {n}, Lengths(c)) + Lengths(c)[n]
    BY <1>2, HeldFinite, TotalWithout
  <1>4. Total(Held(d, tier), Lengths(d)) = Total(Held(c, tier) \ {n}, Lengths(c))
    <2>1. \A m \in Held(d, tier) : Lengths(d)[m] = Lengths(c)[m]
      BY <1>1, <1>2 DEF Held, Lengths
    <2>. QED BY <2>1, <1>2, TotalSame
  <1>5. Lengths(c)[n] = c.kept[n].len
    BY DEF Lengths
  <1>6. Cardinality(Held(d, tier)) + 1 = Cardinality(Held(c, tier))
    <2>. IsFiniteSet(Held(c, tier)) /\ Cardinality(Held(c, tier)) \in Nat
      BY HeldFinite
    <2>1. Cardinality(Held(c, tier) \ {n}) = Cardinality(Held(c, tier)) - 1
      BY <1>2, FS_RemoveElement
    <2>. QED BY <2>1, <1>2, HeldFinite
  <1>7. Cardinality(Held(d, tier)) \in Nat /\ Overhead \in Nat
    BY HeldFinite, CacheAssumption
  <1>8. \A p, q \in Nat : p * q \in Nat /\ (p + 1) * q = p * q + q
    OBVIOUS
  <1>. QED BY <1>2, <1>3, <1>4, <1>5, <1>6, <1>7, <1>8

LEMMA TierSame ==
  ASSUME NEW c \in Caches, NEW d \in Caches, NEW tier,
         Held(d, tier) = Held(c, tier), \A m \in Held(c, tier) : d.kept[m] = c.kept[m]
  PROVE  Total(Held(d, tier), Lengths(d)) = Total(Held(c, tier), Lengths(c))
  <1>1. \A m \in Held(d, tier) : Lengths(d)[m] = Lengths(c)[m]
    BY DEF Held, Lengths
  <1>. QED BY <1>1, TotalSame

LEMMA QueuesFinite ==
  ASSUME NEW c, c \in Caches, Listed(c)
  PROVE  /\ IsFiniteSet(DOMAIN c.order) /\ IsFiniteSet(DOMAIN c.disk_order)
         /\ DOMAIN c.disk_order \subseteq DOMAIN c.order
         /\ files(c) \in Nat
  <1>. DEFINE place == [n \in DOMAIN c.kept |-> c.kept[n].seq]
              places == {place[n] : n \in DOMAIN c.kept}
  <1>1. place \in Surjection(DOMAIN c.kept, places)
    BY DEF Surjection
  <1>2. IsFiniteSet(DOMAIN c.kept)
    BY SoundType
  <1>3. IsFiniteSet(places)
    <2>. HIDE DEF place, places
    <2>. QED BY <1>1, <1>2, FS_Surjection
  <1>4. DOMAIN c.order = places
    BY DEF Listed, Lists
  <1>5. DOMAIN c.disk_order \subseteq DOMAIN c.order
    BY DEF Listed, Lists, Held
  <1>6. IsFiniteSet(DOMAIN c.order) /\ IsFiniteSet(DOMAIN c.disk_order)
    <2>. HIDE DEF place, places
    <2>. QED BY <1>3, <1>4, <1>5, FS_Subset
  <1>. QED BY <1>5, <1>6, FS_CardinalityType DEF files

(* The counters of a sound cache, as sums of natural numbers.               *)
LEMMA CounterType ==
  ASSUME NEW c, c \in Caches, NEW tier
  PROVE  Total(Held(c, tier), Lengths(c)) \in Nat /\ Cardinality(Held(c, tier)) * Overhead \in Nat
  <1>1. Total(Held(c, tier), Lengths(c)) \in Nat
    BY HeldFinite, TotalType
  <1>2. Cardinality(Held(c, tier)) \in Nat /\ Overhead \in Nat
    BY HeldFinite, CacheAssumption
  <1>3. \A p, q \in Nat : p * q \in Nat
    OBVIOUS
  <1>. QED BY <1>1, <1>2, <1>3

(* Taking a payload out leaves a sound cache, with that much less in it.    *)
LEMMA RemoveSound ==
  ASSUME NEW c, Sound(c), NEW n
  PROVE  /\ Sound(remove(c, n)) /\ Reduced(remove(c, n), c)
         /\ DOMAIN remove(c, n).kept = DOMAIN c.kept \ {n}
         /\ n \in DOMAIN c.kept =>
              /\ DOMAIN remove(c, n).order = DOMAIN c.order \ {c.kept[n].seq}
              /\ DOMAIN remove(c, n).disk_order = DOMAIN c.disk_order \ {c.kept[n].seq}
  <1>. DEFINE r == remove(c, n)
  <1>0. c \in Caches /\ Listed(c) /\ Counted(c) /\ Bounded(c) /\ Proper(c)
    BY DEF Sound
  <1>. USE <1>0
  <1>t. /\ {c.in_memory, c.on_disk, c.mem_overhead, c.disk_overhead} \subseteq Nat
        /\ files(c) \in Nat /\ Overhead \in Nat /\ c.limits.mem \in Nat /\ c.limits.total \in Nat
        /\ MaxFiles \in Nat
    BY SoundType, QueuesFinite, CacheAssumption
  <1>1. CASE n \notin DOMAIN c.kept
    <2>1. r = c
      BY <1>1 DEF remove
    <2>2. Reduced(c, c)
      BY <1>t DEF Reduced, held, held_in_memory
    <2>. QED BY <1>1, <2>1, <2>2 DEF Sound
  <1>2. ASSUME n \in DOMAIN c.kept,
               r \in Caches, r.limits = c.limits, r.next_seq = c.next_seq, r.empties = c.empties,
               r.kept = Less(c.kept, n), r.order = Less(c.order, c.kept[n].seq),
               DOMAIN r.disk_order = DOMAIN c.disk_order \ {c.kept[n].seq},
               Lists(r, r.disk_order, Held(r, "file")), Counted(r),
               r.in_memory <= c.in_memory, r.on_disk <= c.on_disk,
               r.mem_overhead <= c.mem_overhead, r.disk_overhead <= c.disk_overhead
        PROVE  /\ Sound(r) /\ Reduced(r, c) /\ DOMAIN r.kept = DOMAIN c.kept \ {n}
               /\ DOMAIN r.order = DOMAIN c.order \ {c.kept[n].seq}
               /\ DOMAIN r.disk_order = DOMAIN c.disk_order \ {c.kept[n].seq}
    <2>. HIDE DEF r
    <2>1. DOMAIN r.kept = DOMAIN c.kept \ {n} /\ \A m \in DOMAIN r.kept : r.kept[m] = c.kept[m]
      BY <1>2 DEF Less
    <2>2. Lists(r, r.order, DOMAIN c.kept \ {n})
      <3>1. c.order \in Partial(Nat, Names) /\ Lists(c, c.order, DOMAIN c.kept)
        BY SoundType DEF Listed
      <3>2. DOMAIN c.kept \in SUBSET DOMAIN c.kept
        OBVIOUS
      <3>3. n \in DOMAIN c.kept /\ r.kept = Less(c.kept, n)
        BY <1>2
      <3>4. Lists(r, Less(c.order, c.kept[n].seq), DOMAIN c.kept \ {n})
        BY <3>1, <3>2, <3>3, UnlistedOne
      <3>. QED BY <1>2, <3>4
    <2>3. Listed(r)
      BY <1>2, <2>1, <2>2 DEF Listed
    <2>4. files(r) <= files(c)
      BY <1>2, QueuesFinite, FS_Subset DEF files
    <2>5. held(r) <= held(c) /\ held_in_memory(r) <= held_in_memory(c)
      <3>1. {r.in_memory, r.on_disk, r.mem_overhead, r.disk_overhead} \subseteq Nat
        BY <1>2, SoundType
      <3>. QED BY <1>2, <1>t, <3>1 DEF held, held_in_memory
    <2>6. Reduced(r, c)
      BY <1>2, <2>1, <2>4, <2>5 DEF Reduced
    <2>7. Bounded(r)
      <3>1. /\ {held(r), held(c), held_in_memory(r), held_in_memory(c)} \subseteq Nat
            /\ files(r) \in Nat
        <4>1. {r.in_memory, r.on_disk, r.mem_overhead, r.disk_overhead} \subseteq Nat
          BY <1>2, SoundType
        <4>. QED BY <1>2, <1>t, <2>3, <4>1, QueuesFinite DEF held, held_in_memory
      <3>. QED BY <1>2, <1>t, <2>4, <2>5, <3>1 DEF Bounded
    <2>8. Proper(r)
      BY <1>2, <2>1 DEF Proper
    <2>9. DOMAIN r.order = DOMAIN c.order \ {c.kept[n].seq}
      BY <1>2 DEF Less
    <2>. QED BY <1>2, <2>1, <2>3, <2>6, <2>7, <2>8, <2>9 DEF Sound
  <1>. DEFINE k == c.kept[n]
  <1>3. ASSUME n \in DOMAIN c.kept, k.tier = "file"
        PROVE  /\ Sound(r) /\ Reduced(r, c) /\ DOMAIN r.kept = DOMAIN c.kept \ {n}
               /\ DOMAIN r.order = DOMAIN c.order \ {c.kept[n].seq}
               /\ DOMAIN r.disk_order = DOMAIN c.disk_order \ {c.kept[n].seq}
    <2>1. k \in Payloads /\ k.len \in Nat
      BY <1>3, SoundType DEF Payloads
    <2>2. c.on_disk - k.len \in Nat /\ c.disk_overhead - Overhead \in Nat
      <3>1. n \in Held(c, "file") /\ Lengths(c)[n] = k.len
        BY <1>3 DEF Held, Lengths
      <3>2. /\ Total(Held(c, "file") \ {n}, Lengths(c)) \in Nat
            /\ Total(Held(c, "file"), Lengths(c))
                 = Total(Held(c, "file") \ {n}, Lengths(c)) + Lengths(c)[n]
        BY <3>1, HeldFinite, TotalWithout
      <3>3. Cardinality(Held(c, "file")) \in Nat \ {0}
        BY <3>1, HeldFinite, FS_EmptySet
      <3>. QED BY <1>t, <2>1, <3>1, <3>2, <3>3, OneFewer DEF Counted
    <2>3. /\ r \in Caches
          /\ r.limits = c.limits /\ r.next_seq = c.next_seq /\ r.empties = c.empties
          /\ r.kept = Less(c.kept, n)
          /\ r.order = Less(c.order, k.seq) /\ r.disk_order = Less(c.disk_order, k.seq)
          /\ r.in_memory = c.in_memory /\ r.mem_overhead = c.mem_overhead
          /\ r.on_disk = c.on_disk - k.len /\ r.disk_overhead = c.disk_overhead - Overhead
      BY <1>3, <2>2, RemoveFile
    <2>. HIDE DEF r
    <2>4. n \in Held(c, "file") /\ Held(c, "file") \subseteq DOMAIN c.kept
      BY <1>3 DEF Held
    <2>5. Held(r, "file") = Held(c, "file") \ {n}
      BY <1>3, <2>3, TierLess
    <2>6. Lists(r, r.disk_order, Held(r, "file"))
      <3>1. c.disk_order \in Partial(Nat, Names) /\ Lists(c, c.disk_order, Held(c, "file"))
        BY SoundType DEF Listed
      <3>2. Held(c, "file") \in SUBSET DOMAIN c.kept
        BY <2>4
      <3>3. n \in Held(c, "file") /\ r.kept = Less(c.kept, n) /\ n \in DOMAIN c.kept
        BY <1>3, <2>3, <2>4
      <3>4. Lists(r, Less(c.disk_order, k.seq), Held(c, "file") \ {n})
        BY <3>1, <3>2, <3>3, UnlistedOne
      <3>. QED BY <2>3, <2>5, <3>4
    <2>7. DOMAIN r.disk_order = DOMAIN c.disk_order \ {k.seq}
      BY <2>3 DEF Less
    <2>8. Counted(r)
      <3>1. /\ Total(Held(r, "file"), Lengths(r)) + k.len = Total(Held(c, "file"), Lengths(c))
            /\ Cardinality(Held(r, "file")) * Overhead + Overhead
                 = Cardinality(Held(c, "file")) * Overhead
            /\ Total(Held(r, "file"), Lengths(r)) \in Nat
            /\ Cardinality(Held(r, "file")) * Overhead \in Nat
        BY <1>3, <2>3, TierLess
      <3>2. /\ Held(r, "memory") = Held(c, "memory")
            /\ \A m \in Held(c, "memory") : r.kept[m] = c.kept[m]
        BY <1>3, <2>3 DEF Held, Less
      <3>3. Total(Held(r, "memory"), Lengths(r)) = Total(Held(c, "memory"), Lengths(c))
        BY <2>3, <3>2, TierSame
      <3>. QED BY <1>t, <2>1, <2>3, <3>1, <3>2, <3>3 DEF Counted
    <2>9. /\ r.in_memory <= c.in_memory /\ r.on_disk <= c.on_disk
          /\ r.mem_overhead <= c.mem_overhead /\ r.disk_overhead <= c.disk_overhead
      BY <1>t, <2>1, <2>3
    <2>. QED BY <1>2, <1>3, <2>3, <2>6, <2>7, <2>8, <2>9
  <1>4. ASSUME n \in DOMAIN c.kept, k.tier # "file"
        PROVE  /\ Sound(r) /\ Reduced(r, c) /\ DOMAIN r.kept = DOMAIN c.kept \ {n}
               /\ DOMAIN r.order = DOMAIN c.order \ {c.kept[n].seq}
               /\ DOMAIN r.disk_order = DOMAIN c.disk_order \ {c.kept[n].seq}
    <2>1. k \in Payloads /\ k.len \in Nat /\ k.tier = "memory"
      BY <1>4, SoundType DEF Payloads, Tiers
    <2>2. c.in_memory - k.len \in Nat /\ c.mem_overhead - Overhead \in Nat
      <3>1. n \in Held(c, "memory") /\ Lengths(c)[n] = k.len
        BY <1>4, <2>1 DEF Held, Lengths
      <3>2. /\ Total(Held(c, "memory") \ {n}, Lengths(c)) \in Nat
            /\ Total(Held(c, "memory"), Lengths(c))
                 = Total(Held(c, "memory") \ {n}, Lengths(c)) + Lengths(c)[n]
        BY <3>1, HeldFinite, TotalWithout
      <3>3. Cardinality(Held(c, "memory")) \in Nat \ {0}
        BY <3>1, HeldFinite, FS_EmptySet
      <3>. QED BY <1>t, <2>1, <3>1, <3>2, <3>3, OneFewer DEF Counted
    <2>3. /\ r \in Caches
          /\ r.limits = c.limits /\ r.next_seq = c.next_seq /\ r.empties = c.empties
          /\ r.kept = Less(c.kept, n)
          /\ r.order = Less(c.order, k.seq) /\ r.disk_order = c.disk_order
          /\ r.on_disk = c.on_disk /\ r.disk_overhead = c.disk_overhead
          /\ r.in_memory = c.in_memory - k.len /\ r.mem_overhead = c.mem_overhead - Overhead
      BY <1>4, <2>2, RemoveMemory
    <2>. HIDE DEF r
    <2>4. /\ Held(r, "file") = Held(c, "file") /\ n \notin Held(c, "file")
          /\ \A m \in Held(c, "file") : r.kept[m] = c.kept[m]
      BY <1>4, <2>3 DEF Held, Less
    <2>6. Lists(r, r.disk_order, Held(r, "file"))
      BY <2>3, <2>4, StillListed DEF Listed
    <2>7. DOMAIN r.disk_order = DOMAIN c.disk_order \ {k.seq}
      <3>1. \A m \in Held(c, "file") : m \in DOMAIN c.kept /\ m # n
        BY <2>4 DEF Held
      <3>2. \A m \in Held(c, "file") : c.kept[m].seq # k.seq
        BY <1>4, <3>1 DEF Listed, Lists
      <3>. QED BY <2>3, <3>2 DEF Listed, Lists
    <2>8. Counted(r)
      <3>1. /\ Total(Held(r, "memory"), Lengths(r)) + k.len = Total(Held(c, "memory"), Lengths(c))
            /\ Cardinality(Held(r, "memory")) * Overhead + Overhead
                 = Cardinality(Held(c, "memory")) * Overhead
            /\ Total(Held(r, "memory"), Lengths(r)) \in Nat
            /\ Cardinality(Held(r, "memory")) * Overhead \in Nat
        BY <1>4, <2>1, <2>3, TierLess
      <3>3. Total(Held(r, "file"), Lengths(r)) = Total(Held(c, "file"), Lengths(c))
        BY <2>3, <2>4, TierSame
      <3>. QED BY <1>t, <2>1, <2>3, <2>4, <3>1, <3>3 DEF Counted
    <2>9. /\ r.in_memory <= c.in_memory /\ r.on_disk <= c.on_disk
          /\ r.mem_overhead <= c.mem_overhead /\ r.disk_overhead <= c.disk_overhead
      BY <1>t, <2>1, <2>3
    <2>. QED BY <1>2, <1>4, <2>3, <2>6, <2>7, <2>8, <2>9
  <1>. QED BY <1>1, <1>3, <1>4

(* Less is left of less.                                                    *)
LEMMA ReducedTwice ==
  ASSUME NEW c, Sound(c), NEW d, Sound(d), NEW e, Sound(e), Reduced(e, d), Reduced(d, c)
  PROVE  Reduced(e, c)
  <1>1. \A x : Sound(x) => {held(x), held_in_memory(x), files(x)} \subseteq Nat
    <2>1. ASSUME NEW x, Sound(x) PROVE {held(x), held_in_memory(x), files(x)} \subseteq Nat
      <3>1. x \in Caches /\ Listed(x)
        BY <2>1 DEF Sound
      <3>2. {x.in_memory, x.on_disk, x.mem_overhead, x.disk_overhead} \subseteq Nat /\ files(x) \in Nat
        BY <3>1, SoundType, QueuesFinite
      <3>. QED BY <3>2 DEF held, held_in_memory
    <2>. QED BY <2>1
  <1>2. {held(c), held_in_memory(c), files(c), held(d), held_in_memory(d), files(d),
         held(e), held_in_memory(e), files(e)} \subseteq Nat
    BY <1>1
  <1>. QED BY <1>2 DEF Reduced

LEMMA ReducedNot == ASSUME NEW c, Sound(c) PROVE Reduced(c, c)
  <1>1. c \in Caches /\ Listed(c)
    BY DEF Sound
  <1>2. {c.in_memory, c.on_disk, c.mem_overhead, c.disk_overhead} \subseteq Nat /\ files(c) \in Nat
    BY <1>1, SoundType, QueuesFinite
  <1>. QED BY <1>2 DEF Reduced, held, held_in_memory

(* What is not counted may change.                                          *)
LEMMA EmptiesSound ==
  ASSUME NEW c, Sound(c), NEW names \in SUBSET Names, names \cap DOMAIN c.kept = {}
  PROVE  LET d == [c EXCEPT !.empties = names]
         IN  /\ Sound(d) /\ d.empties = names /\ d.kept = c.kept /\ d.limits = c.limits
             /\ d.next_seq = c.next_seq
             /\ held(d) = held(c) /\ held_in_memory(d) = held_in_memory(c) /\ files(d) = files(c)
  <1>. DEFINE d == [c EXCEPT !.empties = names]
  <1>1. /\ d \in Caches /\ d.empties = names /\ d.kept = c.kept /\ d.limits = c.limits
        /\ d.order = c.order /\ d.disk_order = c.disk_order /\ d.next_seq = c.next_seq
        /\ d.in_memory = c.in_memory /\ d.on_disk = c.on_disk
        /\ d.mem_overhead = c.mem_overhead /\ d.disk_overhead = c.disk_overhead
    BY DEF Sound, Caches
  <1>. HIDE DEF d
  <1>2. held(d) = held(c) /\ held_in_memory(d) = held_in_memory(c) /\ files(d) = files(c)
    BY <1>1 DEF held, held_in_memory, files
  <1>3. \A tier : Held(d, tier) = Held(c, tier)
    BY <1>1 DEF Held
  <1>4. Lengths(d) = Lengths(c)
    BY <1>1 DEF Lengths
  <1>5. \A queue, S : Lists(c, queue, S) => Lists(d, queue, S)
    BY <1>1 DEF Lists
  <1>6. Listed(d)
    BY <1>1, <1>3, <1>5 DEF Sound, Listed
  <1>7. Counted(d)
    BY <1>1, <1>3, <1>4 DEF Sound, Counted
  <1>8. Bounded(d) /\ Proper(d)
    BY <1>1, <1>2 DEF Sound, Bounded, Proper
  <1>9. Sound(d)
    BY <1>1, <1>6, <1>7, <1>8 DEF Sound
  <1>. QED BY <1>1, <1>2, <1>9 DEF d

(* forget: nothing under the name, the rest as it was.                      *)
LEMMA ForgetSound ==
  ASSUME NEW c, Sound(c), NEW n
  PROVE  LET f == forget(c, n)
         IN  /\ Sound(f) /\ f.limits = c.limits /\ f.empties = c.empties \ {n}
             /\ DOMAIN f.kept = DOMAIN c.kept \ {n}
             /\ \A m \in DOMAIN f.kept : f.kept[m] = c.kept[m]
  <1>. DEFINE d == [c EXCEPT !.empties = c.empties \ {n}]
  <1>1. c \in Caches /\ Proper(c)
    BY DEF Sound
  <1>2. c.empties \subseteq Names /\ c.empties \cap DOMAIN c.kept = {}
    BY <1>1, SoundType DEF Proper
  <1>3. forget(c, n) = remove(d, n)
    BY DEF forget
  <1>4. Sound(d) /\ d.empties = c.empties \ {n} /\ d.kept = c.kept /\ d.limits = c.limits
    <2>. DEFINE names == c.empties \ {n}
    <2>1. names \in SUBSET Names /\ names \cap DOMAIN c.kept = {}
      BY <1>2
    <2>. HIDE DEF names
    <2>2. Sound([c EXCEPT !.empties = names])
      BY <2>1, EmptiesSound
    <2>3. LET e == [c EXCEPT !.empties = names]
          IN  e.empties = names /\ e.kept = c.kept /\ e.limits = c.limits
      BY <2>1, EmptiesSound
    <2>. QED BY <2>2, <2>3 DEF names
  <1>. HIDE DEF d
  <1>5. /\ Sound(remove(d, n)) /\ Reduced(remove(d, n), d)
        /\ DOMAIN remove(d, n).kept = DOMAIN d.kept \ {n}
    BY <1>4, RemoveSound
  <1>. QED BY <1>3, <1>4, <1>5 DEF Reduced

(* A queue of what can be evicted.                                          *)
LEMMA QueueType ==
  ASSUME NEW c, Sound(c), NEW tier
  PROVE  /\ DOMAIN Queue(c, tier) \subseteq Nat /\ IsFiniteSet(DOMAIN Queue(c, tier))
         /\ Evictable(c, tier) \in Nat
         /\ \A q \in DOMAIN Queue(c, tier) :
              Queue(c, tier)[q] \in DOMAIN c.kept /\ c.kept[Queue(c, tier)[q]].seq = q
  <1>1. c \in Caches /\ Listed(c)
    BY DEF Sound
  <1>2. /\ DOMAIN Queue(c, tier) \subseteq Nat /\ IsFiniteSet(DOMAIN Queue(c, tier))
    BY <1>1, SoundType, QueuesFinite DEF Queue
  <1>3. Evictable(c, tier) \in Nat
    BY <1>2, FS_CardinalityType DEF Evictable
  <1>4. \A q \in DOMAIN Queue(c, tier) :
          Queue(c, tier)[q] \in DOMAIN c.kept /\ c.kept[Queue(c, tier)[q]].seq = q
    BY <1>1 DEF Listed, Lists, Held, Queue
  <1>. QED BY <1>2, <1>3, <1>4

(* An eviction takes one out, until there is none.                          *)
LEMMA EvictSound ==
  ASSUME NEW c, Sound(c), NEW tier
  PROVE  /\ Sound(evict(c, tier)) /\ Reduced(evict(c, tier), c)
         /\ Evictable(c, tier) # 0 => Evictable(evict(c, tier), tier) = Evictable(c, tier) - 1
  <1>. DEFINE q == Queue(c, tier)
              d == evict(c, tier)
  <1>1. CASE DOMAIN q = {}
    <2>1. d = c
      BY <1>1 DEF evict
    <2>2. Evictable(c, tier) = 0
      BY <1>1, FS_EmptySet DEF Evictable
    <2>. QED BY <2>1, <2>2, ReducedNot
  <1>2. CASE DOMAIN q # {}
    <2>. DEFINE least == Min(DOMAIN q)
                n == q[least]
    <2>1. least \in DOMAIN q
      BY <1>2, QueueType, LeastOf
    <2>2. d = remove(c, n)
      BY <1>2 DEF evict
    <2>. HIDE DEF least
    <2>3. n \in DOMAIN c.kept /\ c.kept[n].seq = least
      BY <2>1, QueueType
    <2>. HIDE DEF n, d
    <2>4. /\ Sound(d) /\ Reduced(d, c)
          /\ DOMAIN d.order = DOMAIN c.order \ {least}
          /\ DOMAIN d.disk_order = DOMAIN c.disk_order \ {least}
      BY <2>2, <2>3, RemoveSound
    <2>5. DOMAIN Queue(d, tier) = DOMAIN q \ {least}
      BY <2>4 DEF Queue
    <2>6. Cardinality(DOMAIN q \ {least}) = Cardinality(DOMAIN q) - 1
      <3>. IsFiniteSet(DOMAIN q)
        BY QueueType
      <3>. QED BY <2>1, FS_RemoveElement
    <2>7. Evictable(d, tier) = Evictable(c, tier) - 1
      BY <2>5, <2>6 DEF Evictable
    <2>. QED BY <2>4, <2>7 DEF d
  <1>. QED BY <1>1, <1>2

(* The evictions are defined at each number of them: the recursion unfolds  *)
(* as written.                                                              *)
LEMMA EvictionsUnfold ==
  ASSUME NEW c, Sound(c), NEW tier
  PROVE  LET e == Evictions(c, tier)
         IN  /\ DOMAIN e = 0 .. Evictable(c, tier)
             /\ e[0] = c
             /\ \A k \in 1 .. Evictable(c, tier) : e[k] = evict(e[k - 1], tier)
  <1>. DEFINE N == Evictable(c, tier)
              Unfolds(f, m) == f = [k \in 0 .. m |-> IF k = 0 THEN c ELSE evict(f[k - 1], tier)]
              S == {m \in 0 .. N : ~ \E f : Unfolds(f, m)}
  <1>1. N \in Nat
    BY QueueType
  <1>. HIDE DEF N
  <1>2. S = {}
    <2>. SUFFICES ASSUME S # {} PROVE FALSE
      OBVIOUS
    <2>1. PICK m \in S : \A k \in S : m <= k
      <3>1. S \subseteq Nat /\ S # {}
        BY <1>1
      <3>. HIDE DEF S
      <3>. QED BY <3>1, LeastOf
    <2>2. m \in 0 .. N /\ ~ \E f : Unfolds(f, m)
      BY <2>1
    <2>3. CASE m = 0
      <3>1. Unfolds([k \in 0 .. 0 |-> c], 0)
        OBVIOUS
      <3>. QED BY <2>2, <2>3, <3>1
    <2>4. CASE m # 0
      <3>1. m - 1 \in 0 .. N /\ ~ (m <= m - 1)
        BY <1>1, <2>2, <2>4
      <3>2. m - 1 \notin S
        BY <2>1, <3>1
      <3>3. PICK f : Unfolds(f, m - 1)
        BY <3>1, <3>2
      <3>. DEFINE g == [k \in 0 .. m |-> IF k = 0 THEN c ELSE evict(f[k - 1], tier)]
      <3>4. \A k \in 0 .. m - 1 : g[k] = f[k]
        BY <2>2, <3>3
      <3>5. \A k \in 0 .. m : k # 0 => g[k - 1] = f[k - 1]
        <4>1. \A k \in 0 .. m : k # 0 => k - 1 \in 0 .. m - 1
          BY <2>2
        <4>. HIDE DEF g
        <4>. QED BY <3>4, <4>1
      <3>6. Unfolds(g, m)
        <4>1. \A k \in 0 .. m : (IF k = 0 THEN c ELSE evict(f[k - 1], tier))
                                  = (IF k = 0 THEN c ELSE evict(g[k - 1], tier))
          <5>. HIDE DEF g
          <5>. QED BY <3>5
        <4>. DEFINE h(k) == IF k = 0 THEN c ELSE evict(g[k - 1], tier)
        <4>2. g = [k \in 0 .. m |-> h(k)]
          <5>1. \A k \in 0 .. m : (IF k = 0 THEN c ELSE evict(f[k - 1], tier)) = h(k)
            BY <4>1
          <5>. HIDE DEF h
          <5>. QED BY <5>1
        <4>. QED BY <4>2
      <3>. HIDE DEF g
      <3>. QED BY <2>2, <3>6
    <2>. QED BY <2>3, <2>4
  <1>3. \E f : Unfolds(f, N)
    <2>1. N \in 0 .. N
      BY <1>1
    <2>. HIDE DEF Unfolds
    <2>. QED BY <1>2, <2>1
  <1>4. Evictions(c, tier) = CHOOSE f : Unfolds(f, N)
    BY DEF Evictions, N
  <1>5. Unfolds(Evictions(c, tier), N)
    <2>. HIDE DEF Unfolds
    <2>. QED BY <1>3, <1>4
  <1>. DEFINE e == Evictions(c, tier)
  <1>6. e = [k \in 0 .. N |-> IF k = 0 THEN c ELSE evict(e[k - 1], tier)]
    BY <1>5
  <1>. HIDE DEF e
  <1>7. DOMAIN e = 0 .. N /\ e[0] = c /\ \A k \in 1 .. N : e[k] = evict(e[k - 1], tier)
    <2>1. DOMAIN e = 0 .. N
      BY <1>6
    <2>2. e[0] = c
      BY <1>1, <1>6
    <2>3. ASSUME NEW k \in 1 .. N PROVE e[k] = evict(e[k - 1], tier)
      <3>1. k \in 0 .. N /\ k # 0
        BY <1>1
      <3>. QED BY <1>6, <3>1
    <2>. QED BY <2>1, <2>2, <2>3
  <1>. QED BY <1>7 DEF e, N

(* Each leaves a sound cache with one less to evict, and the last none.     *)
LEMMA EvictionsSound ==
  ASSUME NEW c, Sound(c), NEW tier
  PROVE  LET e == Evictions(c, tier)
         IN  /\ DOMAIN e = 0 .. Evictable(c, tier)
             /\ \A k \in 0 .. Evictable(c, tier) : Sound(e[k]) /\ Reduced(e[k], c)
             /\ Evictable(e[Evictable(c, tier)], tier) = 0
  <1>. DEFINE N == Evictable(c, tier)
              e == Evictions(c, tier)
              Good(k) == Sound(e[k]) /\ Reduced(e[k], c) /\ Evictable(e[k], tier) = N - k
              S == {k \in 0 .. N : ~ Good(k)}
  <1>1. N \in Nat
    BY QueueType
  <1>2. DOMAIN e = 0 .. N /\ e[0] = c /\ \A k \in 1 .. N : e[k] = evict(e[k - 1], tier)
    BY EvictionsUnfold
  <1>3. Good(0)
    <2>1. N = N - 0
      BY <1>1
    <2>. HIDE DEF e
    <2>. QED BY <1>2, <2>1, ReducedNot
  <1>. HIDE DEF e
  <1>4. S = {}
    <2>. SUFFICES ASSUME S # {} PROVE FALSE
      OBVIOUS
    <2>1. PICK m \in S : \A k \in S : m <= k
      <3>1. S \subseteq Nat /\ S # {}
        BY <1>1
      <3>. HIDE DEF S
      <3>. QED BY <3>1, LeastOf
    <2>2. m \in 0 .. N /\ ~ Good(m)
      BY <2>1
    <2>. HIDE DEF N, Good
    <2>3. m # 0
      BY <1>3, <2>2
    <2>4. m - 1 \in 0 .. N /\ m \in 1 .. N /\ ~ (m <= m - 1)
      BY <1>1, <2>2, <2>3
    <2>5. Good(m - 1)
      BY <2>1, <2>4
    <2>. DEFINE d == e[m - 1]
    <2>6. e[m] = evict(d, tier)
      BY <1>2, <2>4
    <2>7. Sound(d) /\ Reduced(d, c) /\ Evictable(d, tier) = N - (m - 1)
      BY <2>5 DEF Good
    <2>8. N - (m - 1) # 0 /\ N - (m - 1) - 1 = N - m
      BY <1>1, <2>4
    <2>. HIDE DEF d
    <2>9. Sound(e[m]) /\ Reduced(e[m], d) /\ Evictable(e[m], tier) = N - m
      BY <2>6, <2>7, <2>8, EvictSound
    <2>10. Reduced(e[m], c)
      BY <2>7, <2>9, ReducedTwice
    <2>. QED BY <2>2, <2>9, <2>10 DEF Good
  <1>5. \A k \in 0 .. N : Good(k)
    BY <1>4
  <1>6. Evictable(e[N], tier) = 0
    <2>1. N \in 0 .. N /\ N - N = 0
      BY <1>1
    <2>. HIDE DEF N
    <2>2. Good(N)
      BY <1>5, <2>1
    <2>. QED BY <2>1, <2>2
  <1>. QED BY <1>2, <1>5, <1>6 DEF e

(* A cache with nothing to evict holds nothing.                             *)
LEMMA NothingHeld ==
  ASSUME NEW c, Sound(c), Evictable(c, "any") = 0
  PROVE  held(c) = 0 /\ held_in_memory(c) = 0
  <1>1. c \in Caches /\ Listed(c) /\ Counted(c)
    BY DEF Sound
  <1>2. DOMAIN c.order = {}
    <2>1. IsFiniteSet(DOMAIN c.order) /\ Cardinality(DOMAIN c.order) = 0
      BY <1>1, QueuesFinite DEF Evictable, Queue
    <2>. QED BY <2>1, FS_EmptySet
  <1>3. DOMAIN c.kept = {}
    BY <1>1, <1>2 DEF Listed, Lists
  <1>4. Held(c, "memory") = {} /\ Held(c, "file") = {}
    BY <1>3 DEF Held
  <1>5. c.in_memory = 0 /\ c.on_disk = 0
    BY <1>1, <1>4, TotalOfNone DEF Counted
  <1>6. c.mem_overhead = 0 /\ c.disk_overhead = 0
    <2>1. 0 * Overhead = 0
      BY CacheAssumption
    <2>. QED BY <1>1, <1>4, <2>1, FS_EmptySet DEF Counted
  <1>. QED BY <1>5, <1>6 DEF held, held_in_memory

-------------------------------------------------------------------------------
(* Room is made by evicting: for what fits at all, there is some.           *)
LEMMA RoomySound ==
  ASSUME NEW c, Sound(c), NEW cost \in Nat, cost <= c.limits.total
  PROVE  LET r == Roomy(c, cost)
         IN  Sound(r) /\ Reduced(r, c) /\ held(r) + cost <= c.limits.total
  <1>. DEFINE N == Evictable(c, "any")
              e == Evictions(c, "any")
              T == {k \in DOMAIN e : held(e[k]) + cost <= c.limits.total} \cup {N}
              m == Min(T)
  <1>1. N \in Nat
    BY QueueType
  <1>2. /\ DOMAIN e = 0 .. N
        /\ \A k \in 0 .. N : Sound(e[k]) /\ Reduced(e[k], c)
        /\ Evictable(e[N], "any") = 0
    BY EvictionsSound
  <1>3. Roomy(c, cost) = e[m]
    BY DEF Roomy
  <1>. HIDE DEF e, N
  <1>4. m \in T
    <2>1. T \subseteq Nat /\ T # {}
      BY <1>1, <1>2
    <2>. HIDE DEF T
    <2>. QED BY <2>1, LeastOf
  <1>5. N \in 0 .. N /\ m \in 0 .. N
    BY <1>1, <1>2, <1>4
  <1>6. held(e[N]) = 0
    BY <1>2, <1>5, NothingHeld
  <1>7. held(e[m]) + cost <= c.limits.total
    <2>. HIDE DEF m
    <2>1. CASE m = N
      BY <1>6, <2>1
    <2>2. CASE m # N
      BY <1>4, <2>2
    <2>. QED BY <2>1, <2>2
  <1>. HIDE DEF m
  <1>. QED BY <1>2, <1>3, <1>5, <1>7

LEMMA RoomyInMemorySound ==
  ASSUME NEW c, Sound(c), NEW cost \in Nat, cost <= c.limits.mem
  PROVE  LET r == RoomyInMemory(c, cost)
         IN  Sound(r) /\ Reduced(r, c) /\ held_in_memory(r) + cost <= c.limits.mem
  <1>. DEFINE N == Evictable(c, "any")
              e == Evictions(c, "any")
              T == {k \in DOMAIN e : held_in_memory(e[k]) + cost <= c.limits.mem} \cup {N}
              m == Min(T)
  <1>1. N \in Nat
    BY QueueType
  <1>2. /\ DOMAIN e = 0 .. N
        /\ \A k \in 0 .. N : Sound(e[k]) /\ Reduced(e[k], c)
        /\ Evictable(e[N], "any") = 0
    BY EvictionsSound
  <1>3. RoomyInMemory(c, cost) = e[m]
    BY DEF RoomyInMemory
  <1>. HIDE DEF e, N
  <1>4. m \in T
    <2>1. T \subseteq Nat /\ T # {}
      BY <1>1, <1>2
    <2>. HIDE DEF T
    <2>. QED BY <2>1, LeastOf
  <1>5. N \in 0 .. N /\ m \in 0 .. N
    BY <1>1, <1>2, <1>4
  <1>6. held_in_memory(e[N]) = 0
    BY <1>2, <1>5, NothingHeld
  <1>7. held_in_memory(e[m]) + cost <= c.limits.mem
    <2>. HIDE DEF m
    <2>1. CASE m = N
      BY <1>6, <2>1
    <2>2. CASE m # N
      BY <1>4, <2>2
    <2>. QED BY <2>1, <2>2
  <1>. HIDE DEF m
  <1>. QED BY <1>2, <1>3, <1>5, <1>7

LEMMA WithFileFreeSound ==
  ASSUME NEW c, Sound(c)
  PROVE  LET r == WithFileFree(c) IN Sound(r) /\ Reduced(r, c) /\ files(r) < MaxFiles
  <1>. DEFINE N == Evictable(c, "file")
              e == Evictions(c, "file")
              T == {k \in DOMAIN e : files(e[k]) < MaxFiles} \cup {N}
              m == Min(T)
  <1>1. N \in Nat
    BY QueueType
  <1>2. /\ DOMAIN e = 0 .. N
        /\ \A k \in 0 .. N : Sound(e[k]) /\ Reduced(e[k], c)
        /\ Evictable(e[N], "file") = 0
    BY EvictionsSound
  <1>3. WithFileFree(c) = e[m]
    BY DEF WithFileFree
  <1>. HIDE DEF e, N
  <1>4. m \in T
    <2>1. T \subseteq Nat /\ T # {}
      BY <1>1, <1>2
    <2>. HIDE DEF T
    <2>. QED BY <2>1, LeastOf
  <1>5. N \in 0 .. N /\ m \in 0 .. N
    BY <1>1, <1>2, <1>4
  <1>6. files(e[N]) = 0 /\ 0 < MaxFiles
    BY <1>2, CacheAssumption DEF Evictable, Queue, files
  <1>7. files(e[m]) < MaxFiles
    <2>. HIDE DEF m
    <2>1. CASE m = N
      BY <1>6, <2>1
    <2>2. CASE m # N
      BY <1>4, <2>2
    <2>. QED BY <2>1, <2>2
  <1>. HIDE DEF m
  <1>. QED BY <1>2, <1>3, <1>5, <1>7

(* spool: the room promised is what the policy has left.                    *)
Promised(c, s) ==
  /\ s \in [tier : {"none", "memory", "file"}, room : Nat, mem : Nat]
  /\ s.tier # "none" =>
       /\ s.room > 0 => held(c) + Overhead + s.room <= c.limits.total
       /\ s.mem > 0 => held_in_memory(c) + Overhead + s.mem <= c.limits.mem
       /\ s.mem <= s.room

LEMMA NoSpoolPromises == ASSUME NEW c PROVE Promised(c, NoSpool)
  BY DEF Promised, NoSpool

LEMMA SpoolPromised ==
  ASSUME NEW c, Sound(c)
  PROVE  Promised(c, Spool(c)) /\ Spool(c).tier = "memory"
  <1>1. c \in Caches /\ Listed(c)
    BY DEF Sound
  <1>2. /\ {c.in_memory, c.on_disk, c.mem_overhead, c.disk_overhead} \subseteq Nat
        /\ c.limits.mem \in Nat /\ c.limits.total \in Nat /\ Overhead \in Nat
    BY <1>1, SoundType, CacheAssumption
  <1>3. held(c) \in Nat /\ held_in_memory(c) \in Nat
    BY <1>2 DEF held, held_in_memory
  <1>. DEFINE room == SatSub(SatSub(c.limits.total, held(c)), Overhead)
              left == SatSub(SatSub(c.limits.mem, held_in_memory(c)), Overhead)
  <1>4. room \in Nat /\ (room > 0 => held(c) + Overhead + room <= c.limits.total)
    BY <1>2, <1>3 DEF SatSub
  <1>5. left \in Nat /\ (left > 0 => held_in_memory(c) + Overhead + left <= c.limits.mem)
    BY <1>2, <1>3 DEF SatSub
  <1>. HIDE DEF room, left
  <1>6. Spool(c) = [tier |-> "memory", room |-> room, mem |-> Least(left, room)]
    BY DEF Spool, room, left
  <1>7. Least(left, room) \in Nat /\ Least(left, room) <= room /\ Least(left, room) <= left
    BY <1>4, <1>5 DEF Least
  <1>8. Least(left, room) > 0 => held_in_memory(c) + Overhead + Least(left, room) <= c.limits.mem
    BY <1>2, <1>3, <1>5, <1>7
  <1>. HIDE DEF Least
  <1>. QED BY <1>4, <1>6, <1>7, <1>8 DEF Promised

LEMMA SpoolSound ==
  ASSUME NEW c, Sound(c), NEW n, NEW size \in Nat \cup {Unknown}
  PROVE  LET s == spool(c, n, size)
         IN  /\ Sound(s[1]) /\ Promised(s[1], s[2]) /\ s[2].tier \in {"none", "memory"}
             /\ s[1].limits = c.limits /\ s[1].empties = c.empties \ {n}
             /\ DOMAIN s[1].kept \subseteq DOMAIN c.kept \ {n}
             /\ \A m \in DOMAIN s[1].kept : s[1].kept[m] = c.kept[m]
  <1>. DEFINE f == forget(c, n)
              e == IF size = Unknown THEN f ELSE Roomy(f, size + Overhead)
  <1>1. /\ Sound(f) /\ f.limits = c.limits /\ f.empties = c.empties \ {n}
        /\ DOMAIN f.kept = DOMAIN c.kept \ {n}
        /\ \A m \in DOMAIN f.kept : f.kept[m] = c.kept[m]
    BY ForgetSound
  <1>2. CASE size # Unknown /\ size + Overhead > c.limits.total
    <2>1. spool(c, n, size) = <<f, NoSpool>>
      BY <1>2 DEF spool
    <2>2. NoSpool.tier = "none"
      BY DEF NoSpool
    <2>. HIDE DEF f
    <2>. QED BY <1>1, <2>1, <2>2, NoSpoolPromises
  <1>3. CASE ~ (size # Unknown /\ size + Overhead > c.limits.total)
    <2>1. spool(c, n, size) = <<e, Spool(e)>>
      BY <1>3 DEF spool
    <2>2. Sound(e) /\ Reduced(e, f)
      <3>1. CASE size = Unknown
        <4>1. e = f
          BY <3>1
        <4>. QED BY <1>1, <4>1, ReducedNot
      <3>2. CASE size # Unknown
        <4>1. size + Overhead \in Nat /\ size + Overhead <= f.limits.total
          <5>1. size \in Nat /\ Overhead \in Nat
            BY <3>2, CacheAssumption
          <5>2. c.limits.total \in Nat
            BY SoundType DEF Sound
          <5>. QED BY <1>1, <1>3, <3>2, <5>1, <5>2
        <4>. HIDE DEF f
        <4>2. e = Roomy(f, size + Overhead)
          BY <3>2
        <4>3. Sound(Roomy(f, size + Overhead)) /\ Reduced(Roomy(f, size + Overhead), f)
          BY <1>1, <4>1, RoomySound
        <4>. QED BY <4>2, <4>3
      <3>. QED BY <3>1, <3>2
    <2>. HIDE DEF e, f
    <2>3. Promised(e, Spool(e)) /\ Spool(e).tier = "memory"
      BY <2>2, SpoolPromised
    <2>4. /\ e.limits = c.limits /\ e.empties = c.empties \ {n}
          /\ DOMAIN e.kept \subseteq DOMAIN c.kept \ {n}
          /\ \A m \in DOMAIN e.kept : e.kept[m] = c.kept[m]
      BY <1>1, <2>2 DEF Reduced
    <2>. QED BY <2>1, <2>2, <2>3, <2>4
  <1>. QED BY <1>2, <1>3

-------------------------------------------------------------------------------
(* keep: what adding a payload changes, field by field.                     *)
NewPayload(c, p, links_to_come) ==
  [seq |-> c.next_seq, id |-> p.id, len |-> p.len, tier |-> p.tier, left |-> links_to_come]

Offered == [id : 1 .. MaxEntries, len : Nat \ {0}, tier : Tiers]
ToCome == (Nat \ {0}) \cup {Unknown}

LEMMA NewPayloadType ==
  ASSUME NEW c, c \in Caches, NEW p \in Offered, NEW l \in ToCome
  PROVE  NewPayload(c, p, l) \in Payloads
  <1>1. p.id \in 1 .. MaxEntries /\ p.len \in Nat /\ p.tier \in Tiers /\ c.next_seq \in Nat
    BY SoundType DEF Offered
  <1>2. p.id \in Nat
    BY <1>1, ConvertAssumption
  <1>. QED BY <1>1, <1>2 DEF NewPayload, Payloads, ToCome

LEMMA AddedFile ==
  ASSUME NEW c, c \in Caches, NEW n \in Names, NEW p \in Offered, p.tier = "file", NEW l \in ToCome
  PROVE  LET d == Added(c, n, p, l)
         IN  /\ d \in Caches
             /\ d.limits = c.limits /\ d.empties = c.empties /\ d.next_seq = c.next_seq + 1
             /\ d.kept = Bound(c.kept, n, NewPayload(c, p, l))
             /\ d.order = Bound(c.order, c.next_seq, n)
             /\ d.disk_order = Bound(c.disk_order, c.next_seq, n)
             /\ d.in_memory = c.in_memory /\ d.mem_overhead = c.mem_overhead
             /\ d.on_disk = c.on_disk + p.len /\ d.disk_overhead = c.disk_overhead + Overhead
  <1>. DEFINE kept == Bound(c.kept, n, NewPayload(c, p, l))
              order == Bound(c.order, c.next_seq, n)
              disk_order == Bound(c.disk_order, c.next_seq, n)
              next == c.next_seq + 1
              on_disk == c.on_disk + p.len
              disk_overhead == c.disk_overhead + Overhead
  <1>1. /\ kept \in Partial(Names, Payloads)
        /\ order \in Partial(Nat, Names) /\ disk_order \in Partial(Nat, Names)
        /\ next \in Nat /\ on_disk \in Nat /\ disk_overhead \in Nat
    <2>1. p.len \in Nat /\ Overhead \in Nat
      BY CacheAssumption DEF Offered
    <2>2. {c.next_seq, c.on_disk, c.disk_overhead} \subseteq Nat
      BY SoundType
    <2>3. kept \in Partial(Names, Payloads)
      BY SoundType, NewPayloadType, BoundPartial
    <2>4. order \in Partial(Nat, Names) /\ disk_order \in Partial(Nat, Names)
      BY SoundType, BoundPartial
    <2>. QED BY <2>1, <2>2, <2>3, <2>4
  <1>2. Added(c, n, p, l) =
          [[c EXCEPT !.kept = kept, !.order = order, !.next_seq = next] EXCEPT
             !.disk_order = disk_order, !.on_disk = on_disk, !.disk_overhead = disk_overhead]
    <2>1. Added(c, n, p, l) =
            LET there == [c EXCEPT !.kept = kept, !.order = order, !.next_seq = next]
            IN  [there EXCEPT !.disk_order = Bound(@, c.next_seq, n), !.on_disk = @ + p.len,
                              !.disk_overhead = @ + Overhead]
      BY DEF Added, NewPayload
    <2>2. LET there == [c EXCEPT !.kept = kept, !.order = order, !.next_seq = next]
          IN  /\ there.disk_order = c.disk_order /\ there.on_disk = c.on_disk
              /\ there.disk_overhead = c.disk_overhead
      <3>. HIDE DEF kept, order, next
      <3>. QED BY DEF Caches
    <2>. HIDE DEF kept, order, next
    <2>. QED BY <2>1, <2>2
  <1>. HIDE DEF kept, order, disk_order, next, on_disk, disk_overhead
  <1>3. LET d == Added(c, n, p, l)
         IN  /\ d \in Caches
             /\ d.limits = c.limits /\ d.empties = c.empties /\ d.next_seq = next
             /\ d.kept = kept /\ d.order = order /\ d.disk_order = disk_order
             /\ d.in_memory = c.in_memory /\ d.mem_overhead = c.mem_overhead
             /\ d.on_disk = on_disk /\ d.disk_overhead = disk_overhead
    BY <1>1, <1>2, ZenonT(60) DEF Caches
  <1>. QED BY <1>3 DEF kept, order, disk_order, next, on_disk, disk_overhead

LEMMA AddedMemory ==
  ASSUME NEW c, c \in Caches, NEW n \in Names, NEW p \in Offered, p.tier # "file", NEW l \in ToCome
  PROVE  LET d == Added(c, n, p, l)
         IN  /\ d \in Caches
             /\ d.limits = c.limits /\ d.empties = c.empties /\ d.next_seq = c.next_seq + 1
             /\ d.kept = Bound(c.kept, n, NewPayload(c, p, l))
             /\ d.order = Bound(c.order, c.next_seq, n)
             /\ d.disk_order = c.disk_order
             /\ d.on_disk = c.on_disk /\ d.disk_overhead = c.disk_overhead
             /\ d.in_memory = c.in_memory + p.len /\ d.mem_overhead = c.mem_overhead + Overhead
  <1>. DEFINE kept == Bound(c.kept, n, NewPayload(c, p, l))
              order == Bound(c.order, c.next_seq, n)
              next == c.next_seq + 1
              in_memory == c.in_memory + p.len
              mem_overhead == c.mem_overhead + Overhead
  <1>1. /\ kept \in Partial(Names, Payloads)
        /\ order \in Partial(Nat, Names)
        /\ next \in Nat /\ in_memory \in Nat /\ mem_overhead \in Nat
    <2>1. p.len \in Nat /\ Overhead \in Nat
      BY CacheAssumption DEF Offered
    <2>2. {c.next_seq, c.in_memory, c.mem_overhead} \subseteq Nat
      BY SoundType
    <2>3. kept \in Partial(Names, Payloads)
      BY SoundType, NewPayloadType, BoundPartial
    <2>4. order \in Partial(Nat, Names)
      BY SoundType, BoundPartial
    <2>. QED BY <2>1, <2>2, <2>3, <2>4
  <1>2. Added(c, n, p, l) =
          [[c EXCEPT !.kept = kept, !.order = order, !.next_seq = next] EXCEPT
             !.in_memory = in_memory, !.mem_overhead = mem_overhead]
    <2>1. Added(c, n, p, l) =
            LET there == [c EXCEPT !.kept = kept, !.order = order, !.next_seq = next]
            IN  [there EXCEPT !.in_memory = @ + p.len, !.mem_overhead = @ + Overhead]
      BY DEF Added, NewPayload
    <2>2. LET there == [c EXCEPT !.kept = kept, !.order = order, !.next_seq = next]
          IN  there.in_memory = c.in_memory /\ there.mem_overhead = c.mem_overhead
      <3>. HIDE DEF kept, order, next
      <3>. QED BY DEF Caches
    <2>. HIDE DEF kept, order, next
    <2>. QED BY <2>1, <2>2
  <1>. HIDE DEF kept, order, next, in_memory, mem_overhead
  <1>3. LET d == Added(c, n, p, l)
         IN  /\ d \in Caches
             /\ d.limits = c.limits /\ d.empties = c.empties /\ d.next_seq = next
             /\ d.kept = kept /\ d.order = order /\ d.disk_order = c.disk_order
             /\ d.on_disk = c.on_disk /\ d.disk_overhead = c.disk_overhead
             /\ d.in_memory = in_memory /\ d.mem_overhead = mem_overhead
    BY <1>1, <1>2 DEF Caches
  <1>. QED BY <1>3 DEF kept, order, next, in_memory, mem_overhead

LEMMA TierMore ==
  ASSUME NEW c \in Caches, NEW d \in Caches, NEW n \in DOMAIN d.kept, c.kept = Less(d.kept, n)
  PROVE  LET tier == d.kept[n].tier
         IN  /\ Held(c, tier) = Held(d, tier) \ {n}
             /\ Total(Held(c, tier), Lengths(c)) + d.kept[n].len = Total(Held(d, tier), Lengths(d))
             /\ Cardinality(Held(c, tier)) * Overhead + Overhead
                  = Cardinality(Held(d, tier)) * Overhead
  BY TierLess

(* Where there is room, a payload can be added.                             *)
LEMMA AddedSound ==
  ASSUME NEW c, Sound(c), NEW n \in Names, NEW p \in Offered, NEW l \in ToCome,
         n \notin DOMAIN c.kept, n \notin c.empties, p.len <= c.limits.total,
         held(c) + p.len + Overhead <= c.limits.total,
         p.tier = "memory" => held_in_memory(c) + p.len + Overhead <= c.limits.mem,
         p.tier = "file" => files(c) < MaxFiles
  PROVE  LET d == Added(c, n, p, l)
         IN  /\ Sound(d) /\ d.limits = c.limits /\ d.empties = c.empties
             /\ DOMAIN d.kept = DOMAIN c.kept \cup {n} /\ d.kept[n].id = p.id
             /\ \A m \in DOMAIN c.kept : d.kept[m] = c.kept[m]
  <1>. DEFINE d == Added(c, n, p, l)
              k == NewPayload(c, p, l)
              seq == c.next_seq
  <1>0. c \in Caches /\ Listed(c) /\ Counted(c) /\ Bounded(c) /\ Proper(c)
    BY DEF Sound
  <1>. USE <1>0
  <1>t. /\ {c.in_memory, c.on_disk, c.mem_overhead, c.disk_overhead, c.next_seq} \subseteq Nat
        /\ files(c) \in Nat /\ Overhead \in Nat /\ c.limits.mem \in Nat /\ c.limits.total \in Nat
        /\ MaxFiles \in Nat /\ p.len \in Nat \ {0} /\ p.id \in 1 .. MaxEntries /\ p.tier \in Tiers
    BY SoundType, QueuesFinite, CacheAssumption DEF Offered
  <1>k. k.seq = seq /\ k.id = p.id /\ k.len = p.len /\ k.tier = p.tier /\ k.left # 0
    BY DEF NewPayload, ToCome, Unknown
  <1>1. /\ d \in Caches
        /\ d.limits = c.limits /\ d.empties = c.empties /\ d.next_seq = seq + 1
        /\ d.kept = Bound(c.kept, n, k) /\ d.order = Bound(c.order, seq, n)
    BY AddedFile, AddedMemory
  <1>2. p.tier = "file" =>
          /\ d.disk_order = Bound(c.disk_order, seq, n)
          /\ d.in_memory = c.in_memory /\ d.mem_overhead = c.mem_overhead
          /\ d.on_disk = c.on_disk + p.len /\ d.disk_overhead = c.disk_overhead + Overhead
    BY AddedFile
  <1>3. p.tier # "file" =>
          /\ d.disk_order = c.disk_order
          /\ d.on_disk = c.on_disk /\ d.disk_overhead = c.disk_overhead
          /\ d.in_memory = c.in_memory + p.len /\ d.mem_overhead = c.mem_overhead + Overhead
    BY AddedMemory
  <1>. HIDE DEF d, k
  <1>4. /\ DOMAIN d.kept = DOMAIN c.kept \cup {n} /\ d.kept[n] = k
        /\ \A m \in DOMAIN c.kept : d.kept[m] = c.kept[m]
    BY <1>1 DEF Bound
  <1>5. \A m \in DOMAIN c.kept : c.kept[m].seq < seq /\ c.kept[m].seq \in Nat
    BY SoundType DEF Proper, Payloads
  <1>6. /\ DOMAIN d.order = DOMAIN c.order \cup {seq} /\ d.order[seq] = n
        /\ \A q \in DOMAIN c.order \ {seq} : d.order[q] = c.order[q]
    BY <1>1 DEF Bound
  <1>7. Lists(d, d.order, DOMAIN d.kept)
    <2>1. \A m \in DOMAIN c.kept : c.kept[m].seq # seq
      BY <1>t, <1>5
    <2>2. DOMAIN c.order = {c.kept[m].seq : m \in DOMAIN c.kept}
          /\ \A m \in DOMAIN c.kept : c.order[c.kept[m].seq] = m
      BY DEF Listed, Lists
    <2>. QED BY <1>k, <1>4, <1>6, <2>1, <2>2 DEF Lists
  <1>8. c.kept = Less(d.kept, n)
    <2>1. c.kept = [m \in DOMAIN c.kept |-> c.kept[m]]
      BY SoundType, PartialType
    <2>2. DOMAIN d.kept \ {n} = DOMAIN c.kept
      BY <1>4
    <2>. QED BY <1>4, <2>1, <2>2 DEF Less
  <1>9. \A tier : tier # p.tier =>
          /\ Held(d, tier) = Held(c, tier)
          /\ Total(Held(d, tier), Lengths(d)) = Total(Held(c, tier), Lengths(c))
    <2>1. ASSUME NEW tier, tier # p.tier
          PROVE  /\ Held(d, tier) = Held(c, tier)
                 /\ Total(Held(d, tier), Lengths(d)) = Total(Held(c, tier), Lengths(c))
      <3>1. Held(d, tier) = Held(c, tier)
        BY <1>k, <1>4, <2>1 DEF Held
      <3>2. \A m \in Held(c, tier) : d.kept[m] = c.kept[m]
        BY <1>4 DEF Held
      <3>3. Total(Held(d, tier), Lengths(d)) = Total(Held(c, tier), Lengths(c))
        BY <1>1, <3>1, <3>2, TierSame
      <3>. QED BY <3>1, <3>3
    <2>. QED BY <2>1
  <1>10. /\ Held(c, p.tier) = Held(d, p.tier) \ {n}
         /\ Total(Held(c, p.tier), Lengths(c)) + p.len = Total(Held(d, p.tier), Lengths(d))
         /\ Cardinality(Held(c, p.tier)) * Overhead + Overhead
              = Cardinality(Held(d, p.tier)) * Overhead
    <2>1. n \in DOMAIN d.kept /\ d.kept[n].tier = p.tier /\ d.kept[n].len = p.len
      BY <1>k, <1>4
    <2>2. d \in Caches
      BY <1>1
    <2>. QED BY <1>8, <2>1, <2>2, TierMore
  <1>11. Held(d, p.tier) = Held(c, p.tier) \cup {n} /\ n \notin Held(c, p.tier)
    BY <1>k, <1>4, <1>10 DEF Held
  <1>12. Lists(d, d.disk_order, Held(d, "file"))
    <2>1. \A m \in Held(c, "file") : m \in DOMAIN c.kept /\ d.kept[m] = c.kept[m]
      BY <1>4 DEF Held
    <2>2. CASE p.tier # "file"
      BY <1>3, <1>9, <2>1, <2>2, StillListed DEF Listed
    <2>3. CASE p.tier = "file"
      <3>1. /\ DOMAIN d.disk_order = DOMAIN c.disk_order \cup {seq} /\ d.disk_order[seq] = n
            /\ \A q \in DOMAIN c.disk_order \ {seq} : d.disk_order[q] = c.disk_order[q]
        BY <1>2, <2>3 DEF Bound
      <3>2. \A m \in Held(c, "file") : c.kept[m].seq # seq
        BY <1>t, <1>5, <2>1
      <3>3. DOMAIN c.disk_order = {c.kept[m].seq : m \in Held(c, "file")}
            /\ \A m \in Held(c, "file") : c.disk_order[c.kept[m].seq] = m
        BY DEF Listed, Lists
      <3>4. Held(d, "file") = Held(c, "file") \cup {n}
        BY <1>11, <2>3
      <3>. QED BY <1>k, <1>4, <2>1, <3>1, <3>2, <3>3, <3>4 DEF Lists
    <2>. QED BY <2>2, <2>3
  <1>13. Counted(d)
    <2>1. CASE p.tier = "file"
      BY <1>2, <1>9, <1>10, <2>1 DEF Counted
    <2>2. CASE p.tier = "memory"
      BY <1>3, <1>9, <1>10, <2>2 DEF Counted
    <2>. QED BY <1>t, <2>1, <2>2 DEF Tiers
  <1>14. Bounded(d)
    <2>1. held(d) = held(c) + p.len + Overhead
      BY <1>t, <1>2, <1>3 DEF held
    <2>2. held_in_memory(d) = held_in_memory(c) + (IF p.tier = "file" THEN 0 ELSE p.len + Overhead)
      BY <1>t, <1>2, <1>3 DEF held_in_memory
    <2>3. {held(c), held_in_memory(c)} \subseteq Nat
      BY <1>t DEF held, held_in_memory
    <2>4. files(d) <= MaxFiles
      <3>1. CASE p.tier # "file"
        BY <1>3, <3>1 DEF files, Bounded
      <3>2. CASE p.tier = "file"
        <4>1. DOMAIN d.disk_order = DOMAIN c.disk_order \cup {seq}
          BY <1>2, <3>2 DEF Bound
        <4>2. IsFiniteSet(DOMAIN c.disk_order)
          BY QueuesFinite
        <4>3. Cardinality(DOMAIN c.disk_order \cup {seq}) \in
                {Cardinality(DOMAIN c.disk_order), Cardinality(DOMAIN c.disk_order) + 1}
          BY <4>2, FS_AddElement
        <4>. QED BY <1>t, <3>2, <4>1, <4>3 DEF files
      <3>. QED BY <3>1, <3>2
    <2>5. held_in_memory(d) <= c.limits.mem
      BY <1>t, <2>2, <2>3 DEF Bounded, Tiers
    <2>. QED BY <1>1, <1>t, <2>1, <2>3, <2>4, <2>5 DEF Bounded
  <1>15. Proper(d)
    <2>1. \A m \in DOMAIN c.kept :
            /\ d.kept[m].seq < seq + 1
            /\ d.kept[m].id \in 1 .. MaxEntries
            /\ d.kept[m].len \in 1 .. c.limits.total
            /\ d.kept[m].left # 0
      BY <1>t, <1>4, <1>5 DEF Proper
    <2>2. k.seq < seq + 1 /\ k.id \in 1 .. MaxEntries /\ k.len \in 1 .. c.limits.total /\ k.left # 0
      BY <1>t, <1>k
    <2>. QED BY <1>1, <1>4, <2>1, <2>2 DEF Proper
  <1>16. Sound(d)
    BY <1>1, <1>7, <1>12, <1>13, <1>14, <1>15 DEF Sound, Listed
  <1>. QED BY <1>1, <1>k, <1>4, <1>16 DEF d

(* WithRoom makes it, and makes it by evicting.                             *)
LEMMA WithRoomSound ==
  ASSUME NEW c, Sound(c), NEW p \in Offered, p.len + Overhead <= c.limits.total,
         p.tier = "memory" => p.len + Overhead <= c.limits.mem
  PROVE  LET e == WithRoom(c, p)
         IN  /\ Sound(e) /\ Reduced(e, c)
             /\ held(e) + p.len + Overhead <= c.limits.total
             /\ p.tier = "memory" => held_in_memory(e) + p.len + Overhead <= c.limits.mem
             /\ p.tier = "file" => files(e) < MaxFiles
  <1>. DEFINE cost == p.len + Overhead
              r == Roomy(c, cost)
              e == WithRoom(c, p)
  <1>1. cost \in Nat /\ p.len \in Nat /\ Overhead \in Nat /\ p.tier \in Tiers
    BY CacheAssumption DEF Offered
  <1>2. Sound(r) /\ Reduced(r, c) /\ held(r) + cost <= c.limits.total
    <2>. HIDE DEF cost
    <2>1. cost <= c.limits.total
      BY DEF cost
    <2>. QED BY <1>1, <2>1, RoomySound
  <1>3. e = IF p.tier = "file" THEN WithFileFree(r) ELSE RoomyInMemory(r, cost)
    BY DEF WithRoom
  <1>. HIDE DEF r, e
  <1>4. /\ Sound(e) /\ Reduced(e, r)
        /\ p.tier = "memory" => held_in_memory(e) + cost <= c.limits.mem
        /\ p.tier = "file" => files(e) < MaxFiles
    <2>1. CASE p.tier = "file"
      BY <1>2, <1>3, <2>1, WithFileFreeSound
    <2>2. CASE p.tier = "memory"
      <3>1. cost <= r.limits.mem /\ r.limits = c.limits
        BY <1>2, <2>2 DEF Reduced
      <3>. HIDE DEF cost
      <3>2. /\ Sound(RoomyInMemory(r, cost)) /\ Reduced(RoomyInMemory(r, cost), r)
            /\ held_in_memory(RoomyInMemory(r, cost)) + cost <= r.limits.mem
        BY <1>1, <1>2, <3>1, RoomyInMemorySound
      <3>3. e = RoomyInMemory(r, cost)
        BY <1>3, <2>2
      <3>. QED BY <2>2, <3>1, <3>2, <3>3
    <2>. QED BY <1>1, <2>1, <2>2 DEF Tiers
  <1>5. Reduced(e, c)
    BY <1>2, <1>4, ReducedTwice
  <1>6. held(e) <= held(r)
    BY <1>4 DEF Reduced
  <1>7. {held(e), held(r), held_in_memory(e)} \subseteq Nat /\ c.limits.total \in Nat
    BY <1>2, <1>4, SoundType DEF Sound, held, held_in_memory
  <1>8. held(e) + p.len + Overhead <= c.limits.total
    BY <1>1, <1>2, <1>6, <1>7
  <1>9. p.tier = "memory" => held_in_memory(e) + p.len + Overhead <= c.limits.mem
    BY <1>1, <1>4, <1>7
  <1>. QED BY <1>4, <1>5, <1>8, <1>9 DEF e

(* keep: a sound cache, with the payload under its name or nothing.         *)
LEMMA KeepSound ==
  ASSUME NEW c, Sound(c), NEW n \in Names, NEW p \in Offered, NEW l \in Nat \cup {Unknown}
  PROVE  LET d == keep(c, n, p, l)
         IN  /\ Sound(d) /\ d.limits = c.limits /\ d.empties = c.empties \ {n}
             /\ \A m \in DOMAIN d.kept :
                  \/ m = n /\ d.kept[m].id = p.id
                  \/ m # n /\ m \in DOMAIN c.kept /\ d.kept[m] = c.kept[m]
  <1>. DEFINE f == forget(c, n)
              e == WithRoom(f, p)
              d == keep(c, n, p, l)
  <1>1. /\ Sound(f) /\ f.limits = c.limits /\ f.empties = c.empties \ {n}
        /\ DOMAIN f.kept = DOMAIN c.kept \ {n}
        /\ \A m \in DOMAIN f.kept : f.kept[m] = c.kept[m]
    BY ForgetSound
  <1>2. d = IF Declined(f, p, l) THEN f ELSE Added(e, n, p, l)
    BY DEF keep
  <1>3. CASE Declined(f, p, l)
    <2>1. d = f
      BY <1>2, <1>3
    <2>. HIDE DEF d, f
    <2>2. /\ Sound(d) /\ d.limits = c.limits /\ d.empties = c.empties \ {n}
          /\ \A m \in DOMAIN d.kept : m # n /\ m \in DOMAIN c.kept /\ d.kept[m] = c.kept[m]
      BY <1>1, <2>1
    <2>. QED BY <2>2 DEF d
  <1>4. CASE ~ Declined(f, p, l)
    <2>1. d = Added(e, n, p, l)
      BY <1>2, <1>4
    <2>. HIDE DEF d, f
    <2>2. /\ p.len \in Nat \ {0} /\ Overhead \in Nat /\ p.tier \in Tiers
          /\ f.limits.total \in Nat /\ f.limits.mem \in Nat
      BY <1>1, SoundType, CacheAssumption DEF Offered, Sound
    <2>3. /\ l \in ToCome
          /\ p.len + Overhead <= f.limits.total /\ p.len <= f.limits.total
          /\ p.tier = "memory" => p.len + Overhead <= f.limits.mem
      BY <1>4, <2>2 DEF Declined, ToCome
    <2>4. /\ Sound(e) /\ Reduced(e, f)
          /\ held(e) + p.len + Overhead <= f.limits.total
          /\ p.tier = "memory" => held_in_memory(e) + p.len + Overhead <= f.limits.mem
          /\ p.tier = "file" => files(e) < MaxFiles
      BY <1>1, <2>3, WithRoomSound
    <2>. HIDE DEF e
    <2>5. /\ n \notin DOMAIN e.kept /\ n \notin e.empties /\ e.limits = f.limits
          /\ e.empties = f.empties
          /\ \A m \in DOMAIN e.kept : m # n /\ m \in DOMAIN c.kept /\ e.kept[m] = c.kept[m]
      BY <1>1, <2>4 DEF Reduced
    <2>6. /\ Sound(Added(e, n, p, l)) /\ Added(e, n, p, l).limits = e.limits
          /\ Added(e, n, p, l).empties = e.empties
          /\ DOMAIN Added(e, n, p, l).kept = DOMAIN e.kept \cup {n}
          /\ Added(e, n, p, l).kept[n].id = p.id
          /\ \A m \in DOMAIN e.kept : Added(e, n, p, l).kept[m] = e.kept[m]
      <3>1. /\ p.len <= e.limits.total /\ held(e) + p.len + Overhead <= e.limits.total
            /\ p.tier = "memory" => held_in_memory(e) + p.len + Overhead <= e.limits.mem
        BY <2>3, <2>4, <2>5
      <3>2. p.tier = "file" => files(e) < MaxFiles
        BY <2>4
      <3>3. Sound(e) /\ n \notin DOMAIN e.kept /\ n \notin e.empties
        BY <2>4, <2>5
      <3>. QED BY <2>3, <3>1, <3>2, <3>3, AddedSound
    <2>7. \A m \in DOMAIN d.kept :
            \/ m = n /\ d.kept[m].id = p.id
            \/ m # n /\ m \in DOMAIN c.kept /\ d.kept[m] = c.kept[m]
      BY <2>1, <2>5, <2>6
    <2>8. Sound(d) /\ d.limits = c.limits /\ d.empties = c.empties \ {n}
      BY <1>1, <2>1, <2>5, <2>6
    <2>. QED BY <2>7, <2>8 DEF d
  <1>. QED BY <1>3, <1>4

LEMMA KeepEmptySound ==
  ASSUME NEW c, Sound(c), NEW n \in Names
  PROVE  LET d == keep_empty(c, n)
         IN  /\ Sound(d) /\ d.limits = c.limits /\ d.empties = c.empties \cup {n}
             /\ DOMAIN d.kept = DOMAIN c.kept \ {n}
             /\ \A m \in DOMAIN d.kept : d.kept[m] = c.kept[m]
  <1>. DEFINE f == forget(c, n)
              names == f.empties \cup {n}
              d == [f EXCEPT !.empties = names]
  <1>1. /\ Sound(f) /\ f.limits = c.limits /\ f.empties = c.empties \ {n}
        /\ DOMAIN f.kept = DOMAIN c.kept \ {n}
        /\ \A m \in DOMAIN f.kept : f.kept[m] = c.kept[m]
    BY ForgetSound
  <1>2. keep_empty(c, n) = d
    BY DEF keep_empty
  <1>. HIDE DEF f
  <1>3. f.empties \subseteq Names /\ f.empties \cap DOMAIN f.kept = {}
    BY <1>1, SoundType DEF Sound, Proper
  <1>4. names \in SUBSET Names /\ names \cap DOMAIN f.kept = {} /\ names = c.empties \cup {n}
    BY <1>1, <1>3
  <1>. HIDE DEF names
  <1>5. Sound(d)
    BY <1>1, <1>4, EmptiesSound
  <1>6. d.empties = names /\ d.kept = f.kept /\ d.limits = f.limits
    BY <1>1, <1>4, EmptiesSound
  <1>. HIDE DEF d
  <1>. QED BY <1>1, <1>2, <1>4, <1>5, <1>6

-------------------------------------------------------------------------------
(* link_seen: a count drops, or its payload does.                           *)
LEMMA CountedDownSound ==
  ASSUME NEW c, Sound(c), NEW n \in DOMAIN c.kept, NEW left \in Nat \ {0}
  PROVE  LET d == CountedDown(c, n, left)
         IN  /\ Sound(d) /\ d.limits = c.limits /\ d.empties = c.empties
             /\ DOMAIN d.kept = DOMAIN c.kept
             /\ \A m \in DOMAIN c.kept : d.kept[m].id = c.kept[m].id
  <1>. DEFINE k == [seq |-> c.kept[n].seq, id |-> c.kept[n].id, len |-> c.kept[n].len,
                    tier |-> c.kept[n].tier, left |-> left]
              kept == Bound(c.kept, n, k)
              d == CountedDown(c, n, left)
  <1>0. c \in Caches /\ Listed(c) /\ Counted(c) /\ Bounded(c) /\ Proper(c)
    BY DEF Sound
  <1>. USE <1>0
  <1>1. d = [c EXCEPT !.kept = kept]
    BY DEF CountedDown
  <1>2. n \in Names /\ k \in Payloads /\ c.kept \in Partial(Names, Payloads)
    <2>1. n \in Names /\ c.kept[n] \in Payloads /\ c.kept \in Partial(Names, Payloads)
      BY SoundType
    <2>. QED BY <2>1 DEF Payloads
  <1>3. k.seq = c.kept[n].seq /\ k.id = c.kept[n].id /\ k.len = c.kept[n].len
        /\ k.tier = c.kept[n].tier /\ k.left # 0
    OBVIOUS
  <1>. HIDE DEF k
  <1>4. kept \in Partial(Names, Payloads)
    BY <1>2, BoundPartial
  <1>5. /\ DOMAIN kept = DOMAIN c.kept
        /\ \A m \in DOMAIN c.kept :
             /\ kept[m].seq = c.kept[m].seq /\ kept[m].id = c.kept[m].id
             /\ kept[m].len = c.kept[m].len /\ kept[m].tier = c.kept[m].tier
        /\ \A m \in DOMAIN c.kept : kept[m].left # 0
    <2>1. DOMAIN kept = DOMAIN c.kept
      BY DEF Bound
    <2>2. ASSUME NEW m \in DOMAIN c.kept
          PROVE  /\ kept[m].seq = c.kept[m].seq /\ kept[m].id = c.kept[m].id
                 /\ kept[m].len = c.kept[m].len /\ kept[m].tier = c.kept[m].tier
                 /\ kept[m].left # 0
      <3>1. CASE m = n
        <4>1. kept[m] = k
          BY <3>1 DEF Bound
        <4>. QED BY <1>3, <3>1, <4>1
      <3>2. CASE m # n
        <4>1. kept[m] = c.kept[m]
          BY <3>2 DEF Bound
        <4>. QED BY <4>1 DEF Proper
      <3>. QED BY <3>1, <3>2
    <2>. QED BY <2>1, <2>2
  <1>. HIDE DEF kept
  <1>6. /\ d \in Caches /\ d.kept = kept /\ d.limits = c.limits /\ d.empties = c.empties
        /\ d.order = c.order /\ d.disk_order = c.disk_order /\ d.next_seq = c.next_seq
        /\ d.in_memory = c.in_memory /\ d.on_disk = c.on_disk
        /\ d.mem_overhead = c.mem_overhead /\ d.disk_overhead = c.disk_overhead
    BY <1>1, <1>4 DEF Caches
  <1>. HIDE DEF d
  <1>7. \A tier : Held(d, tier) = Held(c, tier)
    BY <1>5, <1>6 DEF Held
  <1>8. Lengths(d) = Lengths(c)
    BY <1>5, <1>6 DEF Lengths
  <1>9. \A queue, S : S \subseteq DOMAIN c.kept /\ Lists(c, queue, S) => Lists(d, queue, S)
    <2>1. ASSUME NEW queue, NEW S, S \subseteq DOMAIN c.kept, Lists(c, queue, S)
          PROVE  Lists(d, queue, S)
      <3>1. \A m \in S : d.kept[m].seq = c.kept[m].seq
        BY <1>5, <1>6, <2>1
      <3>. QED BY <2>1, <3>1 DEF Lists
    <2>. QED BY <2>1
  <1>10. Listed(d)
    <2>1. Held(c, "file") \subseteq DOMAIN c.kept
      BY DEF Held
    <2>. QED BY <1>5, <1>6, <1>7, <1>9, <2>1 DEF Listed
  <1>11. Counted(d)
    BY <1>6, <1>7, <1>8 DEF Counted
  <1>12. Bounded(d)
    BY <1>6 DEF Bounded, held, held_in_memory, files
  <1>13. Proper(d)
    BY <1>5, <1>6 DEF Proper
  <1>. QED BY <1>5, <1>6, <1>10, <1>11, <1>12, <1>13 DEF Sound, d

LEMMA LinkSeenSound ==
  ASSUME NEW c, Sound(c), NEW n
  PROVE  LET d == link_seen(c, n)
         IN  /\ Sound(d) /\ d.limits = c.limits /\ d.empties = c.empties
             /\ DOMAIN d.kept \subseteq DOMAIN c.kept
             /\ \A m \in DOMAIN d.kept : d.kept[m].id = c.kept[m].id
  <1>. DEFINE d == link_seen(c, n)
  <1>1. CASE n \notin DOMAIN c.kept \/ c.kept[n].left = Unknown
    <2>1. d = c
      BY <1>1 DEF link_seen
    <2>. QED BY <2>1
  <1>2. CASE n \in DOMAIN c.kept /\ c.kept[n].left # Unknown /\ c.kept[n].left <= 1
    <2>1. d = remove(c, n)
      BY <1>2 DEF link_seen
    <2>2. Sound(remove(c, n)) /\ Reduced(remove(c, n), c)
      BY RemoveSound
    <2>. QED BY <2>1, <2>2 DEF Reduced
  <1>3. CASE n \in DOMAIN c.kept /\ c.kept[n].left # Unknown /\ ~ (c.kept[n].left <= 1)
    <2>1. d = CountedDown(c, n, c.kept[n].left - 1)
      BY <1>3 DEF link_seen
    <2>2. c.kept[n].left \in Nat
      <3>1. c.kept[n] \in Payloads
        BY <1>3, SoundType DEF Sound
      <3>. QED BY <1>3, <3>1 DEF Payloads
    <2>3. c.kept[n].left - 1 \in Nat \ {0}
      BY <1>3, <2>2
    <2>4. LET e == CountedDown(c, n, c.kept[n].left - 1)
          IN  /\ Sound(e) /\ e.limits = c.limits /\ e.empties = c.empties
              /\ DOMAIN e.kept = DOMAIN c.kept
              /\ \A m \in DOMAIN c.kept : e.kept[m].id = c.kept[m].id
      BY <1>3, <2>3, CountedDownSound
    <2>. QED BY <2>1, <2>4
  <1>. QED BY <1>1, <1>2, <1>3

-------------------------------------------------------------------------------
(* The loop over entries.  What is kept, and the symlinks written, are what *)
(* the source means by their names; a payload passing stays within what its *)
(* spool was promised, and has nothing older under its name.                *)
Passing ==
  [name : Names, size : Nat \cup {Unknown}, announced : Nat \cup {Unknown}, passed : Nat,
   spool : [tier : {"none", "memory", "file"}, room : Nat, mem : Nat]]

InPassing ==
  /\ file \in Passing /\ count >= 1
  /\ Promised(cache, file.spool)
  /\ file.spool.tier # "none" => ~ StoresLinks /\ file.passed <= file.spool.room
  /\ file.spool.tier = "memory" => file.passed <= file.spool.mem
  /\ ~ StoresLinks => ~ contains(cache, file.name)
  /\ symlinks[file.name] = Nothing

Meant ==
  /\ \A n \in DOMAIN cache.kept : cache.kept[n].id = meaning[n]
  /\ \A n \in cache.empties : meaning[n] = Empty
  /\ \A n \in Names : symlinks[n] >= 0 => symlinks[n] = meaning[n]

LinkIds == {Nothing, Lost} \cup 1 .. MaxEntries

Typed ==
  /\ \E c \in Conversions : caps = c.caps /\ cache.limits = c.limits
  /\ written \subseteq Names
  /\ symlinks \in [Names -> LinkIds]
  /\ count \in 0 .. MaxEntries
  /\ failed \in BOOLEAN
  /\ meaning \in [Names -> Ids] /\ stored \in [Names -> Ids]

EntriesInv ==
  /\ Typed
  /\ Sound(cache)
  /\ file = NoFile \/ InPassing
  /\ ~ StoresLinks => Meant
  /\ NeverDangling

(* A step writes what is meant, where links are copied.                     *)
Faithful ==
  \A n \in Names : ~ StoresLinks /\ stored'[n] # stored[n] => stored'[n] = meaning'[n]

LEMMA NewCacheSound ==
  ASSUME NEW limits \in Policies
  PROVE  Sound(NewCache(limits)) /\ NewCache(limits).limits = limits
         /\ DOMAIN NewCache(limits).kept = {} /\ NewCache(limits).empties = {}
  <1>. DEFINE c == NewCache(limits)
  <1>1. << >> \in Partial(Names, Payloads) /\ << >> \in Partial(Nat, Names) /\ DOMAIN << >> = {}
    <2>1. \A A : << >> \in [{} -> A]
      OBVIOUS
    <2>2. \A A : {} \in SUBSET A
      OBVIOUS
    <2>3. DOMAIN << >> = {}
      OBVIOUS
    <2>. QED BY <2>1, <2>2, <2>3 DEF Partial
  <1>2. /\ c.limits = limits /\ c.kept = << >> /\ c.order = << >> /\ c.disk_order = << >>
        /\ c.next_seq = 0 /\ c.in_memory = 0 /\ c.on_disk = 0
        /\ c.mem_overhead = 0 /\ c.disk_overhead = 0 /\ c.empties = {}
    BY DEF NewCache
  <1>3. c \in Caches
    BY <1>1 DEF NewCache, Caches
  <1>. HIDE DEF c
  <1>4. Listed(c)
    BY <1>1, <1>2 DEF Listed, Lists, Held
  <1>5. Counted(c)
    <2>1. 0 * Overhead = 0
      BY CacheAssumption
    <2>2. Held(c, "memory") = {} /\ Held(c, "file") = {}
      BY <1>1, <1>2 DEF Held
    <2>. QED BY <1>2, <2>1, <2>2, TotalOfNone, FS_EmptySet DEF Counted
  <1>6. Bounded(c)
    <2>1. limits.mem \in Nat /\ limits.total \in Nat /\ MaxFiles \in Nat
      BY LimitsType, CacheAssumption
    <2>2. files(c) = 0
      BY <1>1, <1>2, FS_EmptySet DEF files
    <2>. QED BY <1>2, <2>1, <2>2 DEF Bounded, held, held_in_memory
  <1>7. Proper(c)
    BY <1>1, <1>2 DEF Proper
  <1>. QED BY <1>1, <1>2, <1>3, <1>4, <1>5, <1>6, <1>7 DEF Sound, c

LEMMA EntriesStart == Init => EntriesInv
  <1>. SUFFICES ASSUME Init PROVE EntriesInv
    OBVIOUS
  <1>1. PICK c \in Conversions : caps = c.caps /\ cache = NewCache(c.limits)
    BY DEF Init
  <1>2. c.limits \in Policies
    BY DEF Policies
  <1>3. /\ Sound(cache) /\ cache.limits = c.limits /\ DOMAIN cache.kept = {} /\ cache.empties = {}
    <2>. DEFINE start == NewCache(c.limits)
    <2>1. /\ Sound(start) /\ start.limits = c.limits /\ DOMAIN start.kept = {} /\ start.empties = {}
      BY <1>2, NewCacheSound
    <2>2. cache = start
      BY <1>1
    <2>. HIDE DEF start
    <2>. QED BY <2>1, <2>2
  <1>4. Typed
    <2>1. \E d \in Conversions : caps = d.caps /\ cache.limits = d.limits
      BY <1>1, <1>3
    <2>2. Nothing \in Ids /\ Nothing \in LinkIds
      BY DEF Ids, LinkIds
    <2>3. symlinks \in [Names -> LinkIds] /\ meaning \in [Names -> Ids] /\ stored \in [Names -> Ids]
      BY <2>2 DEF Init
    <2>4. count \in 0 .. MaxEntries
      <3>1. count = 0
        BY DEF Init
      <3>. QED BY <3>1, ConvertAssumption
    <2>5. failed \in BOOLEAN /\ written \subseteq Names
      BY DEF Init
    <2>. QED BY <2>1, <2>3, <2>4, <2>5 DEF Typed
  <1>5. Meant
    BY <1>3 DEF Init, Meant, Nothing
  <1>6. NeverDangling
    BY DEF Init, NeverDangling
  <1>. QED BY <1>3, <1>4, <1>5, <1>6 DEF Init, EntriesInv

(* n's entry is passed in one step: nothing older is kept under its name,   *)
(* and what is written under it is what it means.                           *)
Superseded(n) ==
  /\ cache'.empties \subseteq cache.empties \ {n}
  /\ \A m \in DOMAIN cache'.kept :
       m # n /\ m \in DOMAIN cache.kept /\ cache'.kept[m].id = cache.kept[m].id

LEMMA EntryPassed ==
  ASSUME EntriesInv, NEW n \in Names, NEW id \in Ids, Reads(n, id),
         NEW link \in LinkIds, Symlinks(n, link), link >= 0 => link = id,
         Sound(cache'), cache'.limits = cache.limits, ~ StoresLinks => Superseded(n),
         \/ WritesNot
         \/ \E w \in Ids \ {Nothing} : Writes(n, w) /\ (~ StoresLinks => w = id)
  PROVE  EntriesInv' /\ Faithful
  <1>1. /\ caps' = caps /\ file = NoFile /\ file' = file /\ failed' = failed
        /\ count' = count + 1 /\ count < MaxEntries /\ count \in 0 .. MaxEntries
        /\ meaning' = [meaning EXCEPT ![n] = id] /\ symlinks' = [symlinks EXCEPT ![n] = link]
        /\ meaning \in [Names -> Ids] /\ stored \in [Names -> Ids]
        /\ symlinks \in [Names -> LinkIds] /\ written \subseteq Names /\ failed \in BOOLEAN
        /\ MaxEntries \in Nat
    BY ConvertAssumption DEF EntriesInv, Typed, Reads, Symlinks
  <1>2. \E c \in Conversions : caps' = c.caps /\ cache'.limits = c.limits
    BY <1>1 DEF EntriesInv, Typed
  <1>3. /\ stored' \in [Names -> Ids] /\ written' \subseteq Names
        /\ \A m \in written' : stored'[m] # Nothing
        /\ Faithful
    <2>1. CASE WritesNot
      BY <1>1, <2>1 DEF WritesNot, EntriesInv, NeverDangling, Faithful
    <2>2. ASSUME NEW w \in Ids \ {Nothing}, Writes(n, w), ~ StoresLinks => w = id
          PROVE  /\ stored' \in [Names -> Ids] /\ written' \subseteq Names
                 /\ \A m \in written' : stored'[m] # Nothing
                 /\ Faithful
      <3>1. written' = written \cup {n} /\ stored' = [stored EXCEPT ![n] = w]
        BY <2>2 DEF Writes
      <3>2. \A m \in written : stored[m] # Nothing
        BY DEF EntriesInv, NeverDangling
      <3>3. stored' \in [Names -> Ids] /\ written' \subseteq Names
        BY <1>1, <3>1
      <3>4. \A m \in written' : stored'[m] # Nothing
        BY <1>1, <3>1, <3>2
      <3>5. Faithful
        BY <1>1, <2>2, <3>1 DEF Faithful
      <3>. QED BY <3>3, <3>4, <3>5
    <2>. QED BY <2>1, <2>2
  <1>4. Typed'
    <2>1. count' \in 0 .. MaxEntries
      BY <1>1
    <2>2. meaning' \in [Names -> Ids] /\ symlinks' \in [Names -> LinkIds]
      BY <1>1
    <2>. QED BY <1>1, <1>2, <1>3, <2>1, <2>2 DEF Typed
  <1>5. ~ StoresLinks' => Meant'
    <2>. SUFFICES ASSUME ~ StoresLinks' PROVE Meant'
      OBVIOUS
    <2>1. Superseded(n) /\ Meant
      BY <1>1 DEF StoresLinks, EntriesInv
    <2>2. \A m \in DOMAIN cache'.kept : cache'.kept[m].id = meaning'[m]
      <3>1. \A m \in DOMAIN cache.kept : m \in Names
        BY SoundType DEF EntriesInv, Sound
      <3>. QED BY <1>1, <2>1, <3>1 DEF Superseded, Meant
    <2>3. \A m \in cache'.empties : meaning'[m] = Empty
      <3>1. cache.empties \subseteq Names
        BY SoundType DEF EntriesInv, Sound
      <3>. QED BY <1>1, <2>1, <3>1 DEF Superseded, Meant
    <2>4. \A m \in Names : symlinks'[m] >= 0 => symlinks'[m] = meaning'[m]
      BY <1>1, <2>1 DEF Meant
    <2>. QED BY <2>2, <2>3, <2>4 DEF Meant
  <1>6. NeverDangling'
    BY <1>3 DEF NeverDangling
  <1>. QED BY <1>1, <1>3, <1>4, <1>5, <1>6 DEF EntriesInv

LEMMA ForgetSupersedes ==
  ASSUME Sound(cache), NEW n, cache' = forget(cache, n)
  PROVE  Sound(cache') /\ cache'.limits = cache.limits /\ Superseded(n)
  BY ForgetSound DEF Superseded

LEMMA LinkSupersedes ==
  ASSUME Sound(cache), NEW n, NEW t, cache' = link_seen(forget(cache, n), t)
  PROVE  Sound(cache') /\ cache'.limits = cache.limits /\ Superseded(n)
  <1>. DEFINE f == forget(cache, n)
  <1>1. /\ Sound(f) /\ f.limits = cache.limits /\ f.empties = cache.empties \ {n}
        /\ DOMAIN f.kept = DOMAIN cache.kept \ {n}
        /\ \A m \in DOMAIN f.kept : f.kept[m] = cache.kept[m]
    BY ForgetSound
  <1>2. cache' = link_seen(f, t)
    OBVIOUS
  <1>. HIDE DEF f
  <1>3. /\ Sound(cache') /\ cache'.limits = f.limits /\ cache'.empties = f.empties
        /\ DOMAIN cache'.kept \subseteq DOMAIN f.kept
        /\ \A m \in DOMAIN cache'.kept : cache'.kept[m].id = f.kept[m].id
    BY <1>1, <1>2, LinkSeenSound
  <1>. QED BY <1>1, <1>3 DEF Superseded

(* The ids at hand are of entries, or of nothing.                           *)
LEMMA IdsType ==
  ASSUME EntriesInv, count < MaxEntries
  PROVE  /\ This \in Ids /\ This \in LinkIds /\ This # Nothing /\ Empty \in Ids /\ Empty # Nothing
         /\ Nothing \in LinkIds /\ Lost \in LinkIds /\ ~ (Nothing >= 0) /\ ~ (Lost >= 0)
  BY ConvertAssumption DEF EntriesInv, Typed, This, Ids, LinkIds, Nothing, Lost, Empty

(* Every kind of entry, its link included, keeps the invariant.             *)
LEMMA SkippedKeeps ==
  ASSUME EntriesInv, NEW n \in Names,
         SkipOther(n) \/ Directory(n) \/ Symlink(n) \/ SkipDuplicateFile(n)
  PROVE  EntriesInv' /\ Faithful
  <1>1. Sound(cache) /\ Reads(n, This) /\ count < MaxEntries /\ cache' = forget(cache, n)
    BY DEF EntriesInv, SkipOther, Directory, Symlink, SkipDuplicateFile, Reads
  <1>2. Sound(cache') /\ cache'.limits = cache.limits /\ Superseded(n)
    BY <1>1, ForgetSupersedes
  <1>3. /\ This \in Ids /\ This \in LinkIds /\ This # Nothing /\ Nothing \in LinkIds
        /\ Lost \in LinkIds /\ ~ (Nothing >= 0) /\ ~ (Lost >= 0)
    BY <1>1, IdsType
  <1>4. /\ Symlinks(n, Nothing) \/ Symlinks(n, Lost) \/ Symlinks(n, This)
        /\ WritesNot \/ Writes(n, This)
    BY DEF SkipOther, Directory, Symlink, SkipDuplicateFile
  <1>5. WritesNot \/ \E w \in Ids \ {Nothing} : Writes(n, w) /\ (~ StoresLinks => w = This)
    BY <1>3, <1>4
  <1>6. PICK link \in LinkIds : Symlinks(n, link) /\ (link >= 0 => link = This)
    BY <1>3, <1>4
  <1>. QED BY <1>1, <1>2, <1>3, <1>5, <1>6, EntryPassed

LEMMA LinkKeeps ==
  ASSUME EntriesInv, NEW n \in Names, NEW t \in Names,
         SkipLink(n, t) \/ StoreLink(n, t) \/ CopyLink(n, t) \/ CopySymlink(n, t)
  PROVE  EntriesInv' /\ Faithful
  <1>1. /\ Sound(cache) /\ n # t /\ Reads(n, meaning[t]) /\ count < MaxEntries
        /\ meaning \in [Names -> Ids] /\ stored \in [Names -> Ids] /\ symlinks \in [Names -> LinkIds]
    BY DEF EntriesInv, Typed, SkipLink, StoreLink, CopyLink, CopySymlink, Link, Reads
  <1>2. meaning[t] \in Ids
    BY <1>1
  <1>3. /\ Nothing \in LinkIds /\ ~ (Nothing >= 0) /\ Empty \in Ids /\ Empty # Nothing
    BY <1>1, IdsType
  <1>4. CASE SkipLink(n, t)
    <2>1. cache' = link_seen(forget(cache, n), t) /\ Symlinks(n, Nothing) /\ WritesNot
      BY <1>4 DEF SkipLink
    <2>2. Sound(cache') /\ cache'.limits = cache.limits /\ Superseded(n)
      BY <1>1, <2>1, LinkSupersedes
    <2>. QED BY <1>1, <1>2, <1>3, <2>1, <2>2, EntryPassed
  <1>5. CASE StoreLink(n, t)
    <2>1. /\ cache' = cache /\ StoresLinks /\ Symlinks(n, Nothing)
          /\ WritesNot \/ (t \in written /\ Writes(n, stored[t]))
      BY <1>5 DEF StoreLink
    <2>2. t \in written => stored[t] \in Ids \ {Nothing}
      BY <1>1 DEF EntriesInv, NeverDangling
    <2>3. \/ WritesNot
          \/ \E w \in Ids \ {Nothing} : Writes(n, w) /\ (~ StoresLinks => w = meaning[t])
      BY <2>1, <2>2
    <2>4. Sound(cache') /\ cache'.limits = cache.limits
      BY <1>1, <2>1
    <2>. QED BY <1>1, <1>2, <1>3, <2>1, <2>3, <2>4, EntryPassed
  <1>6. CASE CopyLink(n, t)
    <2>. DEFINE w == IF t \in cache.empties THEN Empty ELSE cache.kept[t].id
    <2>1. /\ cache' = link_seen(forget(cache, n), t) /\ Symlinks(n, Nothing) /\ ~ StoresLinks
          /\ Writes(n, w) /\ t \in cache.empties \cup DOMAIN cache.kept
      BY <1>6 DEF CopyLink, CopyOfBytes, contains
    <2>2. Sound(cache') /\ cache'.limits = cache.limits /\ Superseded(n)
      BY <1>1, <2>1, LinkSupersedes
    <2>3. w = meaning[t]
      BY <2>1 DEF EntriesInv, Meant
    <2>4. w # Nothing
      <3>1. t \in DOMAIN cache.kept => cache.kept[t].id \in 1 .. MaxEntries
        BY <1>1 DEF Sound, Proper
      <3>2. \A i \in 1 .. MaxEntries : i # Nothing
        BY ConvertAssumption DEF Nothing
      <3>. QED BY <1>3, <2>1, <3>1, <3>2
    <2>5. \E i \in Ids \ {Nothing} : Writes(n, i) /\ (~ StoresLinks => i = meaning[t])
      BY <1>2, <2>1, <2>3, <2>4
    <2>. HIDE DEF w
    <2>. QED BY <1>1, <1>2, <1>3, <2>1, <2>2, <2>5, EntryPassed
  <1>7. CASE CopySymlink(n, t)
    <2>1. /\ cache' = link_seen(forget(cache, n), t) /\ Symlinks(n, symlinks[t]) /\ ~ StoresLinks
          /\ Writes(n, symlinks[t]) /\ symlinks[t] >= 0
      BY <1>7 DEF CopySymlink, CopyOfSymlink
    <2>2. Sound(cache') /\ cache'.limits = cache.limits /\ Superseded(n)
      BY <1>1, <2>1, LinkSupersedes
    <2>3. symlinks[t] = meaning[t] /\ symlinks[t] \in LinkIds
      BY <1>1, <2>1 DEF EntriesInv, Meant
    <2>4. symlinks[t] # Nothing
      BY <1>3, <2>1
    <2>5. \E i \in Ids \ {Nothing} : Writes(n, i) /\ (~ StoresLinks => i = meaning[t])
      BY <1>2, <2>1, <2>3, <2>4
    <2>. QED BY <1>1, <1>2, <2>1, <2>2, <2>3, <2>5, EntryPassed
  <1>. QED BY <1>4, <1>5, <1>6, <1>7

LEMMA BeginKeeps ==
  ASSUME EntriesInv, NEW n \in Names, NEW size \in Sizes, NEW announced \in Announced,
         BeginFile(n, size, announced)
  PROVE  EntriesInv' /\ Faithful
  <1>. DEFINE opened == IF ~ StoresLinks /\ wants(cache, announced) THEN spool(cache, n, size)
                        ELSE <<forget(cache, n), NoSpool>>
              now == [name |-> n, size |-> size, announced |-> announced, passed |-> 0,
                      spool |-> opened[2]]
  <1>1. /\ file = NoFile /\ count < MaxEntries /\ Symlinks(n, Nothing) /\ count' = count + 1
        /\ cache' = opened[1] /\ file' = now
        /\ caps' = caps /\ written' = written /\ failed' = failed /\ meaning' = meaning
        /\ stored' = stored
    BY DEF BeginFile, This
  <1>2. size \in Nat \cup {Unknown} /\ announced \in Nat \cup {Unknown}
    BY ConvertAssumption DEF Announced
  <1>3. Sound(cache)
    BY DEF EntriesInv
  <1>4. /\ Sound(cache') /\ Promised(cache', opened[2])
        /\ opened[2].tier \in {"none", "memory"}
        /\ opened[2].tier # "none" => ~ StoresLinks
        /\ cache'.limits = cache.limits /\ Superseded(n)
        /\ ~ contains(cache', n)
    <2>1. CASE ~ StoresLinks /\ wants(cache, announced)
      <3>. DEFINE s == spool(cache, n, size)
      <3>1. /\ Sound(s[1]) /\ Promised(s[1], s[2]) /\ s[2].tier \in {"none", "memory"}
            /\ s[1].limits = cache.limits /\ s[1].empties = cache.empties \ {n}
            /\ DOMAIN s[1].kept \subseteq DOMAIN cache.kept \ {n}
            /\ \A m \in DOMAIN s[1].kept : s[1].kept[m] = cache.kept[m]
        BY <1>2, <1>3, SpoolSound
      <3>2. opened = s
        BY <2>1
      <3>. HIDE DEF s, opened
      <3>. QED BY <1>1, <2>1, <3>1, <3>2 DEF Superseded, contains
    <2>2. CASE ~ (~ StoresLinks /\ wants(cache, announced))
      <3>1. opened[1] = forget(cache, n) /\ opened[2] = NoSpool
        BY <2>2
      <3>. HIDE DEF opened
      <3>2. /\ Sound(cache') /\ cache'.limits = cache.limits /\ Superseded(n)
        BY <1>1, <1>3, <3>1, ForgetSupersedes
      <3>3. NoSpool.tier = "none"
        BY DEF NoSpool
      <3>4. ~ contains(cache', n)
        BY <3>2 DEF Superseded, contains
      <3>. QED BY <3>1, <3>2, <3>3, <3>4, NoSpoolPromises
    <2>. QED BY <2>1, <2>2
  <1>. HIDE DEF opened
  <1>5. InPassing'
    <2>1. opened[2] \in [tier : {"none", "memory", "file"}, room : Nat, mem : Nat]
      BY <1>4 DEF Promised
    <2>2. now \in Passing /\ now.name = n /\ now.passed = 0 /\ now.spool = opened[2]
      BY <1>2, <2>1 DEF Passing
    <2>3. count' >= 1
      BY <1>1 DEF EntriesInv, Typed
    <2>4. symlinks'[n] = Nothing
      BY <1>1 DEF EntriesInv, Typed, Symlinks
    <2>5. opened[2].room \in Nat /\ opened[2].mem \in Nat
      BY <2>1
    <2>. HIDE DEF now
    <2>. QED BY <1>1, <1>4, <2>2, <2>3, <2>4, <2>5 DEF InPassing, StoresLinks
  <1>. HIDE DEF now
  <1>6. Typed'
    <2>1. symlinks' \in [Names -> LinkIds]
      BY <1>1, IdsType DEF EntriesInv, Typed, Symlinks
    <2>2. count' \in 0 .. MaxEntries
      BY <1>1, ConvertAssumption DEF EntriesInv, Typed
    <2>. QED BY <1>1, <1>4, <2>1, <2>2 DEF EntriesInv, Typed
  <1>7. ~ StoresLinks' => Meant'
    <2>. SUFFICES ASSUME ~ StoresLinks' PROVE Meant'
      OBVIOUS
    <2>1. Superseded(n) /\ Meant
      BY <1>1, <1>4 DEF StoresLinks, EntriesInv
    <2>2. \A m \in Names : symlinks'[m] >= 0 => symlinks'[m] = meaning'[m]
      BY <1>1, <2>1, IdsType DEF EntriesInv, Typed, Symlinks, Meant
    <2>. QED BY <1>1, <2>1, <2>2 DEF Superseded, Meant
  <1>8. NeverDangling' /\ Faithful
    BY <1>1 DEF EntriesInv, NeverDangling, Faithful
  <1>. QED BY <1>4, <1>5, <1>6, <1>7, <1>8 DEF EntriesInv

LEMMA PassKeeps == ASSUME EntriesInv, Pass PROVE EntriesInv' /\ Faithful
  <1>1. /\ file # NoFile /\ cache' = cache /\ caps' = caps /\ written' = written
        /\ symlinks' = symlinks /\ count' = count /\ failed' = failed /\ meaning' = meaning
        /\ stored' = stored
    BY DEF Pass
  <1>2. PICK s \in Pushed(file.spool, file.passed + 1) :
          file' = [file EXCEPT !.passed = @ + 1, !.spool = s]
    BY DEF Pass
  <1>3. InPassing
    BY <1>1 DEF EntriesInv
  <1>4. /\ file \in Passing /\ file.passed \in Nat /\ Promised(cache, file.spool)
        /\ file.spool \in [tier : {"none", "memory", "file"}, room : Nat, mem : Nat]
    BY <1>3 DEF InPassing, Passing
  <1>. DEFINE total == file.passed + 1
              p == file.spool
              onto == [p EXCEPT !.tier = "file"]
  <1>5. onto = [tier |-> "file", room |-> p.room, mem |-> p.mem]
    BY <1>4
  <1>6. /\ Promised(cache, s) /\ s \in [tier : {"none", "memory", "file"}, room : Nat, mem : Nat]
        /\ s.tier # "none" => p.tier # "none" /\ total <= s.room
        /\ s.tier = "memory" => total <= s.mem
    <2>1. s \in {NoSpool, onto, p}
      BY <1>2 DEF Pushed
    <2>2. CASE s = NoSpool
      <3>1. NoSpool.tier = "none"
        BY DEF NoSpool
      <3>2. NoSpool \in [tier : {"none", "memory", "file"}, room : Nat, mem : Nat]
        BY DEF NoSpool
      <3>. QED BY <2>2, <3>1, <3>2, NoSpoolPromises
    <2>3. ASSUME s # NoSpool PROVE p.tier # "none" /\ total <= p.room
      <3>1. ~ (p.tier = "none" \/ total > p.room)
        BY <1>2, <2>3 DEF Pushed
      <3>. QED BY <1>4, <3>1
    <2>4. CASE s = onto
      <3>1. /\ s \in [tier : {"none", "memory", "file"}, room : Nat, mem : Nat]
            /\ s.tier = "file" /\ s.room = p.room /\ s.mem = p.mem
        BY <1>4, <1>5, <2>4
      <3>2. s # NoSpool
        BY <3>1 DEF NoSpool
      <3>3. p.tier # "none" /\ total <= p.room
        BY <2>3, <3>2
      <3>4. Promised(cache, s)
        BY <1>4, <3>1, <3>3 DEF Promised
      <3>. QED BY <3>1, <3>3, <3>4
    <2>5. CASE s = p /\ s # NoSpool /\ s # onto
      <3>1. p.tier # "none" /\ total <= p.room
        BY <2>3, <2>5
      <3>2. ~ (total > p.mem)
        BY <1>2, <2>5, <3>1 DEF Pushed
      <3>. QED BY <1>4, <2>5, <3>1, <3>2
    <2>. QED BY <2>1, <2>2, <2>4, <2>5
  <1>. HIDE DEF onto
  <1>7. InPassing'
    <2>1. /\ file' \in Passing /\ file'.passed = total /\ file'.spool = s /\ file'.name = file.name
      <3>1. total \in Nat /\ file' = [file EXCEPT !.passed = total, !.spool = s]
        BY <1>2, <1>4
      <3>. HIDE DEF total
      <3>2. PICK v \in Nat : v = total
        BY <3>1
      <3>3. PICK r \in [tier : {"none", "memory", "file"}, room : Nat, mem : Nat] : r = s
        BY <1>6
      <3>4. file' = [file EXCEPT !.passed = v, !.spool = r]
        BY <3>1, <3>2, <3>3
      <3>5. /\ [file EXCEPT !.passed = v, !.spool = r] \in Passing
            /\ [file EXCEPT !.passed = v, !.spool = r].passed = v
            /\ [file EXCEPT !.passed = v, !.spool = r].spool = r
            /\ [file EXCEPT !.passed = v, !.spool = r].name = file.name
        BY <1>4 DEF Passing
      <3>. QED BY <3>2, <3>3, <3>4, <3>5
    <2>. QED BY <1>1, <1>3, <1>6, <2>1 DEF InPassing, StoresLinks, contains
  <1>. QED BY <1>1, <1>7 DEF EntriesInv, Typed, StoresLinks, Meant, NeverDangling, Faithful

LEMMA EndKeeps == ASSUME EntriesInv, EndFile PROVE EntriesInv' /\ Faithful
  <1>. DEFINE n == file.name
              id == IF file.passed = 0 THEN Empty ELSE count
              p == [id |-> id, len |-> file.passed, tier |-> file.spool.tier]
  <1>1. /\ file # NoFile /\ Writes(n, id) /\ meaning' = [meaning EXCEPT ![n] = id]
        /\ file' = NoFile /\ caps' = caps /\ symlinks' = symlinks /\ count' = count
        /\ failed' = failed
    BY DEF EndFile
  <1>2. InPassing /\ Sound(cache)
    BY <1>1 DEF EntriesInv
  <1>3. /\ n \in Names /\ file.passed \in Nat /\ file.announced \in Nat \cup {Unknown}
        /\ file.spool.tier \in {"none", "memory", "file"}
        /\ count \in 1 .. MaxEntries /\ symlinks[n] = Nothing
    BY <1>2, ConvertAssumption DEF InPassing, Passing, EntriesInv, Typed
  <1>4. id \in Ids /\ id # Nothing
    BY <1>3, ConvertAssumption DEF Ids, Empty, Nothing
  <1>5. CASE StoresLinks
    <2>1. cache' = cache
      BY <1>5 DEF EndFile
    <2>. QED BY <1>1, <1>2, <1>3, <1>4, <1>5, <2>1
         DEF EntriesInv, Typed, StoresLinks, NeverDangling, Faithful, Writes
  <1>6. CASE ~ StoresLinks
    <2>1. /\ Sound(cache') /\ cache'.limits = cache.limits
          /\ \A m \in cache'.empties : m \in cache.empties \ {n} \/ (m = n /\ id = Empty)
          /\ \A m \in DOMAIN cache'.kept :
               \/ m = n /\ cache'.kept[m].id = id
               \/ m # n /\ m \in DOMAIN cache.kept /\ cache'.kept[m].id = cache.kept[m].id
      <3>1. CASE cache' = cache
        BY <1>2, <1>6, <3>1 DEF InPassing, contains
      <3>2. CASE file.passed = 0 /\ cache' = keep_empty(cache, n)
        <4>1. /\ Sound(cache') /\ cache'.limits = cache.limits
              /\ cache'.empties = cache.empties \cup {n}
              /\ DOMAIN cache'.kept = DOMAIN cache.kept \ {n}
              /\ \A m \in DOMAIN cache'.kept : cache'.kept[m] = cache.kept[m]
          BY <1>2, <1>3, <3>2, KeepEmptySound
        <4>. QED BY <3>2, <4>1
      <3>3. CASE /\ file.passed # 0 /\ file.spool.tier # "none"
                 /\ cache' = keep(cache, n, p, file.announced)
        <4>1. p \in Offered /\ p.id = id
          BY <1>3, <3>3 DEF Offered, Tiers
        <4>. DEFINE l == file.announced
                    d == keep(cache, n, p, l)
        <4>0. n \in Names /\ l \in Nat \cup {Unknown} /\ cache' = d
          BY <1>3, <3>3
        <4>. HIDE DEF p, id, n, l
        <4>3. /\ Sound(d) /\ d.limits = cache.limits
              /\ d.empties = cache.empties \ {n}
              /\ \A m \in DOMAIN d.kept :
                   \/ m = n /\ d.kept[m].id = p.id
                   \/ m # n /\ m \in DOMAIN cache.kept /\ d.kept[m] = cache.kept[m]
          BY <1>2, <4>0, <4>1, KeepSound
        <4>. HIDE DEF d
        <4>2. /\ Sound(cache') /\ cache'.limits = cache.limits
              /\ cache'.empties = cache.empties \ {n}
              /\ \A m \in DOMAIN cache'.kept :
                   \/ m = n /\ cache'.kept[m].id = p.id
                   \/ m # n /\ m \in DOMAIN cache.kept /\ cache'.kept[m] = cache.kept[m]
          BY <4>0, <4>3
        <4>. QED BY <4>1, <4>2
      <3>4. \/ cache' = cache
            \/ file.passed = 0 /\ cache' = keep_empty(cache, n)
            \/ /\ file.passed # 0 /\ file.spool.tier # "none"
               /\ cache' = keep(cache, n, p, file.announced)
        BY <1>6 DEF EndFile
      <3>. QED BY <3>1, <3>2, <3>3, <3>4
    <2>. HIDE DEF n, id
    <2>2. /\ meaning \in [Names -> Ids] /\ stored \in [Names -> Ids] /\ written \subseteq Names
          /\ Meant /\ NeverDangling
      BY <1>6 DEF EntriesInv, Typed
    <2>3. /\ DOMAIN cache'.kept \subseteq Names /\ cache'.empties \subseteq Names
      BY <2>1, SoundType DEF Sound
    <2>4. Meant'
      <3>1. \A m \in DOMAIN cache'.kept : cache'.kept[m].id = meaning'[m]
        BY <1>1, <1>3, <2>1, <2>2, <2>3 DEF Meant
      <3>2. \A m \in cache'.empties : meaning'[m] = Empty
        BY <1>1, <1>3, <2>1, <2>2, <2>3 DEF Meant
      <3>3. \A m \in Names : symlinks'[m] >= 0 => symlinks'[m] = meaning'[m]
        BY <1>1, <1>3, <2>2 DEF Meant, Nothing
      <3>. QED BY <3>1, <3>2, <3>3 DEF Meant
    <2>5. stored' = [stored EXCEPT ![n] = id] /\ written' = written \cup {n}
      BY <1>1 DEF Writes
    <2>6. Typed'
      <3>1. stored' \in [Names -> Ids] /\ meaning' \in [Names -> Ids] /\ written' \subseteq Names
        BY <1>1, <1>3, <1>4, <2>2, <2>5
      <3>2. \E c \in Conversions : caps' = c.caps /\ cache'.limits = c.limits
        BY <1>1, <2>1 DEF EntriesInv, Typed
      <3>. QED BY <1>1, <3>1, <3>2 DEF EntriesInv, Typed
    <2>7. NeverDangling'
      BY <1>3, <1>4, <2>2, <2>5 DEF NeverDangling
    <2>8. Faithful
      BY <1>1, <1>3, <2>2, <2>5 DEF Faithful
    <2>. QED BY <1>1, <2>1, <2>4, <2>6, <2>7, <2>8 DEF EntriesInv
  <1>. QED BY <1>5, <1>6

LEMMA EntriesStep == ASSUME EntriesInv, Next PROVE EntriesInv' /\ Faithful
  <1>1. CASE Fails
    BY <1>1 DEF Fails, EntriesInv, Typed, InPassing, StoresLinks, Meant, NeverDangling, Faithful
  <1>2. ASSUME NEW n \in Names,
               SkipOther(n) \/ Directory(n) \/ Symlink(n) \/ SkipDuplicateFile(n)
        PROVE  EntriesInv' /\ Faithful
    BY <1>2, SkippedKeeps
  <1>3. ASSUME NEW n \in Names, NEW size \in Sizes, NEW announced \in Announced,
               BeginFile(n, size, announced)
        PROVE  EntriesInv' /\ Faithful
    BY <1>3, BeginKeeps
  <1>4. ASSUME NEW n \in Names, NEW t \in Names,
               SkipLink(n, t) \/ StoreLink(n, t) \/ CopyLink(n, t) \/ CopySymlink(n, t)
        PROVE  EntriesInv' /\ Faithful
    BY <1>4, LinkKeeps
  <1>. QED BY <1>1, <1>2, <1>3, <1>4, PassKeeps, EndKeeps DEF Next

LEMMA EntriesStutter == ASSUME EntriesInv, UNCHANGED vars PROVE EntriesInv' /\ Faithful
  BY DEF vars, EntriesInv, Typed, InPassing, StoresLinks, Meant, NeverDangling, Faithful

(* What the run checks follows.                                             *)
LEMMA EntriesTypes == EntriesInv => TypeOK
  <1>. SUFFICES ASSUME EntriesInv PROVE TypeOK
    OBVIOUS
  <1>1. Typed /\ cache \in Caches /\ Proper(cache)
    BY DEF EntriesInv, Sound
  <1>2. /\ DOMAIN cache.kept \subseteq Names /\ cache.empties \subseteq Names \ DOMAIN cache.kept
        /\ cache.kept = [n \in DOMAIN cache.kept |-> cache.kept[n]]
        /\ cache.next_seq \in Nat
    BY <1>1, SoundType, PartialType DEF Proper
  <1>3. \A n \in DOMAIN cache.kept :
          cache.kept[n] \in
            [seq : 0 .. cache.next_seq - 1, id : 1 .. MaxEntries, len : 1 .. cache.limits.total,
             tier : {"memory", "file"}, left : {Unknown} \cup (Nat \ {0})]
    <2>1. ASSUME NEW n \in DOMAIN cache.kept
          PROVE  cache.kept[n] \in
                   [seq : 0 .. cache.next_seq - 1, id : 1 .. MaxEntries,
                    len : 1 .. cache.limits.total, tier : {"memory", "file"},
                    left : {Unknown} \cup (Nat \ {0})]
      <3>. DEFINE k == cache.kept[n]
      <3>1. k \in Payloads
        BY <1>1, SoundType
      <3>2. /\ k.seq < cache.next_seq /\ k.id \in 1 .. MaxEntries
            /\ k.len \in 1 .. cache.limits.total /\ k.left # 0
        BY <1>1 DEF Proper
      <3>. HIDE DEF k
      <3>3. k \in [seq : 0 .. cache.next_seq - 1, id : 1 .. MaxEntries,
                   len : 1 .. cache.limits.total, tier : {"memory", "file"},
                   left : {Unknown} \cup (Nat \ {0})]
        BY <1>2, <3>1, <3>2 DEF Payloads, Tiers
      <3>. QED BY <3>3 DEF k
    <2>. QED BY <2>1
  <1>4. cache.kept \in [DOMAIN cache.kept ->
          [seq : 0 .. cache.next_seq - 1, id : 1 .. MaxEntries, len : 1 .. cache.limits.total,
           tier : {"memory", "file"}, left : {Unknown} \cup (Nat \ {0})]]
    BY <1>2, <1>3
  <1>5. file = NoFile \/ file.name \in Names
    BY DEF EntriesInv, InPassing, Passing
  <1>. QED BY <1>1, <1>2, <1>4, <1>5 DEF Typed, TypeOK, LinkIds

LEMMA EntriesBounded == EntriesInv => WithinPolicy
  <1>. SUFFICES ASSUME EntriesInv PROVE WithinPolicy
    OBVIOUS
  <1>1. Sound(cache) /\ cache \in Caches /\ Listed(cache) /\ Counted(cache) /\ Bounded(cache)
    BY DEF EntriesInv, Sound
  <1>2. CountsExact
    BY <1>1 DEF CountsExact, Listed, Lists, Counted, Held, Lengths
  <1>3. /\ {cache.in_memory, cache.on_disk, cache.mem_overhead, cache.disk_overhead} \subseteq Nat
        /\ cache.limits.mem \in Nat /\ cache.limits.total \in Nat /\ Overhead \in Nat
    BY <1>1, SoundType, CacheAssumption
  <1>4. held(cache) \in Nat /\ held_in_memory(cache) \in Nat
    BY <1>3 DEF held, held_in_memory
  <1>5. CASE file # NoFile /\ file.spool.tier # "none" /\ file.passed > 0
    <2>1. /\ file.passed \in Nat /\ file.spool.room \in Nat /\ file.spool.mem \in Nat
          /\ Promised(cache, file.spool) /\ file.passed <= file.spool.room
          /\ file.spool.tier = "memory" => file.passed <= file.spool.mem
      BY <1>5 DEF EntriesInv, InPassing, Passing
    <2>2. held(cache) + (file.passed + Overhead) <= cache.limits.total
      BY <1>3, <1>4, <1>5, <2>1 DEF Promised
    <2>3. file.spool.tier = "memory" =>
            held_in_memory(cache) + (file.passed + Overhead) <= cache.limits.mem
      BY <1>3, <1>4, <1>5, <2>1 DEF Promised
    <2>4. held_in_memory(cache) + 0 <= cache.limits.mem
      BY <1>1, <1>4 DEF Bounded
    <2>. QED BY <1>1, <1>2, <1>5, <2>2, <2>3, <2>4 DEF WithinPolicy, Bounded
  <1>6. CASE ~ (file # NoFile /\ file.spool.tier # "none" /\ file.passed > 0)
    <2>1. held(cache) + 0 <= cache.limits.total /\ held_in_memory(cache) + 0 <= cache.limits.mem
      BY <1>1, <1>4 DEF Bounded
    <2>. QED BY <1>1, <1>2, <1>6, <2>1 DEF WithinPolicy, Bounded
  <1>. QED BY <1>5, <1>6

-------------------------------------------------------------------------------
(* The bytes of one archive.                                                *)

(* Whether what the container takes comes through the guard: of the stream  *)
(* as it comes, or of a file it never seeks in (Takes).                     *)
Pulling == ~ (rung = "spilled" \/ (rung = "exact" /\ layout.seeks # "never"))

(* How much of the stream the entries up to the i-th are, and how much of   *)
(* it the container has taken.                                              *)
Through(i) == Total(1 .. i, Units(layout))
Consumed == IF entry = 0 THEN 0 ELSE Through(entry - 1) + 1 + InStream(delivered)

ReadTypes ==
  /\ layout \in Layouts /\ asked \in Requests
  /\ tally \in Nat /\ produced \in 0 .. TallyMax /\ charged \in 0 .. TallyMax
  /\ entry \in 0 .. Len(layout.entries) /\ delivered \in Nat
  /\ rung \in {"unopened", "exact", "forward", "spilled"}
  /\ backing \in [mem : Nat, disk : Nat]
  /\ phase \in {"open", "next", "payload", "settle", "drain", "over"}
  /\ failure \in {"none", "corrupt", "limit"}
  /\ outcome \in {"running", "ok", "corrupt", "limit"}
  /\ got \in [DOMAIN layout.entries -> Nat] /\ settled \subseteq 1 .. entry

(* Where the verb is: what each phase has behind it.                        *)
Phased ==
  /\ phase = "open" => rung = "unopened" /\ entry = 0 /\ failure = "none"
  /\ phase \in {"next", "payload", "settle", "drain"} => rung # "unopened"
  /\ phase # "over" <=> outcome = "running"
  /\ phase \in {"payload", "settle"} => entry >= 1
  /\ failure # "none" => phase \in {"settle", "over"}
  /\ phase = "over" /\ failure # "none" => outcome = failure
  /\ phase = "drain" => layout.coded /\ entry = Len(layout.entries)
  /\ rung = "exact" => Seekable

(* What a writer has of each entry: nothing of those to come, all of those  *)
(* reported as read, and of the one at hand what was delivered.             *)
Delivery ==
  /\ entry = 0 => delivered = 0
  /\ entry >= 1 => delivered <= Carried
  /\ phase \in {"payload", "settle"} => got[entry] = delivered /\ entry \notin settled
  /\ \A i \in DOMAIN layout.entries : i > entry => got[i] = 0
  /\ phase = "settle" /\ failure = "none" =>
       delivered = Carried /\ Declared \in {Undeclared, Carried}
  /\ DeliveredWhole

(* What writers have was charged, unless the count is at its end.           *)
Charges ==
  /\ Total(DOMAIN got, got) <= charged \/ charged = TallyMax
  /\ WithinRatio

(* The spool: within its policy, and no more than the stream.               *)
Spools ==
  /\ backing.mem <= Spill.mem /\ Spooled <= Spill.total /\ Spooled <= StreamLength
  /\ phase = "open" => produced = Saturated(Spooled) /\ (~layout.coded => tally = Spooled)
  /\ Spooled # 0 => MustSeek /\ ~Seekable
  /\ rung = "spilled" => Spooled = StreamLength /\ produced = Saturated(StreamLength)

(* The stream: each byte of it taken once, and none but its own.            *)
Streamed ==
  /\ Pulling /\ failure = "none" /\ phase \in {"next", "payload", "settle"} =>
       produced = Saturated(Consumed) /\ (~layout.coded => tally = Consumed)
  /\ Pulling /\ phase = "drain" =>
       produced = Saturated(Through(Len(layout.entries)))
  /\ tally <= layout.size
  /\ WalkedOut => layout.intact /\ produced = Saturated(StreamLength)

ReadInv == ReadTypes /\ Phased /\ Delivery /\ Charges /\ Spools /\ Streamed

(* What an archive and a request are.                                       *)
LEMMA LayoutType ==
  ASSUME ReadTypes
  PROVE  /\ DOMAIN layout.entries = 1 .. Len(layout.entries) /\ Len(layout.entries) \in Nat
         /\ \A i \in 1 .. Len(layout.entries) : layout.entries[i].carries \in Nat
         /\ \A i \in 1 .. Len(layout.entries) :
              layout.entries[i].declared \in Nat \cup {Undeclared}
         /\ layout.tail \in Nat /\ layout.size \in Nat
         /\ layout.coded \in BOOLEAN /\ layout.packed \in BOOLEAN /\ layout.intact \in BOOLEAN
         /\ ~layout.coded => layout.size = StreamLength
  <1>1. /\ layout \in [entries : Seq([declared : Nat \cup {Undeclared}, carries : Nat]),
                       tail : Nat, coded : BOOLEAN, packed : BOOLEAN, intact : BOOLEAN, size : Nat,
                       seeks : {"never", "convert", "always"}]
        /\ ~layout.coded => layout.size = Length(layout)
    BY LayoutsType DEF ReadTypes
  <1>2. layout.entries \in Seq([declared : Nat \cup {Undeclared}, carries : Nat])
    BY <1>1
  <1>3. \A i \in 1 .. Len(layout.entries) :
          layout.entries[i] \in [declared : Nat \cup {Undeclared}, carries : Nat]
    <2>. DEFINE E == [declared : Nat \cup {Undeclared}, carries : Nat]
    <2>1. layout.entries \in Seq(E)
      BY <1>2
    <2>. HIDE DEF E
    <2>2. \A i \in 1 .. Len(layout.entries) : layout.entries[i] \in E
      BY <2>1
    <2>. QED BY <2>2 DEF E
  <1>4. /\ DOMAIN layout.entries = 1 .. Len(layout.entries) /\ Len(layout.entries) \in Nat
    BY <1>2
  <1>. QED BY <1>1, <1>3, <1>4 DEF StreamLength

LEMMA RequestType ==
  ASSUME ReadTypes
  PROVE  /\ asked.ratio \in Nat /\ asked.sized \in BOOLEAN /\ asked.converts \in BOOLEAN
         /\ asked.upTo \in Nat /\ Spill.mem \in Nat /\ Spill.total \in Nat
         /\ TallyMax \in Nat /\ Floor \in Nat
  BY RequestsType DEF ReadTypes, Spill

(* Each byte of the stream is an entry's or the tail's.                     *)
LEMMA UnitsType ==
  ASSUME ReadTypes
  PROVE  \A i \in 1 .. Len(layout.entries) :
           /\ Units(layout)[i] = 1 + InStream(layout.entries[i].carries)
           /\ Units(layout)[i] \in Nat
  BY LayoutType DEF Units, InStream

LEMMA ThroughStep ==
  ASSUME ReadTypes, NEW i \in 1 .. Len(layout.entries)
  PROVE  /\ Through(i - 1) \in Nat /\ Through(i) \in Nat
         /\ Through(i) = Through(i - 1) + 1 + InStream(layout.entries[i].carries)
  <1>1. i \in 1 .. i /\ (1 .. i) \ {i} = 1 .. i - 1 /\ IsFiniteSet(1 .. i)
    <2>1. i \in 1 .. i /\ (1 .. i) \ {i} = 1 .. i - 1
      BY LayoutType
    <2>. QED BY <2>1, FS_Interval
  <1>2. \A j \in 1 .. i : Units(layout)[j] \in Nat
    BY UnitsType, LayoutType
  <1>3. /\ Total((1 .. i) \ {i}, Units(layout)) \in Nat
        /\ Total(1 .. i, Units(layout)) = Total((1 .. i) \ {i}, Units(layout)) + Units(layout)[i]
    BY <1>1, <1>2, TotalWithout
  <1>4. /\ Units(layout)[i] = 1 + InStream(layout.entries[i].carries)
        /\ Units(layout)[i] \in Nat /\ InStream(layout.entries[i].carries) \in Nat
    BY UnitsType, LayoutType DEF InStream
  <1>5. /\ Total(1 .. i - 1, Units(layout)) \in Nat
        /\ Total(1 .. i, Units(layout)) = Total(1 .. i - 1, Units(layout)) + Units(layout)[i]
    BY <1>1, <1>3
  <1>6. /\ Through(i - 1) \in Nat
        /\ Through(i) = Through(i - 1) + Units(layout)[i]
    BY <1>5 DEF Through
  <1>. QED BY <1>4, <1>6

LEMMA ThroughUp ==
  ASSUME ReadTypes, NEW i \in 0 .. Len(layout.entries), NEW j \in i .. Len(layout.entries)
  PROVE  Through(i) \in Nat /\ Through(j) \in Nat /\ Through(i) <= Through(j)
  <1>1. 1 .. i \subseteq 1 .. j /\ IsFiniteSet(1 .. i) /\ IsFiniteSet(1 .. j)
    <2>1. i \in Int /\ j \in Int /\ 1 .. i \subseteq 1 .. j
      BY LayoutType
    <2>. QED BY <2>1, FS_Interval
  <1>2. \A k \in 1 .. j : Units(layout)[k] \in Nat
    BY UnitsType, LayoutType
  <1>3. IsFiniteSet(Parts(1 .. j, Units(layout))) /\ Total(1 .. j, Units(layout)) \in Nat
    BY <1>1, <1>2, TotalType
  <1>4. IsFiniteSet(Parts(1 .. i, Units(layout))) /\ Total(1 .. i, Units(layout)) \in Nat
    BY <1>1, <1>2, TotalType
  <1>5. Parts(1 .. i, Units(layout)) \subseteq Parts(1 .. j, Units(layout))
    BY <1>1 DEF Parts
  <1>6. Cardinality(Parts(1 .. i, Units(layout))) <= Cardinality(Parts(1 .. j, Units(layout)))
    BY <1>3, <1>5, FS_Subset
  <1>. QED BY <1>3, <1>4, <1>6 DEF Through, Total

LEMMA StreamType ==
  ASSUME ReadTypes
  PROVE  /\ Through(0) = 0 /\ Through(Len(layout.entries)) \in Nat /\ StreamLength \in Nat
         /\ StreamLength = Through(Len(layout.entries)) + layout.tail
  <1>1. Through(0) = 0
    <2>1. 1 .. 0 = {}
      OBVIOUS
    <2>. QED BY <2>1, TotalOfNone DEF Through
  <1>2. 0 \in 0 .. Len(layout.entries) /\ Len(layout.entries) \in 0 .. Len(layout.entries)
    BY LayoutType
  <1>3. Through(Len(layout.entries)) \in Nat
    BY <1>2, ThroughUp
  <1>4. StreamLength = Through(Len(layout.entries)) + layout.tail
    BY LayoutType DEF StreamLength, Length, Through
  <1>. QED BY <1>1, <1>3, <1>4, LayoutType

(* What the container has taken, and what is before the next entry.         *)
LEMMA ConsumedType ==
  ASSUME ReadTypes, Delivery
  PROVE  /\ Consumed \in Nat /\ Through(entry) \in Nat /\ Consumed <= StreamLength
         /\ entry = 0 => Consumed = 0 /\ Through(entry) = 0
         /\ entry >= 1 =>
              /\ Carried \in Nat /\ delivered <= Carried
              /\ InStream(Carried - delivered) \in Nat /\ InStream(delivered) \in Nat
              /\ Consumed + InStream(Carried - delivered) = Through(entry)
         /\ Through(entry) <= Through(Len(layout.entries))
         /\ Through(entry) + layout.tail <= StreamLength
  <1>1. entry \in 0 .. Len(layout.entries) /\ delivered \in Nat /\ Len(layout.entries) \in Nat
    BY LayoutType DEF ReadTypes
  <1>2. /\ Through(entry) \in Nat /\ Through(entry) <= Through(Len(layout.entries))
    BY <1>1, ThroughUp
  <1>3. CASE entry = 0
    BY <1>1, <1>2, <1>3, StreamType, LayoutType DEF Consumed
  <1>4. CASE entry >= 1
    <2>1. entry \in 1 .. Len(layout.entries) /\ Carried \in Nat /\ delivered <= Carried
      BY <1>1, <1>4, LayoutType DEF Delivery, Carried
    <2>2. /\ Through(entry - 1) \in Nat
          /\ Through(entry) = Through(entry - 1) + 1 + InStream(Carried)
      BY <2>1, ThroughStep DEF Carried
    <2>3. /\ InStream(Carried - delivered) \in Nat /\ InStream(delivered) \in Nat
          /\ InStream(delivered) + InStream(Carried - delivered) = InStream(Carried)
      BY <1>1, <2>1 DEF InStream
    <2>4. Consumed = Through(entry - 1) + 1 + InStream(delivered)
      BY <1>4 DEF Consumed
    <2>5. Consumed \in Nat /\ Consumed + InStream(Carried - delivered) = Through(entry)
      BY <2>2, <2>3, <2>4
    <2>6. Through(entry) + layout.tail <= StreamLength
      BY <1>2, StreamType, LayoutType
    <2>7. layout.tail \in Nat /\ StreamLength \in Nat
      BY StreamType, LayoutType
    <2>8. Consumed <= StreamLength
      BY <1>2, <2>3, <2>5, <2>6, <2>7
    <2>9. entry # 0
      BY <1>1, <1>4
    <2>. QED BY <1>2, <2>1, <2>3, <2>5, <2>6, <2>8, <2>9
  <1>. QED BY <1>1, <1>3, <1>4

(* saturating_add counts what a count without end would, up to its end.     *)
LEMMA SaturatedType ==
  ASSUME ReadTypes
  PROVE  \A a \in Nat : Saturated(a) \in 0 .. TallyMax /\ Saturated(a) <= a
  BY RequestType DEF Saturated

LEMMA SaturatedAdd ==
  ASSUME ReadTypes
  PROVE  \A a, b \in Nat : Saturated(Saturated(a) + b) = Saturated(a + b)
  BY RequestType DEF Saturated

(* The product of naturals grows with each.                                 *)
LEMMA Longer ==
  ASSUME NEW a \in Nat, NEW b \in Nat, NEW r \in Nat, a <= b
  PROVE  a * r \in Nat /\ b * r \in Nat /\ a * r <= b * r
  <1>1. \A x, y \in Nat : x * y \in Nat
    OBVIOUS
  <1>2. \A x, d, y \in Nat : (x + d) * y = x * y + d * y
    OBVIOUS
  <1>3. b - a \in Nat /\ b = a + (b - a)
    OBVIOUS
  <1>4. b * r = a * r + (b - a) * r
    BY <1>2, <1>3
  <1>5. a * r \in Nat /\ (b - a) * r \in Nat
    BY <1>1, <1>3
  <1>. QED BY <1>4, <1>5

(* The ceiling never falls.                                                 *)
LEMMA CeilingType == ASSUME ReadTypes PROVE Ceiling \in Nat
  <1>1. (IF asked.sized THEN layout.size ELSE tally) * asked.ratio \in Nat
    <2>1. (IF asked.sized THEN layout.size ELSE tally) \in Nat /\ asked.ratio \in Nat
      BY LayoutType, RequestType DEF ReadTypes
    <2>. QED BY <2>1, Longer
  <1>2. Saturated((IF asked.sized THEN layout.size ELSE tally) * asked.ratio) \in Nat
    BY <1>1, SaturatedType
  <1>. QED BY <1>2, RequestType DEF Ceiling

LEMMA CeilingUp ==
  ASSUME ReadTypes, UNCHANGED <<layout, asked>>, tally' \in Nat, tally <= tally'
  PROVE  Ceiling' \in Nat /\ Ceiling <= Ceiling'
  <1>. DEFINE a == (IF asked.sized THEN layout.size ELSE tally) * asked.ratio
              b == (IF asked.sized THEN layout.size ELSE tally') * asked.ratio
  <1>1. a \in Nat /\ b \in Nat /\ a <= b
    <2>1. /\ (IF asked.sized THEN layout.size ELSE tally) \in Nat
          /\ (IF asked.sized THEN layout.size ELSE tally') \in Nat
          /\ (IF asked.sized THEN layout.size ELSE tally)
               <= (IF asked.sized THEN layout.size ELSE tally')
          /\ asked.ratio \in Nat
      BY LayoutType, RequestType DEF ReadTypes
    <2>. QED BY <2>1, Longer
  <1>2. /\ Ceiling = IF Saturated(a) < Floor THEN Floor ELSE Saturated(a)
        /\ Ceiling' = IF Saturated(b) < Floor THEN Floor ELSE Saturated(b)
    BY DEF Ceiling, Saturated
  <1>. HIDE DEF a, b
  <1>3. Saturated(a) \in Nat /\ Saturated(b) \in Nat /\ Saturated(a) <= Saturated(b)
    BY <1>1, RequestType DEF Saturated
  <1>. QED BY <1>2, <1>3, RequestType

LEMMA ValuesOf ==
  ASSUME ReadTypes
  PROVE  /\ DOMAIN got = 1 .. Len(layout.entries)
         /\ \A i \in DOMAIN got : got[i] \in Nat
  <1>. DEFINE D == 1 .. Len(layout.entries)
  <1>1. got \in [D -> Nat]
    BY LayoutType DEF ReadTypes
  <1>. HIDE DEF D
  <1>2. DOMAIN got = D /\ \A i \in DOMAIN got : got[i] \in Nat
    BY <1>1
  <1>. QED BY <1>2 DEF D

(* What writers have of the payloads, and one more read.                    *)
LEMMA GotType == ASSUME ReadTypes PROVE Total(DOMAIN got, got) \in Nat
  <1>1. DOMAIN got = 1 .. Len(layout.entries) /\ \A i \in DOMAIN got : got[i] \in Nat
    BY ValuesOf
  <1>2. IsFiniteSet(DOMAIN got)
    <2>1. 1 \in Int /\ Len(layout.entries) \in Int
      BY LayoutType
    <2>2. IsFiniteSet(1 .. Len(layout.entries))
      BY <2>1, FS_Interval
    <2>. QED BY <1>1, <2>2
  <1>. QED BY <1>1, <1>2, TotalType

LEMMA GotMore ==
  ASSUME ReadTypes, entry \in DOMAIN got, NEW n \in Nat
  PROVE  LET more == [got EXCEPT ![entry] = @ + n]
         IN  Total(DOMAIN more, more) = Total(DOMAIN got, got) + n
  <1>. DEFINE more == [got EXCEPT ![entry] = @ + n]
              D == DOMAIN got
  <1>1. D = 1 .. Len(layout.entries) /\ \A i \in D : got[i] \in Nat
    BY ValuesOf
  <1>2. IsFiniteSet(D)
    <2>1. 1 \in Int /\ Len(layout.entries) \in Int
      BY LayoutType
    <2>2. IsFiniteSet(1 .. Len(layout.entries))
      BY <2>1, FS_Interval
    <2>. QED BY <1>1, <2>2
  <1>3. DOMAIN more = D /\ entry \in D
    OBVIOUS
  <1>4. \A i \in D : more[i] = IF i = entry THEN got[entry] + n ELSE got[i]
    OBVIOUS
  <1>5. \A i \in D : more[i] \in Nat
    BY <1>1, <1>4
  <1>6. \A i \in D \ {entry} : more[i] = got[i]
    BY <1>4
  <1>. HIDE DEF more, D
  <1>7. Total(D \ {entry}, more) = Total(D \ {entry}, got)
    BY <1>6, TotalSame
  <1>8. /\ Total(D \ {entry}, got) \in Nat
        /\ Total(D, got) = Total(D \ {entry}, got) + got[entry]
    BY <1>1, <1>2, <1>3, TotalWithout
  <1>9. Total(D, more) = Total(D \ {entry}, more) + more[entry]
    BY <1>2, <1>3, <1>5, TotalWithout
  <1>10. more[entry] = got[entry] + n /\ got[entry] \in Nat
    BY <1>1, <1>3, <1>4
  <1>11. Total(D, more) = Total(D, got) + n
    BY <1>7, <1>8, <1>9, <1>10
  <1>. QED BY <1>3, <1>11 DEF more, D

(* As the file is read nothing that was within the ratio goes past it.      *)
LEMMA RatioKept ==
  ASSUME ReadTypes, WithinRatio, UNCHANGED <<layout, asked, got>>, tally' \in Nat, tally <= tally'
  PROVE  WithinRatio'
  <1>1. /\ Ceiling \in Nat /\ Ceiling' \in Nat /\ Ceiling <= Ceiling'
        /\ Total(DOMAIN got, got) \in Nat /\ TallyMax \in Nat
    BY CeilingType, CeilingUp, GotType, RequestType
  <1>2. Total(DOMAIN got, got)' = Total(DOMAIN got, got)
    OBVIOUS
  <1>. QED BY <1>1, <1>2 DEF WithinRatio

(* The container takes n bytes that are still to come.                      *)
LEMMA TakesSound ==
  ASSUME ReadInv, phase \in {"next", "payload"}, UNCHANGED layout,
         NEW n \in Nat, Consumed + n <= StreamLength, Takes(n)
  PROVE  /\ tally' \in Nat /\ tally <= tally' /\ tally' <= layout.size
         /\ produced' \in 0 .. TallyMax
         /\ Pulling => /\ produced' = Saturated(Consumed + n)
                       /\ ~layout.coded => tally' = Consumed + n
         /\ ~Pulling => produced' = produced /\ tally' = tally
  <1>1. /\ ReadTypes /\ Delivery /\ tally \in Nat /\ produced \in 0 .. TallyMax
        /\ tally <= layout.size /\ failure = "none"
    BY DEF ReadInv, ReadTypes, Phased, Streamed
  <1>2. Consumed \in Nat /\ Consumed + n \in Nat
    BY <1>1, ConsumedType
  <1>3. CASE Pulling
    <2>1. /\ produced' = Saturated(produced + n)
          /\ tally' = IF layout.coded THEN tally ELSE tally + n
      BY <1>3 DEF Takes, Pulls, Pulling
    <2>2. produced = Saturated(Consumed) /\ (~layout.coded => tally = Consumed)
      BY <1>1, <1>3 DEF ReadInv, Streamed
    <2>3. produced' = Saturated(Consumed + n)
      BY <1>1, <1>2, <2>1, <2>2, SaturatedAdd
    <2>4. produced' \in 0 .. TallyMax
      BY <1>1, <1>2, <2>3, SaturatedType
    <2>5. /\ layout.size \in Nat /\ layout.coded \in BOOLEAN
          /\ ~layout.coded => layout.size = StreamLength
      BY <1>1, LayoutType
    <2>6. CASE layout.coded
      BY <1>1, <1>3, <2>1, <2>3, <2>4, <2>6
    <2>7. CASE ~layout.coded
      BY <1>1, <1>2, <1>3, <2>1, <2>2, <2>3, <2>4, <2>5, <2>7
    <2>. QED BY <2>6, <2>7
  <1>4. CASE ~Pulling
    <2>1. produced' = produced /\ tally' = tally
      BY <1>4 DEF Takes, Pulling
    <2>. QED BY <1>1, <1>4, <2>1
  <1>. QED BY <1>3, <1>4

(* At the start nothing is read.                                            *)
LEMMA ReadStart == ReadInit => ReadInv
  <1>. SUFFICES ASSUME ReadInit PROVE ReadInv
    OBVIOUS
  <1>1. ReadTypes
    <2>1. layout \in Layouts /\ asked \in Requests
      BY DEF ReadInit
    <2>2. layout.entries \in Seq([declared : Nat \cup {Undeclared}, carries : Nat])
      BY <2>1, LayoutsType
    <2>3. Len(layout.entries) \in Nat
      BY <2>2
    <2>4. TallyMax \in Nat
      BY RequestsType
    <2>5. got \in [DOMAIN layout.entries -> Nat] /\ settled \subseteq 1 .. entry
      BY DEF ReadInit
    <2>. QED BY <2>1, <2>3, <2>4, <2>5 DEF ReadInit, ReadTypes
  <1>2. Phased
    BY DEF ReadInit, Phased
  <1>3. Delivery
    BY DEF ReadInit, Delivery, DeliveredWhole
  <1>4. Charges
    <2>1. Total(DOMAIN got, got) = 0
      <3>1. \A i \in DOMAIN got : got[i] = 0
        BY DEF ReadInit
      <3>2. Parts(DOMAIN got, got) = Parts({}, got)
        BY <3>1 DEF Parts
      <3>. QED BY <3>2, TotalOfNone DEF Total
    <2>2. 0 <= Ceiling
      BY <1>1, CeilingType
    <2>. QED BY <2>1, <2>2 DEF ReadInit, Charges, WithinRatio
  <1>5. Spooled = 0 /\ Saturated(0) = 0
    BY RequestsType DEF ReadInit, Spooled, Saturated
  <1>6. Spools
    BY <1>1, <1>5, RequestType, StreamType DEF ReadInit, Spools
  <1>7. Streamed
    BY <1>1, LayoutType DEF ReadInit, Streamed, WalkedOut
  <1>. QED BY <1>1, <1>2, <1>3, <1>4, <1>6, <1>7 DEF ReadInv

(* What the archive and the request fix.                                    *)
LEMMA Fixed ==
  ASSUME UNCHANGED <<layout, asked>>
  PROVE  /\ StreamLength' = StreamLength /\ Seekable' = Seekable /\ MustSeek' = MustSeek
         /\ Spill' = Spill
  BY DEF StreamLength, Seekable, MustSeek, Spill

LEMMA ReadStutter == ASSUME ReadInv, UNCHANGED readVars PROVE ReadInv'
  <1>1. ReadTypes' /\ Phased'
    BY DEF readVars, ReadInv, ReadTypes, Phased, Seekable
  <1>2. Delivery'
    BY DEF readVars, ReadInv, Delivery, Carried, Declared, DeliveredWhole
  <1>3. Charges'
    BY DEF readVars, ReadInv, Charges, WithinRatio, Ceiling, Saturated
  <1>4. Spools'
    BY Fixed DEF readVars, ReadInv, Spools, Spooled, Saturated
  <1>5. Streamed'
    BY Fixed DEF readVars, ReadInv, Streamed, Pulling, Saturated, Consumed, Through, InStream, WalkedOut
  <1>. QED BY <1>1, <1>2, <1>3, <1>4, <1>5 DEF ReadInv

LEMMA RefillKeeps == ASSUME ReadInv, Refill PROVE ReadInv'
  <1>1. /\ UNCHANGED <<layout, asked, produced, charged, entry, rung, backing, delivered, phase,
                       failure, outcome, got, settled>>
        /\ tally' \in tally + 1 .. layout.size /\ layout.coded
    BY DEF Refill
  <1>2. tally \in Nat /\ layout.size \in Nat
    BY LayoutType DEF ReadInv, ReadTypes
  <1>3. tally' \in Nat /\ tally <= tally' /\ tally' <= layout.size
    BY <1>1, <1>2
  <1>4. ReadTypes' /\ Phased'
    BY <1>1, <1>3 DEF ReadInv, ReadTypes, Phased, Seekable
  <1>5. Delivery'
    BY <1>1 DEF ReadInv, Delivery, Carried, Declared, DeliveredWhole
  <1>6. Charges'
    <2>1. WithinRatio'
      BY <1>1, <1>3, RatioKept DEF ReadInv, Charges
    <2>. QED BY <1>1, <2>1 DEF ReadInv, Charges
  <1>7. Spools'
    BY <1>1, Fixed DEF ReadInv, Spools, Spooled, Saturated
  <1>8. Streamed'
    BY <1>1, <1>3, Fixed
       DEF ReadInv, Streamed, Pulling, Saturated, Consumed, Through, InStream, WalkedOut
  <1>. QED BY <1>4, <1>5, <1>6, <1>7, <1>8 DEF ReadInv

LEMMA OpenKeeps == ASSUME ReadInv, OpenInPlace PROVE ReadInv'
  <1>1. /\ UNCHANGED <<layout, asked, tally, produced, charged, entry, backing, delivered, failure,
                       outcome, got, settled>>
        /\ phase = "open" /\ phase' = "next"
        /\ Seekable \/ ~MustSeek
        /\ rung' = IF Seekable THEN "exact" ELSE "forward"
    BY DEF OpenInPlace, In
  <1>2. ReadTypes' /\ Phased'
    BY <1>1 DEF ReadInv, ReadTypes, Phased, Seekable
  <1>3. Delivery'
    BY <1>1 DEF ReadInv, Delivery, Carried, Declared, DeliveredWhole
  <1>4. Charges'
    BY <1>1 DEF ReadInv, Charges, WithinRatio, Ceiling, Saturated
  <1>5. Spools'
    BY <1>1, Fixed DEF ReadInv, Spools, Spooled, Saturated
  <1>6. Streamed'
    <2>1. Spooled = 0 /\ Consumed' = 0
      BY <1>1 DEF ReadInv, Phased, Spools, Consumed
    <2>2. produced = Saturated(0) /\ (~layout.coded => tally = 0)
      BY <1>1, <2>1 DEF ReadInv, Spools
    <2>. QED BY <1>1, <2>1, <2>2 DEF ReadInv, Phased, Streamed, Saturated, WalkedOut
  <1>. QED BY <1>2, <1>3, <1>4, <1>5, <1>6 DEF ReadInv

LEMMA PassOverKeeps == ASSUME ReadInv, PassOver PROVE ReadInv'
  <1>1. /\ UNCHANGED <<layout, asked, rung, backing, tally, produced, charged, entry, delivered,
                       failure, outcome, got, settled>>
        /\ phase = "payload" /\ phase' = "next"
    BY DEF PassOver, Opened, In
  <1>2. ReadTypes' /\ Phased'
    BY <1>1 DEF ReadInv, ReadTypes, Phased, Seekable
  <1>3. Delivery'
    BY <1>1 DEF ReadInv, Delivery, Carried, Declared, DeliveredWhole
  <1>4. Charges'
    BY <1>1 DEF ReadInv, Charges, WithinRatio, Ceiling, Saturated
  <1>5. Spools'
    BY <1>1, Fixed DEF ReadInv, Spools, Spooled, Saturated
  <1>6. Streamed'
    BY <1>1, Fixed
       DEF ReadInv, Phased, Streamed, Pulling, Saturated, Consumed, Through, InStream, WalkedOut
  <1>. QED BY <1>2, <1>3, <1>4, <1>5, <1>6 DEF ReadInv

LEMMA StopKeeps == ASSUME ReadInv, StopEarly PROVE ReadInv'
  <1>1. /\ UNCHANGED <<layout, asked, rung, backing, tally, produced, charged, entry, delivered,
                       failure, got, settled>>
        /\ phase = "next" /\ phase' = "over" /\ outcome' = "ok"
        /\ asked.upTo # 0 /\ entry = asked.upTo
    BY DEF StopEarly, Opened, In, Ends
  <1>2. ReadTypes' /\ Phased'
    BY <1>1 DEF ReadInv, ReadTypes, Phased, Seekable
  <1>3. Delivery'
    BY <1>1 DEF ReadInv, Delivery, Carried, Declared, DeliveredWhole
  <1>4. Charges'
    BY <1>1 DEF ReadInv, Charges, WithinRatio, Ceiling, Saturated
  <1>5. Spools'
    BY <1>1, Fixed DEF ReadInv, Spools, Spooled, Saturated
  <1>6. Streamed'
    <2>1. ~ WalkedOut'
      <3>1. entry \in Nat
        BY LayoutType DEF ReadInv, ReadTypes
      <3>. QED BY <1>1, <3>1 DEF WalkedOut
    <2>. QED BY <1>1, <2>1 DEF ReadInv, Streamed
  <1>. QED BY <1>2, <1>3, <1>4, <1>5, <1>6 DEF ReadInv

LEMMA SettleKeeps == ASSUME ReadInv, Settle PROVE ReadInv'
  <1>1. /\ UNCHANGED <<layout, asked, rung, backing, tally, produced, charged, entry, delivered,
                       failure, got>>
        /\ phase = "settle"
        /\ IF failure = "none"
           THEN phase' = "next" /\ settled' = settled \cup {entry} /\ outcome' = outcome
           ELSE phase' = "over" /\ outcome' = failure /\ settled' = settled
    BY DEF Settle, Opened, In, Ends
  <1>2. entry \in 1 .. Len(layout.entries) /\ settled \subseteq 1 .. entry /\ entry \in 1 .. entry
    BY <1>1, LayoutType DEF ReadInv, ReadTypes, Phased
  <1>3. ReadTypes'
    <2>1. settled' \subseteq 1 .. entry'
      BY <1>1, <1>2
    <2>2. outcome' \in {"running", "ok", "corrupt", "limit"} /\ phase' \in {"next", "over"}
      BY <1>1 DEF ReadInv, ReadTypes
    <2>. QED BY <1>1, <2>1, <2>2 DEF ReadInv, ReadTypes
  <1>4. Phased'
    <2>1. outcome = "running" /\ failure \in {"none", "corrupt", "limit"}
      BY <1>1 DEF ReadInv, Phased, ReadTypes
    <2>. QED BY <1>1, <2>1 DEF ReadInv, Phased, Seekable
  <1>5. Delivery'
    <2>1. DeliveredWhole'
      <3>1. CASE failure = "none"
        <4>1. /\ delivered = Carried /\ Declared \in {Undeclared, Carried} /\ got[entry] = delivered
              /\ DeliveredWhole
          BY <1>1, <3>1 DEF ReadInv, Delivery
        <4>2. /\ got[entry] = layout.entries[entry].carries
              /\ asked.converts =>
                   layout.entries[entry].declared \in {Undeclared, layout.entries[entry].carries}
          BY <4>1 DEF Carried, Declared
        <4>. QED BY <1>1, <3>1, <4>1, <4>2 DEF DeliveredWhole
      <3>2. CASE failure # "none"
        BY <1>1, <3>2 DEF ReadInv, Delivery, DeliveredWhole
      <3>. QED BY <3>1, <3>2
    <2>2. phase' \notin {"payload", "settle"}
      BY <1>1
    <2>. QED BY <1>1, <2>1, <2>2 DEF ReadInv, Delivery, Carried
  <1>6. Charges'
    BY <1>1 DEF ReadInv, Charges, WithinRatio, Ceiling, Saturated
  <1>7. Spools'
    BY <1>1, Fixed DEF ReadInv, Spools, Spooled, Saturated
  <1>8. Streamed'
    <2>1. ~ WalkedOut'
      BY <1>1 DEF ReadInv, Phased, ReadTypes, WalkedOut
    <2>. QED BY <1>1, <2>1, Fixed
         DEF ReadInv, Streamed, Pulling, Saturated, Consumed, Through, InStream
  <1>. QED BY <1>3, <1>4, <1>5, <1>6, <1>7, <1>8 DEF ReadInv

LEMMA SpoolKeeps == ASSUME ReadInv, NEW n \in 1 .. 2, SpoolSome(n) PROVE ReadInv'
  <1>. DEFINE total == Spooled + n
  <1>1. /\ UNCHANGED <<layout, asked, charged, entry, rung, delivered, failure, got, settled>>
        /\ phase = "open" /\ MustSeek /\ ~Seekable /\ total <= StreamLength /\ Pulls(n)
        /\ IF Refused \/ total > Spill.total
           THEN phase' = "over" /\ outcome' = "limit" /\ backing' = backing
           ELSE /\ backing' = IF backing.disk = 0 /\ total <= Spill.mem
                              THEN [mem |-> total, disk |-> 0] ELSE [mem |-> 0, disk |-> total]
                /\ UNCHANGED <<phase, outcome>>
    BY DEF SpoolSome, In, Ends
  <1>2. /\ ReadTypes /\ rung = "unopened" /\ entry = 0 /\ failure = "none" /\ outcome = "running"
        /\ produced = Saturated(Spooled) /\ (~layout.coded => tally = Spooled)
        /\ tally <= layout.size /\ tally \in Nat /\ backing \in [mem : Nat, disk : Nat]
    BY <1>1 DEF ReadInv, ReadTypes, Phased, Spools, Streamed
  <1>3. Spooled \in Nat /\ total \in Nat
    BY <1>2 DEF Spooled
  <1>4. produced' = Saturated(total) /\ produced' \in 0 .. TallyMax
    <2>1. produced' = Saturated(produced + n)
      BY <1>1 DEF Pulls
    <2>2. n \in Nat
      OBVIOUS
    <2>3. produced' = Saturated(total)
      BY <1>2, <1>3, <2>1, <2>2, SaturatedAdd
    <2>. QED BY <1>2, <1>3, <2>3, SaturatedType
  <1>5. /\ tally' \in Nat /\ tally <= tally' /\ tally' <= layout.size
        /\ ~layout.coded => tally' = total
    <2>1. tally' = IF layout.coded THEN tally ELSE tally + n
      BY <1>1 DEF Pulls
    <2>2. ~layout.coded => layout.size = StreamLength
      BY <1>2, LayoutType
    <2>3. CASE layout.coded
      BY <1>2, <2>1, <2>3
    <2>4. CASE ~layout.coded
      BY <1>1, <1>2, <1>3, <2>1, <2>2, <2>4
    <2>. QED BY <2>3, <2>4
  <1>6. /\ backing' \in [mem : Nat, disk : Nat] /\ backing'.mem <= Spill.mem
        /\ backing'.mem + backing'.disk <= Spill.total
        /\ backing'.mem + backing'.disk <= StreamLength
        /\ phase' = "open" => backing'.mem + backing'.disk = total
    <2>1. backing.mem <= Spill.mem /\ Spooled <= Spill.total /\ Spooled <= StreamLength
      BY DEF ReadInv, Spools
    <2>2. Spill.mem \in Nat /\ Spill.total \in Nat
      BY <1>2, RequestType
    <2>3. CASE backing' = backing /\ phase' = "over"
      BY <1>2, <2>1, <2>3 DEF Spooled
    <2>4. CASE backing' = [mem |-> total, disk |-> 0] /\ total <= Spill.mem /\ total <= Spill.total
      BY <1>1, <1>3, <2>4
    <2>5. CASE backing' = [mem |-> 0, disk |-> total] /\ total <= Spill.total
      BY <1>1, <1>3, <2>2, <2>5
    <2>. HIDE DEF total
    <2>. QED BY <1>1, <1>3, <2>2, <2>3, <2>4, <2>5
  <1>. HIDE DEF total
  <1>7. ReadTypes' /\ Phased'
    <2>1. phase' \in {"open", "over"} /\ outcome' \in {"running", "limit"}
      BY <1>1, <1>2
    <2>2. ReadTypes'
      BY <1>1, <1>4, <1>5, <1>6, <2>1 DEF ReadInv, ReadTypes
    <2>. QED BY <1>1, <1>2, <2>2, <2>1 DEF Phased, Seekable
  <1>8. Delivery'
    <2>1. phase' \in {"open", "over"}
      BY <1>1
    <2>. QED BY <1>1, <2>1 DEF ReadInv, Delivery, Carried, DeliveredWhole
  <1>9. Charges'
    <2>1. WithinRatio'
      BY <1>1, <1>2, <1>5, RatioKept DEF ReadInv, Charges
    <2>. QED BY <1>1, <2>1 DEF ReadInv, Charges
  <1>10. Spools'
    <2>1. Spooled' = backing'.mem + backing'.disk
      BY DEF Spooled
    <2>2. rung' # "spilled" /\ MustSeek' /\ ~Seekable'
      BY <1>1, <1>2, Fixed
    <2>3. phase' = "open" => produced' = Saturated(Spooled)' /\ (~layout'.coded => tally' = Spooled')
      BY <1>1, <1>4, <1>5, <1>6, <2>1 DEF Saturated
    <2>. QED BY <1>1, <1>6, <2>1, <2>2, <2>3, Fixed DEF Spools
  <1>11. Streamed'
    <2>1. phase' \in {"open", "over"} /\ outcome' # "ok"
      BY <1>1, <1>2
    <2>. QED BY <1>1, <1>5, <2>1 DEF Streamed, WalkedOut
  <1>. QED BY <1>7, <1>8, <1>9, <1>10, <1>11 DEF ReadInv

LEMMA SpoolEndKeeps == ASSUME ReadInv, SpoolEnds PROVE ReadInv'
  <1>1. /\ UNCHANGED <<layout, asked, tally, produced, charged, entry, backing, delivered, failure,
                       got, settled>>
        /\ phase = "open" /\ Spooled = StreamLength
        /\ \/ rung' = "spilled" /\ phase' = "next" /\ outcome' = outcome
           \/ phase' = "over" /\ outcome' = "corrupt" /\ rung' = rung
    BY DEF SpoolEnds, In, Ends
  <1>2. /\ rung = "unopened" /\ failure = "none" /\ outcome = "running"
        /\ produced = Saturated(StreamLength)
    BY <1>1 DEF ReadInv, Phased, Spools
  <1>3. ReadTypes' /\ Phased'
    BY <1>1, <1>2 DEF ReadInv, ReadTypes, Phased, Seekable
  <1>4. Delivery'
    BY <1>1 DEF ReadInv, Delivery, Carried, Declared, DeliveredWhole
  <1>5. Charges'
    BY <1>1 DEF ReadInv, Charges, WithinRatio, Ceiling, Saturated
  <1>6. Spools'
    BY <1>1, <1>2, Fixed DEF ReadInv, Spools, Spooled, Saturated
  <1>7. Streamed'
    <2>1. /\ phase' \in {"next", "over"} /\ outcome' # "ok"
          /\ phase' # "over" => rung' = "spilled"
      BY <1>1, <1>2
    <2>. QED BY <1>1, <1>2, <2>1 DEF ReadInv, Streamed, Pulling, WalkedOut
  <1>. QED BY <1>3, <1>4, <1>5, <1>6, <1>7 DEF ReadInv

(* What a step that takes of the stream leaves of the parts it does not     *)
(* otherwise change.                                                        *)
LEMMA SpoolsKept ==
  ASSUME ReadInv, phase \in {"next", "payload", "drain"}, phase' # "open",
         UNCHANGED <<layout, asked, rung, backing>>, ~Pulling => produced' = produced
  PROVE  Spools'
  <1>1. rung = "spilled" => produced' = produced
    BY DEF Pulling
  <1>. QED BY <1>1, Fixed DEF ReadInv, Spools, Spooled, Saturated

LEMMA NextKeeps == ASSUME ReadInv, NextEntry PROVE ReadInv'
  <1>. DEFINE n == 1 + (IF entry = 0 THEN 0 ELSE InStream(Carried - delivered))
  <1>1. /\ UNCHANGED <<layout, asked, rung, backing, charged, failure, got, settled>>
        /\ phase = "next" /\ entry < Len(layout.entries) /\ Takes(n)
        /\ \/ phase' = "over" /\ outcome' = "limit" /\ entry' = entry /\ delivered' = delivered
           \/ phase' = "payload" /\ outcome' = outcome /\ entry' = entry + 1 /\ delivered' = 0
    BY DEF NextEntry, Opened, In, Ends
  <1>2. /\ ReadTypes /\ Delivery /\ failure = "none" /\ outcome = "running" /\ rung # "unopened"
        /\ entry \in Nat /\ entry \in 0 .. Len(layout.entries) /\ Len(layout.entries) \in Nat
    BY <1>1, LayoutType DEF ReadInv, ReadTypes, Phased
  <1>3. /\ Consumed \in Nat /\ Through(entry) \in Nat
        /\ entry + 1 \in 1 .. Len(layout.entries)
        /\ Through(entry + 1) \in Nat /\ Through(entry + 1) >= Through(entry) + 1
        /\ Through(entry + 1) <= StreamLength
    <2>1. entry + 1 \in 1 .. Len(layout.entries) /\ (entry + 1) - 1 = entry
      BY <1>1, <1>2
    <2>2. /\ Through((entry + 1) - 1) \in Nat /\ Through(entry + 1) \in Nat
          /\ Through(entry + 1)
               = Through((entry + 1) - 1) + 1 + InStream(layout.entries[entry + 1].carries)
      BY <1>2, <2>1, ThroughStep
    <2>3. InStream(layout.entries[entry + 1].carries) \in Nat
      BY <1>2, <2>1, LayoutType DEF InStream
    <2>4. Through(entry + 1) >= Through(entry) + 1 /\ Through(entry) \in Nat
      BY <2>1, <2>2, <2>3
    <2>5. Through(entry + 1) <= Through(Len(layout.entries))
      <3>1. /\ entry + 1 \in 0 .. Len(layout.entries)
            /\ Len(layout.entries) \in entry + 1 .. Len(layout.entries)
        BY <1>2, <2>1
      <3>. QED BY <1>2, <3>1, ThroughUp
    <2>6. Through(Len(layout.entries)) <= StreamLength /\ StreamLength \in Nat
      BY <1>2, StreamType, LayoutType
    <2>7. Through(Len(layout.entries)) \in Nat /\ Consumed \in Nat
      BY <1>2, StreamType, ConsumedType
    <2>. QED BY <2>1, <2>2, <2>4, <2>5, <2>6, <2>7
  <1>4. n \in Nat /\ Consumed + n = Through(entry) + 1 /\ Consumed + n <= StreamLength
    <2>1. CASE entry = 0
      <3>1. Consumed = 0 /\ Through(entry) = 0 /\ n = 1
        BY <1>2, <2>1, ConsumedType
      <3>. HIDE DEF n
      <3>2. StreamLength \in Nat
        BY <1>2, StreamType
      <3>. QED BY <1>3, <3>1, <3>2
    <2>2. CASE entry # 0
      <3>. DEFINE m == InStream(Carried - delivered)
      <3>1. entry >= 1
        BY <1>2, <2>2
      <3>2. m \in Nat /\ Consumed + m = Through(entry) /\ n = 1 + m
        BY <1>2, <2>2, <3>1, ConsumedType
      <3>3. StreamLength \in Nat
        BY <1>2, StreamType
      <3>. HIDE DEF n, m
      <3>. QED BY <1>3, <3>2, <3>3
    <2>. QED BY <2>1, <2>2
  <1>. HIDE DEF n
  <1>5. /\ tally' \in Nat /\ tally <= tally' /\ tally' <= layout.size
        /\ produced' \in 0 .. TallyMax
        /\ Pulling => /\ produced' = Saturated(Through(entry) + 1)
                      /\ ~layout.coded => tally' = Through(entry) + 1
        /\ ~Pulling => produced' = produced /\ tally' = tally
    <2>1. /\ tally' \in Nat /\ tally <= tally' /\ tally' <= layout.size
          /\ produced' \in 0 .. TallyMax
          /\ Pulling => /\ produced' = Saturated(Consumed + n)
                        /\ ~layout.coded => tally' = Consumed + n
          /\ ~Pulling => produced' = produced /\ tally' = tally
      BY <1>1, <1>4, TakesSound
    <2>. QED BY <1>4, <2>1
  <1>6. ReadTypes'
    <2>1. entry' \in 0 .. Len(layout'.entries) /\ delivered' \in Nat /\ settled' \subseteq 1 .. entry'
      BY <1>1, <1>2, <1>3 DEF ReadTypes
    <2>2. phase' \in {"over", "payload"} /\ outcome' \in {"running", "limit"}
      BY <1>1, <1>2
    <2>. QED BY <1>1, <1>2, <1>5, <2>1, <2>2 DEF ReadTypes
  <1>7. Phased'
    BY <1>1, <1>2 DEF ReadInv, Phased, Seekable
  <1>8. Delivery'
    <2>1. CASE phase' = "over"
      BY <1>1, <2>1 DEF ReadInv, Delivery, Carried, DeliveredWhole
    <2>2. CASE phase' = "payload"
      <3>1. entry' = entry + 1 /\ delivered' = 0 /\ entry + 1 \in DOMAIN layout.entries
        BY <1>1, <1>2, <1>3, <2>2, LayoutType
      <3>2. got[entry + 1] = 0 /\ entry + 1 \notin settled
        BY <1>2, <1>3, <3>1 DEF ReadTypes, Delivery
      <3>3. layout.entries[entry + 1].carries \in Nat
        BY <1>2, <1>3, LayoutType
      <3>4. \A i \in DOMAIN layout.entries : i > entry + 1 => got[i] = 0
        <4>1. \A i \in DOMAIN layout.entries : i \in Nat
          BY <1>2, LayoutType
        <4>. QED BY <1>2, <4>1 DEF Delivery
      <3>5. DeliveredWhole'
        BY <1>1, <1>2 DEF Delivery, DeliveredWhole
      <3>6. entry' # 0 /\ delivered' <= Carried'
        BY <1>1, <1>2, <3>1, <3>3 DEF Carried
      <3>. QED BY <1>1, <2>2, <3>1, <3>2, <3>4, <3>5, <3>6 DEF Delivery
    <2>. QED BY <1>1, <2>1, <2>2
  <1>9. Charges'
    <2>1. WithinRatio'
      BY <1>1, <1>2, <1>5, RatioKept DEF ReadInv, Charges
    <2>. QED BY <1>1, <2>1 DEF ReadInv, Charges
  <1>10. Spools'
    BY <1>1, <1>5, SpoolsKept
  <1>11. Streamed'
    <2>1. CASE phase' = "over"
      <3>1. outcome' # "ok"
        BY <1>1, <2>1
      <3>. QED BY <1>1, <1>5, <2>1, <3>1 DEF Streamed, WalkedOut
    <2>2. CASE phase' = "payload"
      <3>1. Consumed' = Through(entry) + 1
        <4>1. InStream(0) = 0 /\ entry + 1 # 0 /\ (entry + 1) - 1 = entry
          BY <1>2 DEF InStream
        <4>2. Consumed' = Through((entry + 1) - 1) + 1 + InStream(0)
          BY <1>1, <2>2, <4>1 DEF Consumed, Through, InStream
        <4>. QED BY <1>3, <4>1, <4>2
      <3>2. outcome' # "ok" /\ Pulling' = Pulling
        BY <1>1, <1>2, <2>2 DEF Pulling
      <3>. QED BY <1>1, <1>5, <2>2, <3>1, <3>2 DEF Streamed, WalkedOut, Saturated
    <2>. QED BY <1>1, <2>1, <2>2
  <1>. QED BY <1>6, <1>7, <1>8, <1>9, <1>10, <1>11 DEF ReadInv

(* A payload's n more bytes are still to come in the stream.                *)
LEMMA MoreOfPayload ==
  ASSUME ReadTypes, Delivery, entry >= 1, NEW n \in Nat, delivered + n <= Carried
  PROVE  /\ InStream(n) \in Nat /\ Consumed + InStream(n) <= StreamLength
         /\ Consumed + InStream(n) = Through(entry - 1) + 1 + InStream(delivered + n)
  <1>1. /\ Carried \in Nat /\ delivered \in Nat /\ Consumed \in Nat /\ Through(entry) \in Nat
        /\ InStream(Carried - delivered) \in Nat
        /\ Consumed + InStream(Carried - delivered) = Through(entry)
        /\ Through(entry) <= StreamLength /\ StreamLength \in Nat
    <2>1. Through(entry) + layout.tail <= StreamLength /\ layout.tail \in Nat
      BY ConsumedType, LayoutType
    <2>2. Through(entry) \in Nat /\ StreamLength \in Nat
      BY ConsumedType, StreamType
    <2>3. Through(entry) <= StreamLength
      BY <2>1, <2>2
    <2>4. Carried \in Nat /\ delivered \in Nat
      BY ConsumedType DEF ReadTypes
    <2>5. /\ Consumed \in Nat /\ InStream(Carried - delivered) \in Nat
          /\ Consumed + InStream(Carried - delivered) = Through(entry)
      BY ConsumedType
    <2>. QED BY <2>2, <2>3, <2>4, <2>5
  <1>2. InStream(n) \in Nat /\ InStream(n) <= InStream(Carried - delivered)
    BY <1>1 DEF InStream
  <1>3. InStream(delivered + n) = InStream(delivered) + InStream(n) /\ InStream(delivered) \in Nat
    BY <1>1 DEF InStream
  <1>4. Through(entry - 1) \in Nat
    <2>1. entry \in 1 .. Len(layout.entries)
      BY LayoutType DEF ReadTypes
    <2>. QED BY <2>1, ThroughStep
  <1>5. Consumed = Through(entry - 1) + 1 + InStream(delivered)
    <2>1. entry # 0
      BY LayoutType DEF ReadTypes
    <2>. QED BY <2>1 DEF Consumed
  <1>. QED BY <1>1, <1>2, <1>3, <1>4, <1>5

LEMMA ReadKeeps == ASSUME ReadInv, NEW n \in 1 .. 2, ReadSome(n) PROVE ReadInv'
  <1>1. /\ UNCHANGED <<layout, asked, rung, backing, entry, outcome, settled>>
        /\ phase = "payload" /\ delivered + n <= Carried /\ Takes(InStream(n))
        /\ \/ /\ failure' = "limit" /\ phase' = "settle" /\ delivered' = delivered /\ got' = got
              /\ charged' = charged \/ charged' = Saturated(charged + n)
           \/ /\ charged' = Saturated(charged + n) /\ ~ (charged' > Ceiling')
              /\ delivered' = delivered + n /\ got' = [got EXCEPT ![entry] = @ + n]
              /\ phase' = phase /\ failure' = failure
    BY DEF ReadSome, Opened, In, Stash
  <1>2. /\ ReadTypes /\ Delivery /\ failure = "none" /\ outcome = "running" /\ rung # "unopened"
        /\ entry >= 1 /\ entry \in 1 .. Len(layout.entries) /\ Len(layout.entries) \in Nat
        /\ delivered \in Nat /\ charged \in 0 .. TallyMax /\ TallyMax \in Nat /\ Carried \in Nat
        /\ entry \in DOMAIN got /\ n \in Nat /\ charged + n \in Nat
    <2>1. /\ ReadTypes /\ Delivery /\ failure = "none" /\ outcome = "running" /\ rung # "unopened"
          /\ entry >= 1
      BY <1>1 DEF ReadInv, Phased
    <2>2. entry \in 1 .. Len(layout.entries) /\ Len(layout.entries) \in Nat /\ n \in Nat
      BY <2>1, LayoutType DEF ReadTypes
    <2>3. delivered \in Nat /\ charged \in 0 .. TallyMax /\ TallyMax \in Nat
      BY <2>1, RequestType DEF ReadTypes
    <2>4. Carried \in Nat
      BY <2>1, ConsumedType
    <2>5. entry \in DOMAIN got
      BY <2>1, <2>2, ValuesOf
    <2>6. charged + n \in Nat
      BY <2>2, <2>3
    <2>. QED BY <2>1, <2>2, <2>3, <2>4, <2>5, <2>6
  <1>3. /\ InStream(n) \in Nat /\ Consumed + InStream(n) <= StreamLength
        /\ Consumed + InStream(n) = Through(entry - 1) + 1 + InStream(delivered + n)
    BY <1>1, <1>2, MoreOfPayload
  <1>4. /\ tally' \in Nat /\ tally <= tally' /\ tally' <= layout.size
        /\ produced' \in 0 .. TallyMax
        /\ Pulling => /\ produced' = Saturated(Consumed + InStream(n))
                      /\ ~layout.coded => tally' = Consumed + InStream(n)
        /\ ~Pulling => produced' = produced /\ tally' = tally
    BY <1>1, <1>3, TakesSound
  <1>5. charged' \in 0 .. TallyMax
    <2>1. Saturated(charged + n) \in 0 .. TallyMax
      BY <1>2, SaturatedType
    <2>. QED BY <1>1, <1>2, <2>1
  <1>6. /\ got' \in [DOMAIN layout.entries -> Nat]
        /\ got' = got \/ got' = [got EXCEPT ![entry] = @ + n]
        /\ \A i \in DOMAIN layout.entries : i # entry => got'[i] = got[i]
        /\ got'[entry] = delivered'
    <2>1. got \in [DOMAIN layout.entries -> Nat] /\ got[entry] = delivered
      BY <1>1, <1>2 DEF ReadTypes, Delivery
    <2>2. CASE got' = got /\ delivered' = delivered
      BY <2>1, <2>2
    <2>3. CASE got' = [got EXCEPT ![entry] = @ + n] /\ delivered' = delivered + n
      <3>1. entry \in DOMAIN layout.entries
        BY <1>2, LayoutType
      <3>2. got[entry] \in Nat /\ got[entry] + n \in Nat
        BY <1>2, <2>1
      <3>. QED BY <1>2, <2>1, <2>3, <3>1, <3>2
    <2>. QED BY <1>1, <2>2, <2>3
  <1>7. delivered' \in Nat /\ delivered' <= Carried
    BY <1>1, <1>2 DEF Delivery
  <1>8. ReadTypes'
    <2>1. phase' \in {"settle", "payload"} /\ failure' \in {"none", "limit"}
      BY <1>1, <1>2
    <2>. QED BY <1>1, <1>2, <1>4, <1>5, <1>6, <1>7, <2>1 DEF ReadTypes
  <1>9. Phased'
    BY <1>1, <1>2 DEF ReadInv, Phased, Seekable
  <1>10. Delivery'
    <2>1. DeliveredWhole'
      <3>1. entry \notin settled /\ settled \subseteq DOMAIN layout.entries
        <4>1. \A i \in 1 .. entry : i \in 1 .. Len(layout.entries)
          BY <1>2
        <4>. QED BY <1>1, <1>2, <4>1, LayoutType DEF ReadTypes, Delivery
      <3>. QED BY <1>1, <1>2, <1>6, <3>1 DEF Delivery, DeliveredWhole
    <2>2. phase' = "settle" => failure' # "none"
      BY <1>1
    <2>3. \A i \in DOMAIN layout.entries : i > entry => got'[i] = 0
      <3>1. \A i \in DOMAIN layout.entries : i > entry => i # entry
        BY <1>2, LayoutType
      <3>. QED BY <1>2, <1>6, <3>1 DEF Delivery
    <2>4. entry # 0 /\ Carried' = Carried /\ entry \notin settled
      BY <1>1, <1>2 DEF Carried, Delivery
    <2>. QED BY <1>1, <1>6, <1>7, <2>1, <2>2, <2>3, <2>4 DEF Delivery
  <1>11. Charges'
    <2>1. Total(DOMAIN got, got) \in Nat /\ (Total(DOMAIN got, got) <= charged \/ charged = TallyMax)
      BY <1>2, GotType DEF ReadInv, Charges
    <2>2. Saturated(charged + n) = IF charged + n > TallyMax THEN TallyMax ELSE charged + n
      BY DEF Saturated
    <2>3. CASE got' = got
      <3>1. WithinRatio'
        BY <1>1, <1>2, <1>4, <2>3, RatioKept DEF ReadInv, Charges
      <3>2. charged' = charged \/ charged' = Saturated(charged + n)
        BY <1>1
      <3>3. charged <= charged' /\ (charged = TallyMax => charged' = TallyMax)
        BY <1>2, <2>2, <3>2
      <3>4. Total(DOMAIN got, got) <= charged' \/ charged' = TallyMax
        BY <1>2, <1>5, <2>1, <3>3
      <3>. QED BY <2>3, <3>1, <3>4 DEF Charges
    <2>4. CASE /\ charged' = Saturated(charged + n) /\ ~ (charged' > Ceiling')
               /\ got' = [got EXCEPT ![entry] = @ + n]
      <3>1. Total(DOMAIN got', got') = Total(DOMAIN got, got) + n
        BY <1>2, <2>4, GotMore
      <3>2. Total(DOMAIN got', got') <= charged' \/ charged' = TallyMax
        BY <1>2, <2>1, <2>2, <2>4, <3>1
      <3>3. Ceiling' \in Nat
        BY <1>1, <1>2, <1>4, CeilingUp
      <3>4. Total(DOMAIN got', got') <= Ceiling' \/ Ceiling' >= TallyMax
        BY <1>2, <1>5, <2>1, <2>4, <3>1, <3>2, <3>3
      <3>. QED BY <3>2, <3>4 DEF Charges, WithinRatio
    <2>. QED BY <1>1, <2>3, <2>4
  <1>12. Spools'
    BY <1>1, <1>4, SpoolsKept
  <1>13. Streamed'
    <2>1. outcome' # "ok" /\ Pulling' = Pulling
      BY <1>1, <1>2 DEF Pulling
    <2>2. failure' = "none" => Consumed' = Consumed + InStream(n)
      <3>1. CASE failure' = "none"
        <4>1. delivered' = delivered + n /\ entry # 0
          BY <1>1, <1>2, <3>1
        <4>2. Consumed' = Through(entry - 1) + 1 + InStream(delivered + n)
          BY <1>1, <4>1 DEF Consumed, Through, InStream
        <4>. QED BY <1>3, <4>2
      <3>. QED BY <3>1
    <2>3. phase' \notin {"drain", "over"}
      BY <1>1
    <2>. QED BY <1>1, <1>4, <2>1, <2>2, <2>3 DEF Streamed, WalkedOut, Saturated
  <1>. QED BY <1>8, <1>9, <1>10, <1>11, <1>12, <1>13 DEF ReadInv

LEMMA ReadEndKeeps == ASSUME ReadInv, ReadEnd PROVE ReadInv'
  <1>. DEFINE longer == delivered = Declared /\ delivered < Carried
              n == IF longer THEN InStream(1) ELSE 0
  <1>1. /\ UNCHANGED <<layout, asked, rung, backing, entry, outcome, settled, charged, delivered, got>>
        /\ phase = "payload" /\ phase' = "settle" /\ (delivered = Carried \/ longer) /\ Takes(n)
        /\ \/ failure' \in {"limit", "corrupt"}
           \/ failure' = failure /\ ~ (Declared # Undeclared /\ Declared # Carried)
    BY DEF ReadEnd, Opened, In, Stash
  <1>2. /\ ReadTypes /\ Delivery /\ failure = "none" /\ outcome = "running" /\ rung # "unopened"
        /\ entry >= 1
    BY <1>1 DEF ReadInv, Phased
  <1>3. delivered \in Nat /\ Carried \in Nat /\ Consumed \in Nat /\ Consumed <= StreamLength
        /\ StreamLength \in Nat
    BY <1>2, ConsumedType, StreamType DEF ReadTypes
  <1>4. n \in Nat /\ Consumed + n <= StreamLength /\ (n = 0 \/ (n = InStream(1) /\ longer))
    <2>1. CASE longer
      <3>1. delivered + 1 <= Carried
        BY <1>3, <2>1
      <3>. QED BY <1>2, <2>1, <3>1, MoreOfPayload
    <2>2. CASE ~longer
      <3>1. n = 0
        BY <2>2
      <3>. HIDE DEF n
      <3>. QED BY <1>3, <3>1
    <2>. QED BY <2>1, <2>2
  <1>5. failure' = "none" => n = 0 /\ delivered = Carried /\ Declared \in {Undeclared, Carried}
    <2>1. ASSUME failure' = "none"
          PROVE  n = 0 /\ delivered = Carried /\ Declared \in {Undeclared, Carried}
      <3>1. Declared = Undeclared \/ Declared = Carried
        BY <1>1, <2>1
      <3>2. ~longer
        BY <1>3, <3>1 DEF Undeclared
      <3>. QED BY <1>1, <3>1, <3>2
    <2>. QED BY <2>1
  <1>. HIDE DEF n, longer
  <1>6. /\ tally' \in Nat /\ tally <= tally' /\ tally' <= layout.size
        /\ produced' \in 0 .. TallyMax
        /\ Pulling => /\ produced' = Saturated(Consumed + n)
                      /\ ~layout.coded => tally' = Consumed + n
        /\ ~Pulling => produced' = produced /\ tally' = tally
    BY <1>1, <1>4, TakesSound
  <1>7. ReadTypes'
    <2>1. failure' \in {"none", "corrupt", "limit"}
      BY <1>1, <1>2
    <2>. QED BY <1>1, <1>2, <1>6, <2>1 DEF ReadTypes
  <1>8. Phased'
    BY <1>1, <1>2 DEF ReadInv, Phased, Seekable
  <1>9. Delivery'
    <2>1. DeliveredWhole'
      BY <1>1, <1>2 DEF Delivery, DeliveredWhole
    <2>2. Carried' = Carried /\ Declared' = Declared
      BY <1>1 DEF Carried, Declared
    <2>. QED BY <1>1, <1>2, <1>5, <2>1, <2>2 DEF Delivery
  <1>10. Charges'
    <2>1. WithinRatio'
      BY <1>1, <1>2, <1>6, RatioKept DEF ReadInv, Charges
    <2>. QED BY <1>1, <2>1 DEF ReadInv, Charges
  <1>11. Spools'
    BY <1>1, <1>6, SpoolsKept
  <1>12. Streamed'
    <2>1. outcome' # "ok" /\ Pulling' = Pulling /\ Consumed' = Consumed
      BY <1>1, <1>2 DEF Pulling, Consumed, Through, InStream
    <2>2. failure' = "none" => Consumed + n = Consumed
      BY <1>3, <1>5
    <2>. QED BY <1>1, <1>6, <2>1, <2>2 DEF Streamed, WalkedOut, Saturated
  <1>. QED BY <1>7, <1>8, <1>9, <1>10, <1>11, <1>12 DEF ReadInv

LEMMA MarkerKeeps == ASSUME ReadInv, EndMarker PROVE ReadInv'
  <1>. DEFINE n == IF entry = 0 THEN 0 ELSE InStream(Carried - delivered)
  <1>1. /\ UNCHANGED <<layout, asked, rung, backing, entry, settled, charged, delivered, failure, got>>
        /\ phase = "next" /\ entry = Len(layout.entries) /\ Takes(n)
        /\ \/ phase' = "over" /\ outcome' = "limit"
           \/ phase' = "drain" /\ outcome' = outcome /\ layout.coded
           \/ phase' = "over" /\ outcome' = "ok" /\ ~layout.coded
    BY DEF EndMarker, WalkEnds, Opened, In, Ends
  <1>2. /\ ReadTypes /\ Delivery /\ failure = "none" /\ outcome = "running" /\ rung # "unopened"
    BY <1>1 DEF ReadInv, Phased
  <1>3. n \in Nat /\ Consumed + n = Through(entry) /\ Consumed + n <= StreamLength
    <2>1. /\ Consumed \in Nat /\ Through(entry) \in Nat
          /\ entry = 0 => Consumed = 0 /\ Through(entry) = 0
          /\ entry >= 1 => /\ InStream(Carried - delivered) \in Nat
                           /\ Consumed + InStream(Carried - delivered) = Through(entry)
      BY <1>2, ConsumedType
    <2>2. Through(entry) <= StreamLength
      <3>1. Through(entry) + layout.tail <= StreamLength
        BY <1>2, ConsumedType
      <3>2. layout.tail \in Nat /\ StreamLength \in Nat
        BY <1>2, LayoutType, StreamType
      <3>. QED BY <2>1, <3>1, <3>2
    <2>3. entry = 0 \/ entry >= 1
      BY <1>2, LayoutType DEF ReadTypes
    <2>4. CASE entry = 0
      BY <2>1, <2>2, <2>4
    <2>5. CASE entry # 0
      <3>. DEFINE m == InStream(Carried - delivered)
      <3>1. m \in Nat /\ Consumed + m = Through(entry) /\ n = m
        BY <2>1, <2>3, <2>5
      <3>. HIDE DEF n, m
      <3>. QED BY <2>2, <3>1
    <2>. QED BY <2>4, <2>5
  <1>. HIDE DEF n
  <1>4. /\ tally' \in Nat /\ tally <= tally' /\ tally' <= layout.size
        /\ produced' \in 0 .. TallyMax
        /\ Pulling => /\ produced' = Saturated(Through(entry))
                      /\ ~layout.coded => tally' = Through(entry)
        /\ ~Pulling => produced' = produced /\ tally' = tally
    <2>1. /\ tally' \in Nat /\ tally <= tally' /\ tally' <= layout.size
          /\ produced' \in 0 .. TallyMax
          /\ Pulling => /\ produced' = Saturated(Consumed + n)
                        /\ ~layout.coded => tally' = Consumed + n
          /\ ~Pulling => produced' = produced /\ tally' = tally
      BY <1>1, <1>3, TakesSound
    <2>. QED BY <1>3, <2>1
  <1>5. phase' \in {"drain", "over"} /\ outcome' \in {"running", "limit", "ok"}
    BY <1>1, <1>2
  <1>6. ReadTypes'
    BY <1>1, <1>2, <1>4, <1>5 DEF ReadTypes
  <1>7. Phased'
    BY <1>1, <1>2 DEF ReadInv, Phased, Seekable
  <1>8. Delivery'
    BY <1>1, <1>2, <1>5 DEF Delivery, Carried, DeliveredWhole
  <1>9. Charges'
    <2>1. WithinRatio'
      BY <1>1, <1>2, <1>4, RatioKept DEF ReadInv, Charges
    <2>. QED BY <1>1, <2>1 DEF ReadInv, Charges
  <1>10. Spools'
    BY <1>1, <1>4, <1>5, SpoolsKept
  <1>11. Streamed'
    <2>1. ~ WalkedOut' /\ Pulling' = Pulling
      BY <1>1, <1>2 DEF WalkedOut, Pulling
    <2>. QED BY <1>1, <1>4, <1>5, <2>1 DEF Streamed, Through, Saturated
  <1>. QED BY <1>6, <1>7, <1>8, <1>9, <1>10, <1>11 DEF ReadInv

LEMMA DrainKeeps == ASSUME ReadInv, Drain PROVE ReadInv'
  <1>1. /\ UNCHANGED <<layout, asked, rung, backing, entry, settled, charged, delivered, failure, got>>
        /\ phase = "drain" /\ phase' = "over" /\ Takes(layout.tail)
        /\ \/ outcome' \in {"limit", "corrupt"}
           \/ outcome' = "ok" /\ layout.intact
    BY DEF Drain, Opened, In, Ends
  <1>2. /\ ReadTypes /\ Delivery /\ failure = "none" /\ outcome = "running" /\ rung # "unopened"
        /\ layout.coded /\ rung # "exact"
    BY <1>1 DEF ReadInv, Phased, Seekable
  <1>3. tally' = tally /\ tally \in Nat /\ tally <= layout.size
    BY <1>1, <1>2 DEF Takes, Pulls, ReadTypes, ReadInv, Streamed
  <1>4. produced' = Saturated(StreamLength)
    <2>1. CASE rung = "spilled"
      BY <1>1, <2>1 DEF Takes, ReadInv, Spools
    <2>2. CASE rung # "spilled"
      <3>1. /\ produced = Saturated(Through(Len(layout.entries)))
            /\ produced' = Saturated(produced + layout.tail)
        BY <1>1, <1>2, <2>2 DEF ReadInv, Streamed, Pulling, Takes, Pulls
      <3>2. layout.tail \in Nat /\ Through(Len(layout.entries)) \in Nat
        BY <1>2, LayoutType, StreamType
      <3>3. produced' = Saturated(Through(Len(layout.entries)) + layout.tail)
        BY <1>2, <3>1, <3>2, SaturatedAdd
      <3>4. StreamLength = Through(Len(layout.entries)) + layout.tail
        BY <1>2, StreamType
      <3>. QED BY <3>3, <3>4
    <2>. QED BY <2>1, <2>2
  <1>5. produced' \in 0 .. TallyMax
    BY <1>2, <1>4, SaturatedType, StreamType
  <1>6. ReadTypes'
    <2>1. outcome' \in {"running", "ok", "corrupt", "limit"}
      BY <1>1
    <2>. QED BY <1>1, <1>2, <1>3, <1>5, <2>1 DEF ReadTypes
  <1>7. Phased'
    BY <1>1, <1>2 DEF ReadInv, Phased, Seekable
  <1>8. Delivery'
    BY <1>1, <1>2 DEF Delivery, Carried, DeliveredWhole
  <1>9. Charges'
    BY <1>1, <1>3 DEF ReadInv, Charges, WithinRatio, Ceiling, Saturated
  <1>10. Spools'
    <2>1. ~Pulling => produced' = produced
      BY <1>1 DEF Takes, Pulling
    <2>. QED BY <1>1, <2>1, SpoolsKept
  <1>11. Streamed'
    <2>1. Saturated(StreamLength)' = Saturated(StreamLength)
      BY <1>1, Fixed DEF Saturated
    <2>. QED BY <1>1, <1>3, <1>4, <2>1 DEF Streamed, WalkedOut
  <1>. QED BY <1>6, <1>7, <1>8, <1>9, <1>10, <1>11 DEF ReadInv

LEMMA ReadStep == ASSUME ReadInv, ReadNext PROVE ReadInv'
  BY RefillKeeps, OpenKeeps, SpoolKeeps, SpoolEndKeeps, NextKeeps, PassOverKeeps, ReadKeeps,
     ReadEndKeeps, SettleKeeps, StopKeeps, MarkerKeeps, DrainKeeps DEF ReadNext

(* What the run checks follows.                                             *)
LEMMA ReadFollows == ReadInv => ReadTypeOK /\ ReadAsPromised
  <1>. SUFFICES ASSUME ReadInv PROVE ReadTypeOK /\ ReadAsPromised
    OBVIOUS
  <1>1. ReadTypeOK
    <2>1. tally \in 0 .. layout.size
      BY LayoutType DEF ReadInv, ReadTypes, Streamed
    <2>. QED BY <2>1 DEF ReadInv, ReadTypes, ReadTypeOK
  <1>2. ReadAsPromised
    BY DEF ReadInv, Charges, Delivery, Phased, Spools, Streamed, ReadAsPromised
  <1>. QED BY <1>1, <1>2

-------------------------------------------------------------------------------
(* Both levels: a run is of one, and leaves the other's state alone.        *)
ConvertInv == EntriesInv /\ ReadInv

(* Whatever convert is asked, of whatever archive, both invariants hold.    *)
THEOREM ConvertInvariant == ConvertSpec => []ConvertInv
  <1>1. ConvertInit => ConvertInv
    BY EntriesStart, ReadStart DEF ConvertInit, ConvertInv
  <1>2. ConvertInv /\ [ConvertNext]_convertVars => ConvertInv'
    <2>. SUFFICES ASSUME ConvertInv, [ConvertNext]_convertVars PROVE ConvertInv'
      OBVIOUS
    <2>1. CASE Next /\ UNCHANGED readVars
      BY <2>1, EntriesStep, ReadStutter DEF ConvertInv
    <2>2. CASE ReadNext /\ UNCHANGED vars
      BY <2>2, EntriesStutter, ReadStep DEF ConvertInv
    <2>3. CASE UNCHANGED vars /\ UNCHANGED readVars
      BY <2>3, EntriesStutter, ReadStutter DEF ConvertInv
    <2>4. UNCHANGED convertVars => UNCHANGED vars /\ UNCHANGED readVars
      BY DEF convertVars
    <2>5. ConvertNext => (Next /\ UNCHANGED readVars) \/ (ReadNext /\ UNCHANGED vars)
      BY DEF ConvertNext
    <2>. QED BY <2>1, <2>2, <2>3, <2>4, <2>5
  <1>. QED BY <1>1, <1>2, PTL DEF ConvertSpec

(* Every variable of both levels keeps its type: what is kept has a name, a *)
(* number older than the next, a length the policy allows and a tier, and   *)
(* no count of a byte passes its end.                                       *)
THEOREM ConvertTyped == ConvertSpec => []ConvertTypeOK
  <1>1. ConvertInv => ConvertTypeOK
    BY EntriesTypes, ReadFollows DEF ConvertInv, ConvertTypeOK
  <1>. QED BY <1>1, ConvertInvariant, PTL

(* What convert keeps of payloads, with the one being read, stays within    *)
(* --link-cache and its memory, each with its overhead; the counters are    *)
(* the sums of what is kept, however often a name repeats.                  *)
THEOREM CacheWithinPolicy == ConvertSpec => []WithinPolicy
  <1>1. ConvertInv => WithinPolicy
    BY EntriesBounded DEF ConvertInv
  <1>. QED BY <1>1, ConvertInvariant, PTL

(* No link is written whose target the output has nothing of.               *)
THEOREM NoLinkDangles == ConvertSpec => []NeverDangling
  <1>1. ConvertInv => NeverDangling
    BY DEF ConvertInv, EntriesInv
  <1>. QED BY <1>1, ConvertInvariant, PTL

(* Where links are copied each name gets what the source means by it at     *)
(* that moment, never an older payload, through any eviction and supersession. *)
THEOREM LinksCopiedAsMeant == ConvertSpec => CopiedAsMeant
  <1>1. ConvertInv /\ [ConvertNext]_convertVars
        => [\A n \in Names :
              ~ StoresLinks /\ stored'[n] # stored[n] => stored'[n] = meaning'[n]]_vars
    <2>. SUFFICES ASSUME ConvertInv, [ConvertNext]_convertVars, ~ UNCHANGED vars
                  PROVE  Faithful
      BY DEF Faithful
    <2>1. Next
      BY DEF ConvertNext, convertVars
    <2>. QED BY <2>1, EntriesStep DEF ConvertInv
  <1>. QED BY <1>1, ConvertInvariant, PTL DEF ConvertSpec, CopiedAsMeant

(* --max-ratio holds on a pipe as of a file, an entry reported as read is   *)
(* whole, a failure is the answer, a spool stays within its policy and is   *)
(* the whole stream when read, and a walk over a codec that ends well read  *)
(* all of the stream: for every archive, ratio, policy and width of count.  *)
THEOREM ArchivesReadAsPromised == ConvertSpec => []ReadAsPromised
  <1>1. ConvertInv => ReadAsPromised
    BY ReadFollows DEF ConvertInv
  <1>. QED BY <1>1, ConvertInvariant, PTL
===============================================================================
