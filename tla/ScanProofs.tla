------------------------------ MODULE ScanProofs ------------------------------
(***************************************************************************)
(* Proofs about the scans of `salvage`, each on its own.  TarSalvage, for   *)
(* any tape, any block and any limits: no header's chains are read more     *)
(* than MaxChains times in the whole scan although its count is dropped,    *)
(* and once the budget is spent no chain is read.  HeaderScan, for any      *)
(* archives and any limits: no zero is read twice, what is charged stays    *)
(* within the budget, and every entry of the archive is at last found, told *)
(* of, or within a payload that was jumped for a good reason; every entry   *)
(* of a healthy archive is found.  The last needs, layer by layer, what is  *)
(* told (ToldInv), which rows are found (RowsInv), what a twin shows        *)
(* (VariantsInv) and what the headers behind have cost (CostInv).           *)
(***************************************************************************)
EXTENDS TarSalvage, HeaderScan, FiniteSetTheorems, WellFoundedInduction, TLAPS

-------------------------------------------------------------------------------
(* A tar's scan.                                                            *)

TapeFields == {"from", "tracked", "payloadRead", "seen", "lastSeen", "copies",
           "converged", "starved", "capped", "over"}

GoodLog(log, from) ==
    /\ DOMAIN log = {"pending", "settled", "below"}
    /\ log.below \in Nat /\ log.below <= from
    /\ \A t \in log.pending : t \in Offsets /\ t >= log.below

(* What holds of a scan s that has read c[t] chains for each header t: the  *)
(* counts dropped are those the search has passed.                          *)
Good(s, c) ==
    /\ DOMAIN s = TapeFields
    /\ s.from \in Nat
    /\ c \in [Offsets -> Nat]
    /\ \A t \in Offsets : c[t] <= MaxChains
    /\ DOMAIN s.tracked \subseteq Offsets
    /\ s.tracked = [t \in DOMAIN s.tracked |-> s.tracked[t]]
    /\ \A t \in Offsets : t >= s.from => Count(s, t) = c[t]
    /\ IsFiniteSet(DOMAIN s.tracked) /\ Cardinality(DOMAIN s.tracked) <= TrackingCap
    /\ s.converged.pending \cup s.starved.pending \subseteq DOMAIN s.tracked
    /\ GoodLog(s.converged, s.from) /\ GoodLog(s.starved, s.from) /\ GoodLog(s.capped, s.from)

ScanInv == tape \in Tapes /\ Good(scan, chains)

LEMMA OffsetsFinite == IsFiniteSet(Offsets) /\ Offsets \subseteq Nat
  <1>1. FileLen - Block \in Int
    BY LimitsType
  <1>. QED BY <1>1, FS_Interval DEF Offsets

(* Rounding up keeps a length a length.                                     *)
LEMMA RoundUpType == ASSUME NEW n \in Nat PROVE RoundUp(n) \in Nat
  <1>1. Block \in Nat \ {0}
    BY LimitsType
  <1>2. n + Block - 1 \in Nat
    BY <1>1
  <1>3. (n + Block - 1) \div Block \in Nat
    BY <1>1, <1>2
  <1>4. ASSUME NEW q \in Nat PROVE q * Block \in Nat
    BY <1>1, <1>4
  <1>. QED BY <1>3, <1>4 DEF RoundUp

(* A chain only walks forward.                                              *)
LEMMA HopForward ==
    ASSUME tape \in Tapes, NEW p \in Nat, NEW k \in 0 .. MaxExtensions
    PROVE  Hop(p)[k] \in Nat /\ Hop(p)[k] >= p
  <1>1. ASSUME NEW at \in Nat PROVE After(at) \in Nat /\ After(at) >= at
    <2>1. CASE at \in DOMAIN tape
      <3>1. tape[at].span \in Nat
        BY <2>1, TapesType DEF Readings
      <3>2. RoundUp(tape[at].span) \in Nat
        BY <3>1, RoundUpType
      <3>. QED BY <2>1, <3>2, LimitsType DEF After, NextHeader, Payload
    <2>2. CASE at \notin DOMAIN tape
      BY <2>2 DEF After
    <2>. QED BY <2>1, <2>2
  <1>2. /\ After(p) \in Nat /\ After(p) >= p
        /\ After(After(p)) \in Nat /\ After(After(p)) >= After(p)
        /\ After(After(After(p))) \in Nat /\ After(After(After(p))) >= After(After(p))
    BY <1>1
  <1>3. k = 0 \/ k = 1 \/ k = 2 \/ k = 3
    BY DEF MaxExtensions
  <1>. QED BY <1>2, <1>3 DEF Hop, MaxExtensions

(* Dropping the counts the search has passed, and settling the logs there,  *)
(* keeps the scan good, and nothing pending behind the search.              *)
LEMMA TurnGood ==
    ASSUME ScanInv
    PROVE  /\ Good(Turned, chains) /\ Turned.from = scan.from
           /\ Turned.starved.pending \cup Turned.starved.settled
                = scan.starved.pending \cup scan.starved.settled
  <1>. USE DEF ScanInv
  <1>1. Good(scan, chains)
    OBVIOUS
  <1>. DEFINE s == Turned
              kept == {t \in DOMAIN scan.tracked : t >= scan.from}
  <1>2. /\ DOMAIN s = TapeFields /\ s.from = scan.from
        /\ s.tracked = [at \in kept |-> scan.tracked[at]]
        /\ s.converged = SettledBelow(scan.converged, scan.from)
        /\ s.starved = SettledBelow(scan.starved, scan.from)
        /\ s.capped = SettledBelow(scan.capped, scan.from)
    BY <1>1 DEF Turned, Pruned, Good, TapeFields
  <1>3. kept \subseteq DOMAIN scan.tracked /\ DOMAIN s.tracked = kept
    BY <1>2
  <1>4. IsFiniteSet(kept) /\ Cardinality(kept) <= Cardinality(DOMAIN scan.tracked)
    BY <1>1, <1>3, FS_Subset DEF Good
  <1>5. Cardinality(kept) \in Nat /\ Cardinality(DOMAIN scan.tracked) \in Nat
    BY <1>1, <1>4, FS_CardinalityType DEF Good
  <1>6. ASSUME NEW log, GoodLog(log, scan.from)
        PROVE  /\ GoodLog(SettledBelow(log, scan.from), scan.from)
               /\ \A t \in SettledBelow(log, scan.from).pending : t \in log.pending /\ t >= scan.from
    <2>1. scan.from \in Nat
      BY <1>1 DEF Good
    <2>. DEFINE after == SettledBelow(log, scan.from)
    <2>2. /\ DOMAIN after = {"pending", "settled", "below"}
          /\ after.below = IF log.below > scan.from THEN log.below ELSE scan.from
          /\ \A t \in after.pending : t \in log.pending /\ ~(t < scan.from)
      BY DEF SettledBelow
    <2>3. log.below \in Nat /\ log.below <= scan.from /\ \A t \in log.pending : t \in Offsets
      BY <1>6 DEF GoodLog
    <2>. HIDE DEF after
    <2>4. after.below = scan.from
      BY <2>1, <2>2, <2>3
    <2>5. \A t \in after.pending : t \in log.pending /\ t \in Offsets /\ t >= scan.from
      <3>1. ASSUME NEW t \in after.pending PROVE t \in log.pending /\ t \in Offsets /\ t >= scan.from
        <4>1. t \in log.pending /\ t \in Offsets /\ ~(t < scan.from)
          BY <2>2, <2>3
        <4>2. t \in Nat
          BY <4>1, OffsetsFinite
        <4>. QED BY <2>1, <4>1, <4>2
      <3>. QED BY <3>1
    <2>. QED BY <2>1, <2>2, <2>4, <2>5 DEF GoodLog, after
  <1>7. \A t \in Offsets : t >= scan.from => Count(s, t) = chains[t]
    BY <1>1, <1>2, <1>3 DEF Good, Count
  <1>8. s.converged.pending \cup s.starved.pending \subseteq DOMAIN s.tracked
    BY <1>1, <1>2, <1>3, <1>6 DEF Good
  <1>9. s.starved.pending \cup s.starved.settled = scan.starved.pending \cup scan.starved.settled
    BY <1>2 DEF SettledBelow
  <1>10. Cardinality(DOMAIN s.tracked) <= TrackingCap /\ IsFiniteSet(DOMAIN s.tracked)
    BY <1>1, <1>3, <1>4, <1>5, LimitsType DEF Good
  <1>11. s.tracked = [t \in DOMAIN s.tracked |-> s.tracked[t]] /\ DOMAIN s.tracked \subseteq Offsets
    BY <1>1, <1>2, <1>3 DEF Good
  <1>12. /\ GoodLog(s.converged, s.from) /\ GoodLog(s.starved, s.from) /\ GoodLog(s.capped, s.from)
    BY <1>1, <1>2, <1>6 DEF Good
  <1>. HIDE DEF s
  <1>. QED BY <1>1, <1>2, <1>7, <1>8, <1>9, <1>10, <1>11, <1>12 DEF Good, s

(* Whatever the search passes, a good scan stays good.                      *)
LEMMA FurtherGood ==
    ASSUME NEW s, NEW c, NEW to \in Nat, Good(s, c), to >= s.from
    PROVE  Good([s EXCEPT !.from = to], c)
  <1>. DEFINE after == [s EXCEPT !.from = to]
  <1>1. /\ DOMAIN after = TapeFields /\ after.from = to /\ after.tracked = s.tracked
        /\ after.converged = s.converged /\ after.starved = s.starved
        /\ after.capped = s.capped
    BY DEF Good, TapeFields
  <1>2. s.from \in Nat
    BY DEF Good
  <1>3. \A t \in Offsets : t >= to => Count(after, t) = c[t]
    BY <1>1, <1>2, OffsetsFinite DEF Good, Count
  <1>4. ASSUME NEW log, GoodLog(log, s.from) PROVE GoodLog(log, to)
    BY <1>2, <1>4 DEF GoodLog
  <1>5. GoodLog(after.converged, to) /\ GoodLog(after.starved, to) /\ GoodLog(after.capped, to)
    BY <1>1, <1>4 DEF Good
  <1>. HIDE DEF after
  <1>. QED BY <1>1, <1>3, <1>5 DEF Good, after

(* A header at or past the search may be logged.                            *)
LEMMA InsertedGood ==
    ASSUME NEW log, NEW from \in Nat, NEW t \in Offsets, t >= from, GoodLog(log, from)
    PROVE  /\ GoodLog(Inserted(log, t), from)
           /\ Inserted(log, t).pending \subseteq log.pending \cup {t}
  <1>1. t >= log.below
    BY OffsetsFinite DEF GoodLog
  <1>2. CASE Cardinality(log.pending) >= TrackingCap /\ t \notin log.pending
    BY <1>2 DEF Inserted, GoodLog
  <1>3. CASE ~(Cardinality(log.pending) >= TrackingCap /\ t \notin log.pending)
    <2>1. /\ DOMAIN Inserted(log, t) = {"pending", "settled", "below"}
          /\ Inserted(log, t).below = log.below
          /\ Inserted(log, t).pending = log.pending \cup {t}
      BY <1>3 DEF Inserted, GoodLog
    <2>. QED BY <1>1, <2>1 DEF GoodLog
  <1>. QED BY <1>2, <1>3

LEMMA ConvergedGood ==
    ASSUME NEW s, NEW c, NEW t \in DOMAIN s.tracked, t >= s.from, Good(s, c)
    PROVE  Good([s EXCEPT !.converged = Inserted(@, t)], c)
  <1>. DEFINE after == [s EXCEPT !.converged = Inserted(@, t)]
  <1>1. /\ DOMAIN after = TapeFields /\ after.from = s.from /\ after.tracked = s.tracked
        /\ after.converged = Inserted(s.converged, t) /\ after.starved = s.starved
        /\ after.capped = s.capped
    BY DEF Good, TapeFields
  <1>2. t \in Offsets /\ s.from \in Nat /\ GoodLog(s.converged, s.from)
    BY DEF Good
  <1>3. /\ GoodLog(after.converged, s.from)
        /\ after.converged.pending \subseteq s.converged.pending \cup {t}
    BY <1>1, <1>2, InsertedGood
  <1>4. \A u \in Offsets : u >= s.from => Count(after, u) = c[u]
    BY <1>1 DEF Good, Count
  <1>5. after.converged.pending \cup after.starved.pending \subseteq DOMAIN after.tracked
    BY <1>1, <1>3 DEF Good
  <1>. HIDE DEF after
  <1>. QED BY <1>1, <1>3, <1>4, <1>5 DEF Good, after

LEMMA StarvedGood ==
    ASSUME NEW s, NEW c, NEW t \in DOMAIN s.tracked, t >= s.from, Good(s, c)
    PROVE  Good([s EXCEPT !.starved = Inserted(@, t)], c)
  <1>. DEFINE after == [s EXCEPT !.starved = Inserted(@, t)]
  <1>1. /\ DOMAIN after = TapeFields /\ after.from = s.from /\ after.tracked = s.tracked
        /\ after.starved = Inserted(s.starved, t) /\ after.converged = s.converged
        /\ after.capped = s.capped
    BY DEF Good, TapeFields
  <1>2. t \in Offsets /\ s.from \in Nat /\ GoodLog(s.starved, s.from)
    BY DEF Good
  <1>3. /\ GoodLog(after.starved, s.from)
        /\ after.starved.pending \subseteq s.starved.pending \cup {t}
    BY <1>1, <1>2, InsertedGood
  <1>4. \A u \in Offsets : u >= s.from => Count(after, u) = c[u]
    BY <1>1 DEF Good, Count
  <1>5. after.converged.pending \cup after.starved.pending \subseteq DOMAIN after.tracked
    BY <1>1, <1>3 DEF Good
  <1>. HIDE DEF after
  <1>. QED BY <1>1, <1>3, <1>4, <1>5 DEF Good, after

LEMMA CappedGood ==
    ASSUME NEW s, NEW c, NEW t \in Offsets, t >= s.from, Good(s, c)
    PROVE  Good([s EXCEPT !.capped = Inserted(@, t)], c)
  <1>. DEFINE after == [s EXCEPT !.capped = Inserted(@, t)]
  <1>1. /\ DOMAIN after = TapeFields /\ after.from = s.from /\ after.tracked = s.tracked
        /\ after.starved = s.starved /\ after.converged = s.converged
        /\ after.capped = Inserted(s.capped, t)
    BY DEF Good, TapeFields
  <1>2. s.from \in Nat /\ GoodLog(s.capped, s.from)
    BY DEF Good
  <1>3. GoodLog(after.capped, s.from)
    BY <1>1, <1>2, InsertedGood
  <1>4. \A u \in Offsets : u >= s.from => Count(after, u) = c[u]
    BY <1>1 DEF Good, Count
  <1>. HIDE DEF after
  <1>. QED BY <1>1, <1>3, <1>4 DEF Good, after

(* A header that the search may still reach is started on: its count is 0.  *)
LEMMA TrackedGood ==
    ASSUME NEW s, NEW c, NEW t \in Offsets, NEW n \in 0 .. MaxChains, t >= s.from, Good(s, c),
           n = c[t] \/ n = c[t] + 1,
           t \notin DOMAIN s.tracked => Cardinality(DOMAIN s.tracked) < TrackingCap,
           NEW after,
           DOMAIN after = TapeFields, after.from = s.from, after.tracked = Tracking(s, t, n),
           after.starved = s.starved, after.converged = s.converged, after.capped = s.capped
    PROVE  Good(after, [c EXCEPT ![t] = n])
  <1>. DEFINE f == after.tracked
              reads == [c EXCEPT ![t] = n]
  <1>1. /\ DOMAIN f = DOMAIN s.tracked \cup {t}
        /\ f = [u \in DOMAIN f |-> IF u = t THEN n ELSE s.tracked[u]]
    BY DEF Tracking
  <1>. HIDE DEF f
  <1>2. n \in Nat /\ n <= MaxChains
    BY LimitsType
  <1>3. reads \in [Offsets -> Nat] /\ \A u \in Offsets : reads[u] <= MaxChains
    <2>1. c \in [Offsets -> Nat] /\ \A u \in Offsets : c[u] <= MaxChains
      BY DEF Good
    <2>2. \A u \in Offsets : reads[u] = IF u = t THEN n ELSE c[u]
      BY <2>1
    <2>. QED BY <1>2, <2>1, <2>2
  <1>4. ASSUME NEW u \in Offsets, u >= s.from PROVE Count(after, u) = reads[u]
    <2>1. Count(s, u) = c[u] /\ c \in [Offsets -> Nat]
      BY <1>4 DEF Good
    <2>2. CASE u = t
      BY <1>1, <2>1, <2>2 DEF Count, f
    <2>3. CASE u # t
      <3>1. u \in DOMAIN f <=> u \in DOMAIN s.tracked
        BY <1>1, <2>3
      <3>2. u \in DOMAIN f => f[u] = s.tracked[u]
        BY <1>1, <2>3
      <3>. QED BY <1>1, <2>1, <2>3, <3>1, <3>2 DEF Count, f
    <2>. QED BY <2>2, <2>3
  <1>5. IsFiniteSet(DOMAIN f) /\ Cardinality(DOMAIN f) <= TrackingCap
    <2>1. /\ IsFiniteSet(DOMAIN s.tracked) /\ Cardinality(DOMAIN s.tracked) <= TrackingCap
          /\ Cardinality(DOMAIN s.tracked) \in Nat
      BY FS_CardinalityType DEF Good
    <2>2. CASE t \in DOMAIN s.tracked
      BY <1>1, <2>1, <2>2
    <2>3. CASE t \notin DOMAIN s.tracked
      <3>1. Cardinality(DOMAIN f) = Cardinality(DOMAIN s.tracked) + 1 /\ IsFiniteSet(DOMAIN f)
        BY <1>1, <2>1, <2>3, FS_AddElement
      <3>. QED BY <2>1, <2>3, <3>1, LimitsType
    <2>. QED BY <2>2, <2>3
  <1>6. DOMAIN f \subseteq Offsets /\ f = [u \in DOMAIN f |-> f[u]]
    BY <1>1 DEF Good
  <1>7. after.converged.pending \cup after.starved.pending \subseteq DOMAIN after.tracked
    BY <1>1 DEF Good, f
  <1>. HIDE DEF reads
  <1>. QED BY <1>1, <1>3, <1>4, <1>5, <1>6, <1>7 DEF Good, f, reads

(* Where a header found at hit leads: at or past the search.                *)
LEMMA HitForward ==
    ASSUME ScanInv, NEW hit \in DOMAIN tape, Hits(hit), NEW k \in 0 .. MaxExtensions
    PROVE  /\ hit \in Nat /\ hit >= scan.from
           /\ Hop(hit)[k] \in Nat /\ Hop(hit)[k] >= scan.from /\ Hop(hit)[k] >= hit
  <1>1. tape \in Tapes /\ scan.from \in Nat
    BY DEF ScanInv, Good
  <1>2. hit \in Nat /\ hit >= scan.from
    BY <1>1, TapesType, OffsetsFinite DEF Hits, Agreeing
  <1>3. Hop(hit)[k] \in Nat /\ Hop(hit)[k] >= hit
    BY <1>1, <1>2, HopForward
  <1>. QED BY <1>1, <1>2, <1>3

(* What a hit leaves a good scan, passed.                                   *)
LEMMA PassesGood ==
    ASSUME ScanInv, NEW hit \in DOMAIN tape, Hits(hit), NEW s, NEW c,
           Good(s, c), s.from = scan.from, Passes(hit, s), chains' = c
    PROVE  ScanInv'
  <1>0. 0 \in 0 .. MaxExtensions
    BY DEF MaxExtensions
  <1>1. hit \in Nat /\ hit >= scan.from
    BY <1>0, HitForward
  <1>2. scan.from \in Nat
    BY DEF ScanInv, Good
  <1>3. OneFurther(hit) \in Nat /\ OneFurther(hit) >= s.from
    BY <1>1, <1>2 DEF OneFurther
  <1>4. Good([s EXCEPT !.from = OneFurther(hit)], c)
    BY <1>3, FurtherGood
  <1>. QED BY <1>4 DEF ScanInv, Passes

(* A header reached by a chain is where a block agrees.                     *)
LEMMA ReachedOffset ==
    ASSUME tape \in Tapes, NEW s, NEW p, NEW k, Reaches(s, p, k)
    PROVE  Hop(p)[k] \in Offsets
  <1>1. Hop(p)[k] \in DOMAIN tape
    BY DEF Reaches, IsHeader, ClearsGate
  <1>. QED BY <1>1, TapesType

LEMMA InitInv == tape \in Tapes /\ ScanStart => ScanInv
  <1>. SUFFICES ASSUME tape \in Tapes, ScanStart PROVE ScanInv
    OBVIOUS
  <1>1. /\ DOMAIN scan = TapeFields /\ scan.from = 0 /\ DOMAIN scan.tracked = {}
        /\ scan.converged = NoLog /\ scan.starved = NoLog /\ scan.capped = NoLog
        /\ chains = [at \in Offsets |-> 0] /\ scan.tracked = <<>>
    BY DEF ScanStart, TapeFields
  <1>2. IsFiniteSet({}) /\ Cardinality({}) = 0
    BY FS_EmptySet
  <1>3. GoodLog(NoLog, 0)
    BY DEF GoodLog, NoLog
  <1>4. \A t \in Offsets : t >= scan.from => Count(scan, t) = chains[t]
    BY <1>1 DEF Count
  <1>5. scan.converged.pending \cup scan.starved.pending \subseteq DOMAIN scan.tracked
    BY <1>1 DEF NoLog
  <1>6. Cardinality(DOMAIN scan.tracked) <= TrackingCap /\ IsFiniteSet(DOMAIN scan.tracked)
    BY <1>1, <1>2, LimitsType
  <1>7. chains \in [Offsets -> Nat] /\ \A t \in Offsets : chains[t] <= MaxChains
    BY <1>1, LimitsType
  <1>8. scan.tracked = [t \in DOMAIN scan.tracked |-> scan.tracked[t]]
    BY <1>1
  <1>9. DOMAIN scan.tracked \subseteq Offsets /\ scan.from \in Nat
    BY <1>1
  <1>10. /\ GoodLog(scan.converged, scan.from) /\ GoodLog(scan.starved, scan.from)
         /\ GoodLog(scan.capped, scan.from)
    BY <1>1, <1>3
  <1>. QED BY <1>1, <1>4, <1>5, <1>6, <1>7, <1>8, <1>9, <1>10 DEF Good, ScanInv

(* A header that may not be read now stays so: nothing changes but the log. *)
LEMMA RefusesUnreadKeeps ==
    ASSUME ScanInv, NEW hit \in DOMAIN tape, Hits(hit), RefusesUnread(hit)
    PROVE  ScanInv' /\ chains' = chains
  <1>. DEFINE s == Turned
  <1>1. Good(s, chains) /\ s.from = scan.from
    BY TurnGood
  <1>2. PICK k \in 1 .. MaxExtensions :
           /\ StopsRefused(s, hit, k)
           /\ Passes(hit, IF ReadEnough(s, Hop(hit)[k])
                          THEN [s EXCEPT !.converged = Inserted(@, Hop(hit)[k])]
                          ELSE [s EXCEPT !.starved = Inserted(@, Hop(hit)[k])])
    BY DEF RefusesUnread
  <1>. DEFINE t == Hop(hit)[k]
              conv == [s EXCEPT !.converged = Inserted(@, t)]
              star == [s EXCEPT !.starved = Inserted(@, t)]
  <1>. HIDE DEF s
  <1>3. t \in DOMAIN s.tracked
    BY <1>2 DEF StopsRefused, Exhausted, ReadEnough
  <1>4. k \in 0 .. MaxExtensions
    BY DEF MaxExtensions
  <1>5. t >= s.from
    BY <1>1, <1>4, HitForward
  <1>6. chains' = chains
    BY DEF RefusesUnread
  <1>. HIDE DEF t
  <1>7. Good(conv, chains) /\ Good(star, chains)
    BY <1>1, <1>3, <1>5, ConvergedGood, StarvedGood
  <1>8. conv.from = scan.from /\ star.from = scan.from
    BY <1>1 DEF Good, TapeFields
  <1>9. Passes(hit, conv) \/ Passes(hit, star)
    BY <1>2 DEF t
  <1>. HIDE DEF conv, star
  <1>. QED BY <1>6, <1>7, <1>8, <1>9, PassesGood

(* So does one that is left unread when too many are tracked, or the budget *)
(* is short; in the latter case it is tracked with no reading counted.      *)
LEMMA RefusesPayloadsKeeps ==
    ASSUME ScanInv, NEW hit \in DOMAIN tape, Hits(hit), RefusesPayloads(hit)
    PROVE  ScanInv' /\ chains' = chains
  <1>. DEFINE s == Turned
  <1>1. Good(s, chains) /\ s.from = scan.from
    BY TurnGood
  <1>2. PICK k \in 1 .. MaxExtensions :
           LET t == Hop(hit)[k]
           IN  /\ Reaches(s, hit, k)
               /\ \/ /\ CapReached(s, t)
                     /\ Passes(hit, [s EXCEPT !.capped = Inserted(@, t)])
                  \/ /\ ~CapReached(s, t)
                     /\ Passes(hit, [s EXCEPT !.tracked = Tracking(s, t, Count(s, t)),
                                              !.starved = Inserted(@, t)])
    BY DEF RefusesPayloads
  <1>. DEFINE t == Hop(hit)[k]
              capd == [s EXCEPT !.capped = Inserted(@, t)]
              kept == [s EXCEPT !.tracked = Tracking(s, t, Count(s, t))]
              star == [kept EXCEPT !.starved = Inserted(@, t)]
  <1>. HIDE DEF s
  <1>3. t \in Offsets
    BY <1>2, ReachedOffset DEF ScanInv
  <1>4. k \in 0 .. MaxExtensions
    BY DEF MaxExtensions
  <1>5. t >= s.from
    BY <1>1, <1>4, HitForward
  <1>6. chains' = chains
    BY DEF RefusesPayloads
  <1>7. Passes(hit, capd) \/ (~CapReached(s, t) /\ Passes(hit, star))
    <2>1. CASE Passes(hit, capd)
      BY <2>1
    <2>2. CASE ~Passes(hit, capd)
      <3>1. ~CapReached(s, t) /\ Passes(hit, [s EXCEPT !.tracked = Tracking(s, t, Count(s, t)),
                                                       !.starved = Inserted(@, t)])
        BY <1>2, <2>2
      <3>2. [s EXCEPT !.tracked = Tracking(s, t, Count(s, t)), !.starved = Inserted(@, t)] = star
        BY <1>1 DEF Good, TapeFields
      <3>. QED BY <3>1, <3>2
    <2>. QED BY <2>1, <2>2
  <1>. HIDE DEF t
  <1>8. CASE Passes(hit, capd)
    <2>1. Good(capd, chains)
      BY <1>1, <1>3, <1>5, CappedGood
    <2>2. capd.from = scan.from
      BY <1>1 DEF Good, TapeFields
    <2>. HIDE DEF capd
    <2>. QED BY <1>6, <1>8, <2>1, <2>2, PassesGood
  <1>9. CASE ~CapReached(s, t) /\ Passes(hit, star)
    <2>1. /\ Count(s, t) = chains[t] /\ chains[t] \in 0 .. MaxChains
          /\ [chains EXCEPT ![t] = chains[t]] = chains
          /\ Cardinality(DOMAIN s.tracked) \in Nat
      BY <1>1, <1>3, <1>5, FS_CardinalityType, LimitsType DEF Good
    <2>2. t \notin DOMAIN s.tracked => Cardinality(DOMAIN s.tracked) < TrackingCap
      BY <1>9, <2>1, LimitsType DEF CapReached
    <2>3. /\ DOMAIN kept = TapeFields /\ kept.from = s.from
          /\ kept.tracked = Tracking(s, t, Count(s, t))
          /\ kept.starved = s.starved /\ kept.converged = s.converged
          /\ kept.capped = s.capped
      BY <1>1 DEF Good, TapeFields
    <2>. HIDE DEF kept
    <2>5. Good(kept, chains)
      <3>. DEFINE n == Count(s, t)
      <3>1. n \in 0 .. MaxChains /\ n = chains[t] /\ [chains EXCEPT ![t] = n] = chains
        BY <2>1
      <3>. HIDE DEF n
      <3>2. kept.tracked = Tracking(s, t, n)
        BY <2>3 DEF n
      <3>3. Good(kept, [chains EXCEPT ![t] = n])
        BY <1>1, <1>3, <1>5, <2>2, <2>3, <3>1, <3>2, TrackedGood
      <3>. QED BY <3>1, <3>3
    <2>6. kept.from = s.from /\ t \in DOMAIN kept.tracked
      BY <2>3 DEF Tracking
    <2>7. Good(star, chains)
      BY <1>5, <2>5, <2>6, StarvedGood
    <2>8. star.from = scan.from
      BY <1>1, <2>5, <2>6 DEF Good, TapeFields
    <2>. HIDE DEF star
    <2>. QED BY <1>6, <1>9, <2>7, <2>8, PassesGood
  <1>. QED BY <1>7, <1>8, <1>9

(* A candidate's search goes on at or past its header.                      *)
LEMMA ResumesForward ==
    ASSUME NEW p, NEW k, Hop(p)[k] \in Nat, Hop(p)[k] \in DOMAIN tape, tape \in Tapes
    PROVE  /\ ResumesAt(Candidate(p, k)) \in Nat
           /\ ResumesAt(Candidate(p, k)) >= Hop(p)[k]
  <1>. DEFINE at == Hop(p)[k]
              c == Candidate(p, k)
  <1>1. tape[at].span \in Nat
    BY TapesType DEF Readings
  <1>2. RoundUp(tape[at].span) \in Nat
    BY <1>1, RoundUpType
  <1>3. NextHeader(at) \in Nat /\ NextHeader(at) >= at
    BY <1>1, <1>2, LimitsType DEF NextHeader, Payload
  <1>4. c.offset = at /\ c.span = tape[at].span /\ c.next = NextHeader(at)
    BY DEF Candidate
  <1>. HIDE DEF c, at
  <1>5. Advance(c) \in Nat
    BY <1>1, <1>4 DEF Advance
  <1>6. at \in Nat
    BY DEF at
  <1>. QED BY <1>3, <1>4, <1>5, <1>6 DEF ResumesAt, at, c

(* A chain that is read counts for its header, which had room; none is read *)
(* once a chain was refused for the budget.                                 *)
LEMMA ReadsChainKeeps ==
    ASSUME ScanInv, NEW hit \in DOMAIN tape, Hits(hit), ReadsChain(hit)
    PROVE  ScanInv' /\ (Logged(scan.starved) # {} => chains' = chains)
  <1>. DEFINE s == Turned
  <1>1. Good(s, chains) /\ s.from = scan.from /\ Logged(s.starved) = Logged(scan.starved)
    BY TurnGood DEF Logged
  <1>2. PICK k \in 0 .. MaxExtensions :
           LET after == IF HasPayloads(k) THEN Counted(s, hit, k) ELSE s
               c == Candidate(hit, k)
           IN  /\ Reaches(s, hit, k)
               /\ HasPayloads(k) => ~CapReached(s, Hop(hit)[k]) /\ ~OverBudget(s, hit, k)
               /\ IF c.says = "empty" THEN Passes(hit, after)
                  ELSE scan' = [after EXCEPT !.from = ResumesAt(c)] /\ UNCHANGED tape
               /\ chains' = [chains EXCEPT ![Hop(hit)[k]] = @ + (IF HasPayloads(k) THEN 1 ELSE 0)]
    BY DEF ReadsChain
  <1>. DEFINE t == Hop(hit)[k]
              after == IF HasPayloads(k) THEN Counted(s, hit, k) ELSE s
              to == ResumesAt(Candidate(hit, k))
  <1>. HIDE DEF s
  <1>3. t \in Offsets /\ t \in DOMAIN tape
    BY <1>2, ReachedOffset DEF ScanInv, Reaches, IsHeader, ClearsGate
  <1>4. t \in Nat /\ t >= s.from
    BY <1>1, HitForward
  <1>5. to \in Nat /\ to >= s.from
    <2>1. to \in Nat /\ to >= t
      BY <1>3, <1>4, ResumesForward DEF ScanInv
    <2>2. s.from \in Nat
      BY <1>1 DEF Good
    <2>. HIDE DEF to, t
    <2>. QED BY <1>4, <2>1, <2>2
  <1>6. chains \in [Offsets -> Nat] /\ chains[t] \in Nat
    BY <1>1, <1>3 DEF Good
  <1>7. Good(after, chains') /\ after.from = s.from
    <2>1. CASE k = 0
      <3>1. ~HasPayloads(k)
        BY <2>1 DEF HasPayloads
      <3>2. chains' = chains
        BY <1>2, <1>6, <3>1
      <3>. QED BY <1>1, <3>1, <3>2
    <2>2. CASE k > 0
      <3>1. HasPayloads(k)
        BY <2>2 DEF HasPayloads
      <3>2. chains' = [chains EXCEPT ![t] = chains[t] + 1]
        BY <1>2, <3>1
      <3>3. Count(s, t) = chains[t] /\ Count(s, t) < MaxChains
        <4>1. ~Exhausted(s, t)
          BY <1>2, <2>2 DEF Reaches, StopsRefused
        <4>2. Count(s, t) = chains[t]
          BY <1>1, <1>3, <1>4 DEF Good
        <4>3. CASE t \in DOMAIN s.tracked
          <5>1. ~(s.tracked[t] >= MaxChains) /\ Count(s, t) = s.tracked[t]
            BY <4>1, <4>3 DEF Exhausted, ReadEnough, Count
          <5>. QED BY <1>6, <4>2, <5>1, LimitsType
        <4>4. CASE t \notin DOMAIN s.tracked
          BY <4>2, <4>4, LimitsType DEF Count
        <4>. QED BY <4>2, <4>3, <4>4
      <3>4. t \notin DOMAIN s.tracked => Cardinality(DOMAIN s.tracked) < TrackingCap
        <4>1. ~CapReached(s, t)
          BY <1>2, <3>1
        <4>2. Cardinality(DOMAIN s.tracked) \in Nat
          BY <1>1, FS_CardinalityType DEF Good
        <4>. QED BY <4>1, <4>2, LimitsType DEF CapReached
      <3>. DEFINE n == Count(s, t) + 1
      <3>5. n \in 0 .. MaxChains /\ n = chains[t] + 1
        BY <1>6, <3>3, LimitsType
      <3>6. /\ DOMAIN after = TapeFields /\ after.from = s.from /\ after.tracked = Tracking(s, t, n)
            /\ after.starved = s.starved /\ after.converged = s.converged
            /\ after.capped = s.capped
        BY <1>1, <3>1 DEF Good, TapeFields, Counted
      <3>. HIDE DEF n, after
      <3>7. Good(after, [chains EXCEPT ![t] = n])
        BY <1>1, <1>3, <1>4, <3>4, <3>5, <3>6, TrackedGood
      <3>. QED BY <3>2, <3>5, <3>6, <3>7
    <2>3. k = 0 \/ k > 0
      BY DEF MaxExtensions
    <2>. QED BY <2>1, <2>2, <2>3
  <1>8. ScanInv'
    <2>1. \/ Passes(hit, after)
          \/ scan' = [after EXCEPT !.from = to] /\ UNCHANGED tape
      BY <1>2
    <2>. DEFINE d == chains'
    <2>2. Good(after, d) /\ chains' = d /\ after.from = scan.from
      BY <1>1, <1>7
    <2>. HIDE DEF after, to, d
    <2>3. CASE Passes(hit, after)
      BY <2>2, <2>3, PassesGood
    <2>4. CASE scan' = [after EXCEPT !.from = to] /\ UNCHANGED tape
      <3>1. Good([after EXCEPT !.from = to], d)
        BY <1>1, <1>5, <2>2, FurtherGood
      <3>. QED BY <2>2, <2>4, <3>1 DEF ScanInv
    <2>. QED BY <2>1, <2>3, <2>4
  <1>9. ASSUME Logged(scan.starved) # {} PROVE chains' = chains
    <2>1. BudgetSpent(s)
      BY <1>1, <1>9 DEF BudgetSpent, EmptyLog, Logged
    <2>2. ~HasPayloads(k)
      BY <1>2, <2>1 DEF OverBudget
    <2>. QED BY <1>2, <1>6, <2>2
  <1>. QED BY <1>8, <1>9

(* A block that is no header, or heads a chain to none, is passed.          *)
LEMMA SightsKeeps ==
    ASSUME ScanInv, NEW hit \in DOMAIN tape, Hits(hit), Sights(hit)
    PROVE  ScanInv' /\ chains' = chains
  <1>. DEFINE s == Turned
              copy == [s EXCEPT !.copies = @ \cup {hit}]
              seen == [s EXCEPT !.seen = @ \cup {hit}, !.lastSeen = hit]
  <1>1. Good(s, chains) /\ s.from = scan.from
    BY TurnGood
  <1>2. (Passes(hit, copy) \/ Passes(hit, seen)) /\ chains' = chains
    BY DEF Sights
  <1>. HIDE DEF s
  <1>3. ASSUME NEW r \in {copy, seen} PROVE Good(r, chains) /\ r.from = scan.from
    <2>1. /\ DOMAIN r = TapeFields /\ r.from = s.from /\ r.tracked = s.tracked
          /\ r.converged = s.converged /\ r.starved = s.starved /\ r.capped = s.capped
      BY <1>1 DEF Good, TapeFields
    <2>2. \A t \in Offsets : t >= r.from => Count(r, t) = chains[t]
      BY <1>1, <2>1 DEF Good, Count
    <2>. HIDE DEF copy, seen
    <2>. QED BY <1>1, <2>1, <2>2 DEF Good
  <1>. HIDE DEF copy, seen
  <1>. QED BY <1>2, <1>3, PassesGood

LEMMA BreaksKeeps ==
    ASSUME ScanInv, NEW hit \in DOMAIN tape, Hits(hit), Breaks(hit)
    PROVE  ScanInv' /\ chains' = chains
  BY TurnGood, PassesGood DEF Breaks

LEMMA EndsScanKeeps == ASSUME ScanInv, EndsScan PROVE ScanInv' /\ chains' = chains
  <1>1. scan' = [scan EXCEPT !.over = TRUE] /\ chains' = chains /\ tape' = tape
    BY DEF EndsScan
  <1>2. /\ DOMAIN scan' = TapeFields /\ scan'.from = scan.from /\ scan'.tracked = scan.tracked
        /\ scan'.converged = scan.converged /\ scan'.starved = scan.starved
        /\ scan'.capped = scan.capped
    BY <1>1 DEF ScanInv, Good, TapeFields
  <1>3. \A t \in Offsets : t >= scan'.from => Count(scan', t) = chains[t]
    BY <1>2 DEF ScanInv, Good, Count
  <1>4. Good(scan', chains)
    BY <1>2, <1>3 DEF ScanInv, Good
  <1>. QED BY <1>1, <1>4 DEF ScanInv

(* Every step keeps the scan good, and reads no chain once the budget is    *)
(* spent.                                                                   *)
LEMMA StepKeeps ==
    ScanInv /\ [ScanNext]_scanning => ScanInv' /\ (Logged(scan.starved) # {} => chains' = chains)
  <1>. SUFFICES ASSUME ScanInv, [ScanNext]_scanning
                PROVE  ScanInv' /\ (Logged(scan.starved) # {} => chains' = chains)
    OBVIOUS
  <1>1. CASE \E hit \in DOMAIN tape :
               /\ Hits(hit)
               /\ Sights(hit) \/ RefusesUnread(hit) \/ RefusesPayloads(hit)
                    \/ ReadsChain(hit) \/ Breaks(hit)
    BY <1>1, SightsKeeps, RefusesUnreadKeeps, RefusesPayloadsKeeps, ReadsChainKeeps, BreaksKeeps
  <1>2. CASE EndsScan
    BY <1>2, EndsScanKeeps
  <1>3. CASE UNCHANGED scanning
    BY <1>3 DEF scanning, ScanInv, Good, GoodLog, Count, Offsets
  <1>. QED BY <1>1, <1>2, <1>3 DEF ScanNext

(* However the extensions converge and wherever their blocks overlap, no    *)
(* header's chains are read more than MaxChains times in the whole scan, and *)
(* the counts and logs agree (gate_chain_at, TerminalLog::insert).           *)
THEOREM ChainReads == ScanSpec => []ChainReadsBounded
  <1>1. tape \in Tapes /\ ScanStart => ScanInv
    BY InitInv
  <1>2. ScanInv /\ [ScanNext]_scanning => ScanInv'
    BY StepKeeps
  <1>3. ScanInv => ChainReadsBounded
    BY DEF ScanInv, Good, GoodLog, ChainReadsBounded
  <1>. QED BY <1>1, <1>2, <1>3, PTL DEF ScanSpec

(* Once a chain was refused for the budget no chain's payload is read, at    *)
(* whatever position of the search (scan_budget_spent).                      *)
THEOREM Spent == ScanSpec => SpentStaysSpent
  <1>1. tape \in Tapes /\ ScanStart => ScanInv
    BY InitInv
  <1>2. ScanInv /\ [ScanNext]_scanning => ScanInv'
    BY StepKeeps
  <1>3. ScanInv /\ [ScanNext]_scanning
          => [Logged(scan.starved) # {} => chains' = chains]_scanning
    BY StepKeeps
  <1>. QED BY <1>1, <1>2, <1>3, PTL DEF ScanSpec, SpentStaysSpent

-------------------------------------------------------------------------------
(* A tar's scan loses no entry silently.                                    *)

Headers == {t \in DOMAIN tape : tape[t].role = "real"}
InLogs(s) == Logged(s.converged) \cup Logged(s.starved) \cup Logged(s.capped)

(* What a scan s keeps is of its kind, only real headers are tracked, and   *)
(* the last header seen is one of those seen.                               *)
Kinds(s) ==
    /\ s.payloadRead \in 0 .. ReadLimit /\ s.over \in BOOLEAN
    /\ DOMAIN s.tracked \subseteq Headers
    /\ \A t \in DOMAIN s.tracked : s.tracked[t] \in 0 .. MaxChains
    /\ s.converged \in Log /\ s.starved \in Log /\ s.capped \in Log
    /\ s.seen \subseteq Offsets /\ s.copies \subseteq Offsets
    /\ s.lastSeen \in s.seen \cup {FileLen}

(* The extensions at p lead to a header, whatever is refused on the way.    *)
Leads(p, k) == ClearsGate(p) /\ IsHeader(p, k) /\ \A j \in 0 .. k - 1 : Passable(p, j)

(* What is at p is told of, or consumed.                                    *)
Named(p) ==
    /\ \A k \in 0 .. MaxExtensions :
          Leads(p, k) /\ NameOf(p, k) # "empty" => Hop(p)[k] \in InLogs(scan) \/ Consumed(p)
    /\ tape[p].role = "ungateable" =>
          \/ p \in scan.seen \/ Consumed(p)
          \/ \E q \in scan.seen : p - q \in 1 .. MaxShift

TarInv ==
    /\ Kinds(scan) /\ \E C : candidates \in Seq(C)
    /\ \A p \in DOMAIN tape : p < scan.from => Named(p)
    /\ scan.over => Agreeing(scan.from) = {}

LEMMA SettledTyped ==
    ASSUME NEW log \in Log, NEW from \in Nat
    PROVE  SettledBelow(log, from) \in Log /\ Logged(SettledBelow(log, from)) = Logged(log)
  BY DEF SettledBelow, Log, Logged

LEMMA InsertedTyped ==
    ASSUME NEW log \in Log, NEW t \in Offsets
    PROVE  Inserted(log, t) \in Log /\ Logged(Inserted(log, t)) = Logged(log) \cup {t}
  BY DEF Inserted, Log, Logged

LEMMA TurnKinds ==
    ASSUME ScanInv, Kinds(scan)
    PROVE  /\ Kinds(Turned) /\ InLogs(Turned) = InLogs(scan)
           /\ Turned.seen = scan.seen /\ Turned.lastSeen = scan.lastSeen /\ Turned.over = scan.over
  <1>1. DOMAIN scan = TapeFields /\ scan.from \in Nat
    BY DEF ScanInv, Good
  <1>. DEFINE s == Turned
              kept == {t \in DOMAIN scan.tracked : t >= scan.from}
  <1>2. /\ s.tracked = [at \in kept |-> scan.tracked[at]]
        /\ s.converged = SettledBelow(scan.converged, scan.from)
        /\ s.starved = SettledBelow(scan.starved, scan.from)
        /\ s.capped = SettledBelow(scan.capped, scan.from)
        /\ s.payloadRead = scan.payloadRead /\ s.over = scan.over /\ s.seen = scan.seen
        /\ s.copies = scan.copies /\ s.lastSeen = scan.lastSeen
    BY <1>1 DEF Turned, Pruned, TapeFields
  <1>. HIDE DEF s
  <1>3. /\ DOMAIN s.tracked \subseteq Headers
        /\ \A t \in DOMAIN s.tracked : s.tracked[t] \in 0 .. MaxChains
    BY <1>2 DEF Kinds
  <1>4. /\ s.converged \in Log /\ Logged(s.converged) = Logged(scan.converged)
        /\ s.starved \in Log /\ Logged(s.starved) = Logged(scan.starved)
        /\ s.capped \in Log /\ Logged(s.capped) = Logged(scan.capped)
    BY <1>1, <1>2, SettledTyped DEF Kinds
  <1>. QED BY <1>2, <1>3, <1>4 DEF Kinds, InLogs, s

(* A chain leads to one header only.                                        *)
LEMMA OneHeader ==
    ASSUME NEW p, NEW k \in 0 .. MaxExtensions, NEW m \in 0 .. MaxExtensions,
           IsHeader(p, k), IsHeader(p, m),
           \A j \in 0 .. k - 1 : Passable(p, j), \A j \in 0 .. m - 1 : Passable(p, j)
    PROVE  k = m
  <1>1. ASSUME NEW j \in 0 .. MaxExtensions, IsHeader(p, j), Passable(p, j) PROVE FALSE
    BY <1>1 DEF IsHeader, Passable, Extensions
  <1>2. k \in Nat /\ m \in Nat
    BY DEF MaxExtensions
  <1>3. k < m => k \in 0 .. m - 1
    BY <1>2
  <1>4. m < k => m \in 0 .. k - 1
    BY <1>2
  <1>. QED BY <1>1, <1>2, <1>3, <1>4

LEMMA ConsumedStays ==
    ASSUME NEW c, \E C : candidates \in Seq(C),
           candidates' = candidates \/ candidates' = Append(candidates, c)
    PROVE  /\ \E C : candidates' \in Seq(C)
           /\ \A p : Consumed(p) => Consumed(p)'
           /\ candidates' = Append(candidates, c) =>
                \A p : c.head <= p /\ p < (IF c.whole THEN c.next ELSE c.offset + 1) => Consumed(p)'
  <1>1. PICK C : candidates \in Seq(C)
    OBVIOUS
  <1>2. CASE candidates' = candidates
    <2>1. candidates' # Append(candidates, c)
      BY <1>1, <1>2
    <2>. QED BY <1>1, <1>2, <2>1 DEF Consumed
  <1>3. CASE candidates' = Append(candidates, c)
    <2>1. candidates \in Seq(C \cup {c})
      BY <1>1
    <2>2. /\ candidates' \in Seq(C \cup {c})
          /\ \A n \in DOMAIN candidates : n \in DOMAIN candidates' /\ candidates'[n] = candidates[n]
          /\ Len(candidates) + 1 \in DOMAIN candidates' /\ candidates'[Len(candidates) + 1] = c
      BY <1>3, <2>1
    <2>. QED BY <2>2 DEF Consumed
  <1>. QED BY <1>2, <1>3

(* What a tape reads as does not depend on the scan.                        *)
LEMMA TapeStays ==
    ASSUME UNCHANGED tape, NEW p, NEW k
    PROVE  /\ NameOf(p, k)' = NameOf(p, k) /\ Hop(p)' = Hop(p)
           /\ Leads(p, k)' <=> Leads(p, k)
  <1>1. NameOf(p, k)' = NameOf(p, k)
    BY DEF NameOf, Hop, After, NextHeader, Payload
  <1>2. \A q : Hop(q)' = Hop(q)
    BY DEF Hop, After, NextHeader, Payload
  <1>3. IsHeader(p, k)' <=> IsHeader(p, k)
    BY <1>2 DEF IsHeader, ClearsGate
  <1>4. \A j : Passable(p, j)' <=> Passable(p, j)
    BY <1>2 DEF Passable, ClearsGate, Fits, Payload
  <1>. QED BY <1>1, <1>2, <1>3, <1>4 DEF Leads, ClearsGate

(* A step tells of what it passes, and forgets nothing told.                *)
LEMMA TellsMore ==
    ASSUME ScanInv, ScanInv', TarInv, NEW hit \in DOMAIN tape, Hits(hit), UNCHANGED tape, NEW c,
           candidates' = candidates \/ candidates' = Append(candidates, c),
           Kinds(scan'), ~scan'.over, InLogs(scan) \subseteq InLogs(scan'),
           scan.seen \subseteq scan'.seen,
           \A p \in DOMAIN tape : p >= hit /\ p < scan'.from => Named(p)'
    PROVE  TarInv'
  <1>1. /\ \E C : candidates' \in Seq(C)
        /\ \A p : Consumed(p) => Consumed(p)'
    BY ConsumedStays DEF TarInv
  <1>2. scan.from \in Nat /\ scan'.from \in Nat /\ DOMAIN tape \subseteq Nat
    BY TapesType, OffsetsFinite DEF ScanInv, Good
  <1>3. ASSUME NEW p \in DOMAIN tape, p < scan'.from PROVE Named(p)'
    <2>1. CASE p >= hit
      BY <1>3, <2>1
    <2>2. CASE p < hit
      <3>1. ~(hit <= p)
        BY <1>2, <2>2
      <3>2. p < scan.from
        BY <1>2, <3>1 DEF Hits, Agreeing
      <3>3. Named(p)
        BY <3>2 DEF TarInv
      <3>4. \A k : /\ NameOf(p, k)' = NameOf(p, k) /\ Hop(p)' = Hop(p)
                   /\ Leads(p, k)' <=> Leads(p, k)
        BY TapeStays
      <3>. QED BY <1>1, <3>3, <3>4 DEF Named
    <2>. QED BY <1>2, <2>1, <2>2
  <1>4. Kinds(scan)'
    BY DEF Kinds, Headers
  <1>. QED BY <1>1, <1>3, <1>4 DEF TarInv

LEMMA SightsTells ==
    ASSUME ScanInv, ScanInv', TarInv, NEW hit \in DOMAIN tape, Hits(hit), Sights(hit)
    PROVE  TarInv'
  <1>. DEFINE s == Turned
              late == hit - scan.lastSeen
              isCopy == \/ tape[hit].role = "copy"
                        \/ scan.lastSeen <= hit /\ late \in 1 .. MaxShift
              copy == [s EXCEPT !.copies = @ \cup {hit}]
              seen == [s EXCEPT !.seen = @ \cup {hit}, !.lastSeen = hit]
  <1>1. /\ Kinds(s) /\ InLogs(s) = InLogs(scan) /\ s.seen = scan.seen
        /\ s.lastSeen = scan.lastSeen /\ s.over = scan.over
    BY TurnKinds DEF TarInv
  <1>2. DOMAIN s = TapeFields /\ hit \in Offsets /\ hit \in Nat
    BY TurnGood, TapesType, OffsetsFinite DEF ScanInv, Good
  <1>3. /\ scan' = [(IF isCopy THEN copy ELSE seen) EXCEPT !.from = hit + 1]
        /\ UNCHANGED <<tape, candidates>> /\ tape[hit].role \in {"ungateable", "copy"}
    BY DEF Sights, Passes, OneFurther
  <1>4. ~scan.over
    BY DEF Hits
  <1>. HIDE DEF s, isCopy
  <1>5. scan'.from = hit + 1 /\ Kinds(scan') /\ ~scan'.over /\ InLogs(scan') = InLogs(scan)
        /\ scan.seen \subseteq scan'.seen /\ (~isCopy => hit \in scan'.seen)
    <2>1. CASE isCopy
      <3>1. scan' = [copy EXCEPT !.from = hit + 1]
        BY <1>3, <2>1
      <3>2. /\ scan'.from = hit + 1 /\ scan'.tracked = s.tracked /\ scan'.seen = s.seen
            /\ scan'.converged = s.converged /\ scan'.starved = s.starved
            /\ scan'.capped = s.capped /\ scan'.payloadRead = s.payloadRead
            /\ scan'.over = s.over /\ scan'.copies = s.copies \cup {hit}
            /\ scan'.lastSeen = s.lastSeen
        BY <1>2, <3>1 DEF TapeFields
      <3>. QED BY <1>1, <1>2, <1>4, <2>1, <3>2 DEF Kinds, InLogs
    <2>2. CASE ~isCopy
      <3>1. scan' = [seen EXCEPT !.from = hit + 1]
        BY <1>3, <2>2
      <3>2. /\ scan'.from = hit + 1 /\ scan'.tracked = s.tracked /\ scan'.seen = s.seen \cup {hit}
            /\ scan'.converged = s.converged /\ scan'.starved = s.starved
            /\ scan'.capped = s.capped /\ scan'.payloadRead = s.payloadRead
            /\ scan'.over = s.over /\ scan'.copies = s.copies /\ scan'.lastSeen = hit
        BY <1>2, <3>1 DEF TapeFields
      <3>. QED BY <1>1, <1>2, <1>4, <3>2 DEF Kinds, InLogs
    <2>. QED BY <2>1, <2>2
  <1>6. Named(hit)'
    <2>1. ~ClearsGate(hit)'
      BY <1>3 DEF ClearsGate, Extensions
    <2>2. ASSUME tape[hit].role = "ungateable"
          PROVE  hit \in scan'.seen \/ \E q \in scan'.seen : hit - q \in 1 .. MaxShift
      <3>1. CASE isCopy
        <4>1. scan.lastSeen <= hit /\ late \in 1 .. MaxShift
          BY <2>2, <3>1 DEF isCopy
        <4>2. scan.lastSeen \in scan.seen
          <5>1. hit < FileLen
            BY <1>2, LimitsType DEF Offsets
          <5>. QED BY <4>1, <5>1, <1>2, LimitsType DEF TarInv, Kinds
        <4>. QED BY <1>5, <4>1, <4>2
      <3>. QED BY <1>5, <3>1
    <2>3. ~(\E k \in 0 .. MaxExtensions : Leads(hit, k)')
      BY <2>1 DEF Leads
    <2>4. (\A k \in 0 .. MaxExtensions :
            Leads(hit, k) /\ NameOf(hit, k) # "empty"
              => Hop(hit)[k] \in InLogs(scan) \/ Consumed(hit))'
      BY <2>3
    <2>5. tape' = tape
      BY <1>3
    <2>. QED BY <2>2, <2>4, <2>5 DEF Named
  <1>7. ASSUME NEW p \in DOMAIN tape, p >= hit, p < scan'.from PROVE Named(p)'
    <2>1. p = hit
      BY <1>2, <1>5, <1>7, TapesType, OffsetsFinite DEF ScanInv
    <2>. QED BY <1>6, <2>1
  <1>. HIDE DEF copy, seen
  <1>. QED BY <1>1, <1>3, <1>5, <1>7, TellsMore

(* A chain's head is accounted for with the one header it leads to.         *)
LEMMA NamedByChain ==
    ASSUME UNCHANGED tape, NEW hit \in DOMAIN tape, NEW k \in 0 .. MaxExtensions, Leads(hit, k),
           \/ NameOf(hit, k) = "empty"
           \/ Hop(hit)[k] \in InLogs(scan')
           \/ Consumed(hit)'
    PROVE  Named(hit)'
  <1>1. ASSUME NEW m \in 0 .. MaxExtensions, Leads(hit, m)' PROVE m = k
    BY <1>1, TapeStays, OneHeader DEF Leads
  <1>2. tape[hit].role # "ungateable"
    BY DEF Leads, ClearsGate, Extensions
  <1>3. NameOf(hit, k)' = NameOf(hit, k) /\ Hop(hit)' = Hop(hit)
    BY TapeStays
  <1>4. ASSUME NEW m \in 0 .. MaxExtensions, Leads(hit, m)', (NameOf(hit, m) # "empty")'
        PROVE  (Hop(hit)[m] \in InLogs(scan) \/ Consumed(hit))'
    BY <1>1, <1>3, <1>4
  <1>. QED BY <1>2, <1>4 DEF Named

(* Passed over, a hit is all that a turn passes.                            *)
LEMMA OnlyTheHit ==
    ASSUME tape \in Tapes, NEW hit \in DOMAIN tape, NEW p \in DOMAIN tape, p >= hit,
           p < OneFurther(hit)
    PROVE  p = hit
  BY TapesType, OffsetsFinite DEF OneFurther

LEMMA PassesTells ==
    ASSUME ScanInv, ScanInv', TarInv, NEW hit \in DOMAIN tape, Hits(hit), NEW s, Passes(hit, s),
           DOMAIN s = TapeFields, Kinds(s), InLogs(scan) \subseteq InLogs(s),
           s.seen = scan.seen, s.over = scan.over, Named(hit)'
    PROVE  TarInv'
  <1>1. /\ scan' = [s EXCEPT !.from = OneFurther(hit)]
        /\ UNCHANGED <<tape, candidates>>
    BY DEF Passes
  <1>2. /\ scan'.from = OneFurther(hit) /\ scan'.tracked = s.tracked /\ scan'.seen = s.seen
        /\ scan'.converged = s.converged /\ scan'.starved = s.starved
        /\ scan'.capped = s.capped /\ scan'.payloadRead = s.payloadRead
        /\ scan'.over = s.over /\ scan'.copies = s.copies /\ scan'.lastSeen = s.lastSeen
    BY <1>1 DEF TapeFields
  <1>3. Kinds(scan') /\ InLogs(scan') = InLogs(s)
    BY <1>2 DEF Kinds, InLogs
  <1>4. ~scan'.over
    BY <1>2 DEF Hits
  <1>5. \A p \in DOMAIN tape : p >= hit /\ p < scan'.from => Named(p)'
    BY <1>2, OnlyTheHit DEF ScanInv
  <1>. QED BY <1>1, <1>2, <1>3, <1>4, <1>5, TellsMore

LEMMA ConvergedKinds ==
    ASSUME NEW s, DOMAIN s = TapeFields, Kinds(s), NEW t \in Offsets, NEW after,
           after \in {[s EXCEPT !.converged = Inserted(@, t)], [s EXCEPT !.starved = Inserted(@, t)],
                      [s EXCEPT !.capped = Inserted(@, t)]}
    PROVE  /\ DOMAIN after = TapeFields /\ Kinds(after) /\ after.seen = s.seen
           /\ after.over = s.over /\ InLogs(after) = InLogs(s) \cup {t}
  <1>1. /\ after.tracked = s.tracked /\ after.seen = s.seen
        /\ after.payloadRead = s.payloadRead /\ DOMAIN after = TapeFields
        /\ after.over = s.over /\ after.copies = s.copies /\ after.lastSeen = s.lastSeen
    BY DEF TapeFields
  <1>2. \/ /\ after.converged = Inserted(s.converged, t) /\ after.starved = s.starved
           /\ after.capped = s.capped
        \/ /\ after.starved = Inserted(s.starved, t) /\ after.converged = s.converged
           /\ after.capped = s.capped
        \/ /\ after.capped = Inserted(s.capped, t) /\ after.converged = s.converged
           /\ after.starved = s.starved
    BY DEF TapeFields
  <1>3. \A log \in Log : Inserted(log, t) \in Log /\ Logged(Inserted(log, t)) = Logged(log) \cup {t}
    BY InsertedTyped
  <1>4. s.converged \in Log /\ s.starved \in Log /\ s.capped \in Log
    BY DEF Kinds
  <1>5. after.converged \in Log /\ after.starved \in Log /\ after.capped \in Log
    BY <1>2, <1>3, <1>4
  <1>6. InLogs(after) = InLogs(s) \cup {t}
    BY <1>2, <1>3, <1>4 DEF InLogs
  <1>. QED BY <1>1, <1>5, <1>6 DEF Kinds

(* What a chain walks to, while only real headers are tracked.              *)
LEMMA WalkPasses ==
    ASSUME NEW s, NEW p, NEW k, WalksTo(s, p, k)
    PROVE  \A j \in 0 .. k - 1 : Passable(p, j)
  BY DEF WalksTo

LEMMA RefusesUnreadTells ==
    ASSUME ScanInv, ScanInv', TarInv, NEW hit \in DOMAIN tape, Hits(hit), RefusesUnread(hit)
    PROVE  TarInv'
  <1>. DEFINE s == Turned
  <1>1. /\ Kinds(s) /\ InLogs(s) = InLogs(scan) /\ s.seen = scan.seen
        /\ s.lastSeen = scan.lastSeen /\ s.over = scan.over /\ DOMAIN s = TapeFields
    BY TurnKinds, TurnGood DEF TarInv, Good
  <1>2. PICK k \in 1 .. MaxExtensions :
           /\ ClearsGate(hit) /\ StopsRefused(s, hit, k)
           /\ Passes(hit, IF ReadEnough(s, Hop(hit)[k])
                          THEN [s EXCEPT !.converged = Inserted(@, Hop(hit)[k])]
                          ELSE [s EXCEPT !.starved = Inserted(@, Hop(hit)[k])])
    BY DEF RefusesUnread
  <1>. DEFINE t == Hop(hit)[k]
  <1>. HIDE DEF s
  <1>3. t \in DOMAIN s.tracked
    BY <1>2 DEF StopsRefused, Exhausted, ReadEnough
  <1>4. t \in DOMAIN tape /\ tape[t].role = "real" /\ t \in Offsets
    BY <1>1, <1>3, TapesType DEF Kinds, Headers, ScanInv
  <1>5. Leads(hit, k) /\ k \in 0 .. MaxExtensions
    BY <1>2, <1>4, WalkPasses DEF Leads, IsHeader, ClearsGate, StopsRefused, MaxExtensions
  <1>6. PICK after : /\ after \in {[s EXCEPT !.converged = Inserted(@, t)],
                                   [s EXCEPT !.starved = Inserted(@, t)],
                                   [s EXCEPT !.capped = Inserted(@, t)]}
                     /\ Passes(hit, after)
    BY <1>2
  <1>. HIDE DEF t
  <1>7. /\ DOMAIN after = TapeFields /\ Kinds(after) /\ after.seen = s.seen
        /\ after.over = s.over /\ InLogs(after) = InLogs(s) \cup {t}
    BY <1>1, <1>4, <1>6, ConvergedKinds
  <1>8. Named(hit)'
    <2>1. scan' = [after EXCEPT !.from = OneFurther(hit)] /\ UNCHANGED tape
      BY <1>6 DEF Passes
    <2>2. InLogs(scan') = InLogs(after)
      BY <1>7, <2>1 DEF InLogs, TapeFields
    <2>. QED BY <1>5, <1>7, <2>1, <2>2, NamedByChain DEF t
  <1>. QED BY <1>1, <1>6, <1>7, <1>8, PassesTells

LEMMA BreaksTells ==
    ASSUME ScanInv, ScanInv', TarInv, NEW hit \in DOMAIN tape, Hits(hit), Breaks(hit)
    PROVE  TarInv'
  <1>. DEFINE s == Turned
  <1>1. /\ Kinds(s) /\ InLogs(s) = InLogs(scan) /\ s.seen = scan.seen
        /\ s.lastSeen = scan.lastSeen /\ s.over = scan.over /\ DOMAIN s = TapeFields
    BY TurnKinds, TurnGood DEF TarInv, Good
  <1>2. /\ ClearsGate(hit) /\ Passes(hit, s)
        /\ \A k \in 0 .. MaxExtensions : ~StopsRefused(s, hit, k) /\ ~Reaches(s, hit, k)
    BY DEF Breaks
  <1>. HIDE DEF s
  <1>3. ASSUME NEW k \in 0 .. MaxExtensions, Leads(hit, k) PROVE FALSE
    <2>1. ASSUME NEW j \in 0 .. k - 1 PROVE Passable(hit, j) /\ ~Exhausted(s, Hop(hit)[j])
      <3>1. Passable(hit, j)
        BY <1>3 DEF Leads
      <3>2. tape[Hop(hit)[j]].role # "real"
        BY <3>1 DEF Passable, Extensions
      <3>3. Hop(hit)[j] \notin DOMAIN s.tracked
        BY <1>1, <3>2 DEF Kinds, Headers
      <3>. QED BY <3>1, <3>3 DEF Exhausted, ReadEnough
    <2>2. WalksTo(s, hit, k)
      BY <2>1 DEF WalksTo
    <2>3. Reaches(s, hit, k)
      BY <1>2, <1>3, <2>2 DEF Reaches, Leads
    <2>. QED BY <1>2, <2>3
  <1>4. UNCHANGED tape
    BY <1>2 DEF Passes
  <1>5. Named(hit)'
    <2>1. \A k \in 0 .. MaxExtensions : ~Leads(hit, k)'
      BY <1>3, <1>4, TapeStays
    <2>2. (tape[hit].role # "ungateable")'
      BY <1>2, <1>4 DEF ClearsGate, Extensions
    <2>3. (\A k \in 0 .. MaxExtensions :
            Leads(hit, k) /\ NameOf(hit, k) # "empty"
              => Hop(hit)[k] \in InLogs(scan) \/ Consumed(hit))'
      BY <2>1
    <2>. QED BY <2>2, <2>3 DEF Named
  <1>. QED BY <1>1, <1>2, <1>5, PassesTells

LEMMA TrackedKinds ==
    ASSUME NEW s, Kinds(s), NEW t \in Headers, NEW n \in 0 .. MaxChains, NEW after,
           after.tracked = Tracking(s, t, n), after.payloadRead \in 0 .. ReadLimit,
           after.seen = s.seen, after.lastSeen = s.lastSeen, after.over = s.over,
           after.copies = s.copies, after.converged = s.converged, after.starved = s.starved,
           after.capped = s.capped
    PROVE  Kinds(after) /\ InLogs(after) = InLogs(s)
  <1>. DEFINE f == after.tracked
  <1>1. /\ DOMAIN f = DOMAIN s.tracked \cup {t}
        /\ \A u \in DOMAIN f : f[u] = IF u = t THEN n ELSE s.tracked[u]
    BY DEF Tracking
  <1>. HIDE DEF f
  <1>2. DOMAIN f \subseteq Headers /\ \A u \in DOMAIN f : f[u] \in 0 .. MaxChains
    BY <1>1 DEF Kinds
  <1>. QED BY <1>2 DEF Kinds, InLogs, f

LEMMA CountType ==
    ASSUME NEW s, Kinds(s), NEW t
    PROVE  Count(s, t) \in 0 .. MaxChains
  BY LimitsType DEF Kinds, Count

(* A chain that is walked leads on.                                         *)
LEMMA ReachesLeads ==
    ASSUME tape \in Tapes, NEW s, NEW p, NEW k, Reaches(s, p, k), ClearsGate(p)
    PROVE  Leads(p, k) /\ Hop(p)[k] \in Headers /\ Hop(p)[k] \in Offsets
  <1>1. Leads(p, k) /\ Hop(p)[k] \in Headers
    BY WalkPasses DEF Leads, Reaches, IsHeader, ClearsGate, Headers
  <1>. QED BY <1>1, TapesType DEF Headers

LEMMA PlannedType ==
    ASSUME tape \in Tapes, NEW p, NEW k \in 0 .. MaxExtensions, Leads(p, k)
    PROVE  Planned(p, k) \in Nat
  <1>1. ASSUME NEW j \in 0 .. k - 1 PROVE tape[Hop(p)[j]].span \in Nat
    <2>1. Hop(p)[j] \in DOMAIN tape
      BY DEF Leads, Passable, ClearsGate
    <2>. QED BY <2>1, TapesType DEF Readings
  <1>. DEFINE Of(j) == IF j < k THEN tape[Hop(p)[j]].span ELSE 0
  <1>2. ASSUME NEW j \in {0, 1, 2} PROVE Of(j) \in Nat
    <2>1. j < k => j \in 0 .. k - 1
      BY DEF MaxExtensions
    <2>. QED BY <1>1, <2>1
  <1>3. Of(0) \in Nat /\ Of(1) \in Nat /\ Of(2) \in Nat
    BY <1>2
  <1>4. Planned(p, k) = Of(0) + Of(1) + Of(2)
    BY DEF Planned
  <1>. HIDE DEF Of
  <1>. QED BY <1>3, <1>4

LEMMA RefusesPayloadsTells ==
    ASSUME ScanInv, ScanInv', TarInv, NEW hit \in DOMAIN tape, Hits(hit), RefusesPayloads(hit)
    PROVE  TarInv'
  <1>. DEFINE s == Turned
  <1>1. /\ Kinds(s) /\ InLogs(s) = InLogs(scan) /\ s.seen = scan.seen
        /\ s.lastSeen = scan.lastSeen /\ s.over = scan.over /\ DOMAIN s = TapeFields
    BY TurnKinds, TurnGood DEF TarInv, Good
  <1>2. PICK k \in 1 .. MaxExtensions :
           LET t == Hop(hit)[k]
           IN  /\ ClearsGate(hit) /\ Reaches(s, hit, k)
               /\ \/ Passes(hit, [s EXCEPT !.capped = Inserted(@, t)])
                  \/ Passes(hit, [s EXCEPT !.tracked = Tracking(s, t, Count(s, t)),
                                           !.starved = Inserted(@, t)])
    BY DEF RefusesPayloads
  <1>. DEFINE t == Hop(hit)[k]
              kept == [s EXCEPT !.tracked = Tracking(s, t, Count(s, t))]
  <1>. HIDE DEF s
  <1>3. Leads(hit, k) /\ t \in Headers /\ t \in Offsets /\ k \in 0 .. MaxExtensions
    BY <1>2, ReachesLeads DEF ScanInv, MaxExtensions
  <1>4. PICK base \in {s, kept} :
           \E after : /\ after \in {[base EXCEPT !.converged = Inserted(@, t)],
                                   [base EXCEPT !.starved = Inserted(@, t)],
                                   [base EXCEPT !.capped = Inserted(@, t)]}
                      /\ Passes(hit, after)
    <2>1. [s EXCEPT !.tracked = Tracking(s, t, Count(s, t)), !.starved = Inserted(@, t)]
            = [kept EXCEPT !.starved = Inserted(@, t)]
      BY <1>1 DEF TapeFields
    <2>. QED BY <1>2, <2>1
  <1>. HIDE DEF t
  <1>5. /\ DOMAIN base = TapeFields /\ Kinds(base) /\ InLogs(base) = InLogs(s)
        /\ base.seen = s.seen /\ base.over = s.over
    <2>1. CASE base = s
      BY <1>1, <2>1
    <2>2. CASE base = kept
      <3>1. /\ base.tracked = Tracking(s, t, Count(s, t)) /\ DOMAIN base = TapeFields
            /\ base.payloadRead = s.payloadRead
            /\ base.seen = s.seen /\ base.lastSeen = s.lastSeen /\ base.over = s.over
            /\ base.copies = s.copies /\ base.converged = s.converged
            /\ base.starved = s.starved /\ base.capped = s.capped
        BY <1>1, <2>2 DEF TapeFields
      <3>2. PICK n \in 0 .. MaxChains : n = Count(s, t)
        BY <1>1, CountType
      <3>3. base.tracked = Tracking(s, t, n) /\ base.payloadRead \in 0 .. ReadLimit
        BY <1>1, <3>1, <3>2 DEF Kinds
      <3>4. Kinds(base) /\ InLogs(base) = InLogs(s)
        BY <1>1, <1>3, <3>1, <3>3, TrackedKinds
      <3>. QED BY <3>1, <3>4
    <2>. QED BY <2>1, <2>2
  <1>. HIDE DEF kept
  <1>6. PICK after : /\ after \in {[base EXCEPT !.converged = Inserted(@, t)],
                                   [base EXCEPT !.starved = Inserted(@, t)],
                                   [base EXCEPT !.capped = Inserted(@, t)]}
                    /\ Passes(hit, after)
    BY <1>4
  <1>7. /\ DOMAIN after = TapeFields /\ Kinds(after) /\ after.seen = base.seen
        /\ after.over = base.over /\ InLogs(after) = InLogs(base) \cup {t}
    BY <1>3, <1>5, <1>6, ConvergedKinds
  <1>8. Named(hit)'
    <2>1. scan' = [after EXCEPT !.from = OneFurther(hit)] /\ UNCHANGED tape
      BY <1>6 DEF Passes
    <2>2. InLogs(scan') = InLogs(after)
      BY <1>7, <2>1 DEF InLogs, TapeFields
    <2>. QED BY <1>3, <1>7, <2>1, <2>2, NamedByChain DEF t
  <1>. QED BY <1>1, <1>5, <1>6, <1>7, <1>8, PassesTells

(* A candidate's search goes on where what it consumes ends.                *)
LEMMA RoundUpOver == ASSUME NEW n \in Nat PROVE RoundUp(n) \in Nat /\ RoundUp(n) >= n
  <1>. DEFINE q == (n + Block - 1) \div Block
  <1>1. Block \in Nat \ {0}
    BY LimitsType
  <1>2. n + Block - 1 \in Nat
    BY <1>1
  <1>3. q \in Nat /\ Block * q <= n + Block - 1 /\ n + Block - 1 < Block * q + Block
    BY <1>1, <1>2
  <1>4. Block * q \in Nat /\ q * Block = Block * q
    BY <1>1, <1>3
  <1>. HIDE DEF q
  <1>5. q * Block \in Nat /\ q * Block >= n
    BY <1>1, <1>3, <1>4
  <1>. QED BY <1>5 DEF RoundUp, q

LEMMA ResumesWithin ==
    ASSUME NEW p, NEW k, Hop(p)[k] \in Nat, Hop(p)[k] \in DOMAIN tape, tape \in Tapes
    PROVE  LET c == Candidate(p, k)
           IN  /\ c.head = p /\ c.offset = Hop(p)[k] /\ c.says = NameOf(p, k)
               /\ ResumesAt(c) = (IF c.whole THEN c.next ELSE c.offset + 1)
               /\ ResumesAt(c) \in Nat /\ ResumesAt(c) > c.offset
  <1>. DEFINE at == Hop(p)[k]
              c == Candidate(p, k)
  <1>1. tape[at].span \in Nat
    BY TapesType DEF Readings
  <1>2. RoundUp(tape[at].span) \in Nat /\ RoundUp(tape[at].span) >= tape[at].span
    BY <1>1, RoundUpOver
  <1>3. NextHeader(at) = at + Block + RoundUp(tape[at].span) /\ Block \in Nat \ {0}
    BY LimitsType DEF NextHeader, Payload
  <1>4. /\ c.offset = at /\ c.span = tape[at].span /\ c.next = NextHeader(at)
        /\ c.head = p /\ c.says = NameOf(p, k)
    BY DEF Candidate
  <1>. HIDE DEF c, at
  <1>5. at \in Nat
    BY DEF at
  <1>6. CASE c.whole
    <2>1. Advance(c) = IF c.span # 0 THEN c.span ELSE 1
      BY <1>6 DEF Advance
    <2>2. Advance(c) \in Nat \ {0} /\ c.offset + Advance(c) <= c.next
      BY <1>1, <1>2, <1>3, <1>4, <1>5, <2>1
    <2>3. ResumesAt(c) = c.next
      BY <1>4, <1>5, <1>6, <2>2 DEF ResumesAt
    <2>. QED BY <1>2, <1>3, <1>4, <1>5, <1>6, <2>3 DEF c, at
  <1>7. CASE ~c.whole
    <2>1. ResumesAt(c) = c.offset + 1
      BY <1>7 DEF ResumesAt, Advance
    <2>. QED BY <1>4, <1>5, <1>7, <2>1 DEF c, at
  <1>. QED BY <1>6, <1>7

LEMMA ReadsChainTells ==
    ASSUME ScanInv, ScanInv', TarInv, NEW hit \in DOMAIN tape, Hits(hit), ReadsChain(hit)
    PROVE  TarInv'
  <1>. DEFINE s == Turned
  <1>1. /\ Kinds(s) /\ InLogs(s) = InLogs(scan) /\ s.seen = scan.seen
        /\ s.lastSeen = scan.lastSeen /\ s.over = scan.over /\ DOMAIN s = TapeFields
    BY TurnKinds, TurnGood DEF TarInv, Good
  <1>2. PICK k \in 0 .. MaxExtensions :
           LET after == IF HasPayloads(k) THEN Counted(s, hit, k) ELSE s
               c == Candidate(hit, k)
           IN  /\ ClearsGate(hit) /\ Reaches(s, hit, k)
               /\ HasPayloads(k) => ~CapReached(s, Hop(hit)[k]) /\ ~OverBudget(s, hit, k)
               /\ IF c.says = "empty" THEN Passes(hit, after)
                  ELSE /\ scan' = [after EXCEPT !.from = ResumesAt(c)]
                       /\ candidates' = Append(candidates, c) /\ UNCHANGED tape
    BY DEF ReadsChain
  <1>. DEFINE t == Hop(hit)[k]
              after == IF HasPayloads(k) THEN Counted(s, hit, k) ELSE s
              c == Candidate(hit, k)
  <1>. HIDE DEF s
  <1>3. Leads(hit, k) /\ t \in Headers /\ t \in Offsets /\ tape \in Tapes
    BY <1>2, ReachesLeads DEF ScanInv
  <1>4. t \in Nat /\ hit \in Nat /\ t >= hit /\ t \in DOMAIN tape
    BY <1>3, HitForward DEF Headers
  <1>5. /\ DOMAIN after = TapeFields /\ Kinds(after) /\ InLogs(after) = InLogs(scan)
        /\ after.seen = scan.seen /\ after.over = scan.over
    <2>1. CASE ~HasPayloads(k)
      BY <1>1, <2>1
    <2>2. CASE HasPayloads(k)
      <3>1. after = Counted(s, hit, k)
        BY <2>2
      <3>2. /\ DOMAIN after = TapeFields /\ after.tracked = Tracking(s, t, Count(s, t) + 1)
            /\ after.payloadRead = s.payloadRead + Planned(hit, k)
            /\ after.seen = s.seen /\ after.lastSeen = s.lastSeen /\ after.over = s.over
            /\ after.copies = s.copies /\ after.converged = s.converged
            /\ after.starved = s.starved /\ after.capped = s.capped
        BY <1>1, <3>1 DEF Counted, TapeFields
      <3>3. after.payloadRead \in 0 .. ReadLimit
        <4>1. Planned(hit, k) \in Nat /\ s.payloadRead \in Nat
          BY <1>1, <1>3, PlannedType DEF Kinds
        <4>2. ~(s.payloadRead + Planned(hit, k) > ReadLimit)
          BY <1>2, <2>2 DEF OverBudget
        <4>. QED BY <3>2, <4>1, <4>2, LimitsType
      <3>4. PICK n \in 0 .. MaxChains : n = Count(s, t) + 1
        <4>1. ~Exhausted(s, t)
          BY <1>2, <2>2 DEF Reaches, StopsRefused, HasPayloads
        <4>2. Count(s, t) \in 0 .. MaxChains
          BY <1>1, CountType
        <4>3. Count(s, t) < MaxChains
          <5>1. CASE t \in DOMAIN s.tracked
            <6>1. ~(s.tracked[t] >= MaxChains) /\ Count(s, t) = s.tracked[t]
              BY <4>1, <5>1 DEF Exhausted, ReadEnough, Count
            <6>. QED BY <4>2, <6>1, LimitsType
          <5>2. CASE t \notin DOMAIN s.tracked
            BY <5>2, LimitsType DEF Count
          <5>. QED BY <5>1, <5>2
        <4>. QED BY <4>2, <4>3, LimitsType
      <3>5. after.tracked = Tracking(s, t, n)
        BY <3>2, <3>4
      <3>. HIDE DEF t, after
      <3>6. Kinds(after) /\ InLogs(after) = InLogs(s)
        BY <1>1, <1>3, <3>2, <3>3, <3>5, TrackedKinds
      <3>. QED BY <1>1, <3>2, <3>6
    <2>. QED BY <2>1, <2>2
  <1>6. /\ c.head = hit /\ c.offset = t /\ c.says = NameOf(hit, k)
        /\ ResumesAt(c) = (IF c.whole THEN c.next ELSE c.offset + 1)
        /\ ResumesAt(c) \in Nat /\ ResumesAt(c) > c.offset
    BY <1>3, <1>4, ResumesWithin
  <1>7. CASE c.says = "empty"
    <2>1. Passes(hit, after)
      BY <1>2, <1>7
    <2>2. Named(hit)'
      <3>1. UNCHANGED tape
        BY <2>1 DEF Passes
      <3>. QED BY <1>3, <1>6, <1>7, <3>1, NamedByChain
    <2>. HIDE DEF after
    <2>. QED BY <1>5, <2>1, <2>2, PassesTells
  <1>8. CASE c.says # "empty"
    <2>. DEFINE to == ResumesAt(c)
    <2>1. /\ scan' = [after EXCEPT !.from = to]
          /\ candidates' = Append(candidates, c) /\ UNCHANGED tape
      BY <1>2, <1>8
    <2>. HIDE DEF after, c, t, to
    <2>2. /\ scan'.from = to /\ scan'.tracked = after.tracked /\ scan'.seen = after.seen
          /\ scan'.converged = after.converged /\ scan'.starved = after.starved
          /\ scan'.capped = after.capped /\ scan'.payloadRead = after.payloadRead
          /\ scan'.over = after.over /\ scan'.copies = after.copies
          /\ scan'.lastSeen = after.lastSeen
      BY <1>5, <2>1 DEF TapeFields
    <2>3. Kinds(scan') /\ InLogs(scan') = InLogs(after)
      BY <1>5, <2>2 DEF Kinds, InLogs
    <2>4. ~scan'.over
      BY <1>5, <2>2 DEF Hits
    <2>5. ASSUME NEW p \in DOMAIN tape, p >= hit, p < scan'.from PROVE Named(p)'
      <3>1. Consumed(p)'
        <4>1. c.head <= p /\ p < (IF c.whole THEN c.next ELSE c.offset + 1)
          BY <1>6, <2>2, <2>5 DEF to
        <4>. QED BY <2>1, <4>1, ConsumedStays DEF TarInv
      <3>. QED BY <3>1 DEF Named
    <2>. QED BY <1>5, <2>1, <2>2, <2>3, <2>4, <2>5, TellsMore
  <1>. QED BY <1>7, <1>8

LEMMA TarStarts == tape \in Tapes /\ ScanStart => TarInv
  <1>. SUFFICES ASSUME tape \in Tapes, ScanStart PROVE TarInv
    OBVIOUS
  <1>1. /\ scan = [from |-> 0, tracked |-> <<>>, payloadRead |-> 0, seen |-> {},
                   lastSeen |-> FileLen, copies |-> {}, converged |-> NoLog, starved |-> NoLog,
                   capped |-> NoLog, over |-> FALSE]
        /\ candidates = <<>>
    BY DEF ScanStart
  <1>2. NoLog \in Log
    BY DEF NoLog, Log
  <1>3. Kinds(scan)
    BY <1>1, <1>2, LimitsType DEF Kinds
  <1>4. candidates \in Seq({})
    BY <1>1
  <1>5. \A p \in DOMAIN tape : ~(p < scan.from)
    BY <1>1, TapesType, OffsetsFinite
  <1>. QED BY <1>1, <1>3, <1>4, <1>5 DEF TarInv

LEMMA EndsScanTells ==
    ASSUME ScanInv, TarInv, EndsScan
    PROVE  TarInv'
  <1>1. /\ scan' = [scan EXCEPT !.over = TRUE] /\ Agreeing(scan.from) = {}
        /\ UNCHANGED <<tape, candidates, chains>>
    BY DEF EndsScan
  <1>2. /\ scan'.from = scan.from /\ scan'.tracked = scan.tracked /\ scan'.seen = scan.seen
        /\ scan'.converged = scan.converged /\ scan'.starved = scan.starved
        /\ scan'.capped = scan.capped /\ scan'.payloadRead = scan.payloadRead
        /\ scan'.over \in BOOLEAN /\ scan'.copies = scan.copies /\ scan'.lastSeen = scan.lastSeen
    BY <1>1 DEF ScanInv, Good, TapeFields
  <1>3. Kinds(scan)' /\ InLogs(scan') = InLogs(scan)
    BY <1>1, <1>2 DEF TarInv, Kinds, Headers, InLogs
  <1>4. ASSUME NEW p \in DOMAIN tape, p < scan'.from PROVE Named(p)'
    <2>1. Named(p)
      BY <1>2, <1>4 DEF TarInv
    <2>2. \A k : /\ NameOf(p, k)' = NameOf(p, k) /\ Hop(p)' = Hop(p)
                 /\ Leads(p, k)' <=> Leads(p, k)
      BY <1>1, TapeStays
    <2>3. Consumed(p)' <=> Consumed(p)
      BY <1>1 DEF Consumed
    <2>. QED BY <1>1, <1>2, <1>3, <2>1, <2>2, <2>3 DEF Named
  <1>5. Agreeing(scan.from)' = {}
    BY <1>1, <1>2 DEF Agreeing
  <1>. QED BY <1>1, <1>3, <1>4, <1>5 DEF TarInv

LEMMA TarStep == ScanInv /\ TarInv /\ [ScanNext]_scanning => ScanInv' /\ TarInv'
  <1>. SUFFICES ASSUME ScanInv, TarInv, [ScanNext]_scanning PROVE ScanInv' /\ TarInv'
    OBVIOUS
  <1>1. ScanInv'
    BY StepKeeps
  <1>2. CASE \E hit \in DOMAIN tape :
               /\ Hits(hit)
               /\ Sights(hit) \/ RefusesUnread(hit) \/ RefusesPayloads(hit)
                    \/ ReadsChain(hit) \/ Breaks(hit)
    BY <1>1, <1>2, SightsTells, RefusesUnreadTells, RefusesPayloadsTells, ReadsChainTells,
       BreaksTells
  <1>3. CASE EndsScan
    BY <1>1, <1>3, EndsScanTells
  <1>4. CASE UNCHANGED scanning
    <2>1. UNCHANGED <<tape, scan, candidates>>
      BY <1>4 DEF scanning
    <2>2. \A p : Named(p)' <=> Named(p)
      <3>1. \A p, k : /\ NameOf(p, k)' = NameOf(p, k) /\ Hop(p)' = Hop(p)
                      /\ Leads(p, k)' <=> Leads(p, k)
        BY <2>1, TapeStays
      <3>2. \A p : Consumed(p)' <=> Consumed(p)
        BY <2>1 DEF Consumed
      <3>. QED BY <2>1, <3>1, <3>2 DEF Named
    <2>3. Kinds(scan)' <=> Kinds(scan)
      BY <2>1 DEF Kinds, Headers
    <2>4. Agreeing(scan.from)' = Agreeing(scan.from)
      BY <2>1 DEF Agreeing
    <2>. QED BY <1>1, <2>1, <2>2, <2>3, <2>4 DEF TarInv
  <1>. QED BY <1>2, <1>3, <1>4 DEF ScanNext

LEMMA TarTyped == ScanInv /\ TarInv => ScanTypeOK
  <1>. SUFFICES ASSUME ScanInv, TarInv PROVE ScanTypeOK
    OBVIOUS
  <1>1. scan.lastSeen \in 0 .. FileLen
    BY LimitsType DEF TarInv, Kinds, Offsets
  <1>. QED BY <1>1 DEF ScanTypeOK, ScanInv, Good, TarInv, Kinds

LEMMA TarTold == ScanInv /\ TarInv => TarNoneLost
  <1>. SUFFICES ASSUME ScanInv, TarInv, scan.over, NEW p \in DOMAIN tape
                PROVE  /\ \A k \in 0 .. MaxExtensions :
                          /\ ClearsGate(p) /\ IsHeader(p, k) /\ \A j \in 0 .. k - 1 : Passable(p, j)
                          /\ NameOf(p, k) # "empty"
                          => Hop(p)[k] \in Refusals \/ Consumed(p)
                       /\ tape[p].role = "ungateable" =>
                            \/ p \in Sightings \/ Consumed(p)
                            \/ \E q \in scan.seen : p - q \in 1 .. MaxShift
    BY DEF TarNoneLost
  <1>1. Named(p)
    <2>1. p \in Nat /\ scan.from \in Nat /\ p \notin Agreeing(scan.from)
      BY TapesType, OffsetsFinite DEF ScanInv, Good, TarInv
    <2>. QED BY <2>1 DEF Agreeing, TarInv
  <1>2. Refusals = InLogs(scan)
    BY DEF Refusals, InLogs
  <1>. QED BY <1>1, <1>2 DEF Named, Leads, Sightings

(* A tar's scan and what it keeps are of their kinds.                       *)
THEOREM TarTypes == ScanSpec => []ScanTypeOK
  <1>1. tape \in Tapes /\ ScanStart => ScanInv /\ TarInv
    BY InitInv, TarStarts
  <1>. QED BY <1>1, TarStep, TarTyped, PTL DEF ScanSpec

(* Whatever the blocks of a damaged tar read as, wherever they overlap and   *)
(* however the extensions converge, once the scan is over each named header *)
(* a chain leads to is refused by name, or within what a candidate           *)
(* consumed, and each header without a gate is sighted, or a sighted one's   *)
(* copy.                                                                     *)
THEOREM TarLosesNone == ScanSpec => []TarNoneLost
  <1>1. tape \in Tapes /\ ScanStart => ScanInv /\ TarInv
    BY InitInv, TarStarts
  <1>. QED BY <1>1, TarStep, TarTold, PTL DEF ScanSpec

-------------------------------------------------------------------------------
(* The other formats' scans.                                                *)

(* Numbers have a least, and where bounded a greatest.                      *)
LEMMA LeastOf ==
  ASSUME NEW S, S \subseteq Nat, S # {}
  PROVE  Min(S) \in S /\ \A k \in S : Min(S) <= k
  <1>. DEFINE R == {ss \in Nat \X Nat : ss[1] < ss[2]}
  <1>1. IsWellFoundedOn(R, Nat)
    BY NatLessThanWellFounded DEF OpToRel
  <1>2. \A n, k \in Nat : ~ (<<k, n>> \in R) => n <= k
    OBVIOUS
  <1>. HIDE DEF R
  <1>3. PICK n \in S : \A k \in S : ~ (<<k, n>> \in R)
    BY <1>1, WFMin
  <1>4. \A k \in S : n <= k
    BY <1>2, <1>3
  <1>. QED BY <1>3, <1>4 DEF Min

LEMMA GreatestOf ==
  ASSUME NEW S, NEW bound \in Nat, S \subseteq 0 .. bound, S # {}
  PROVE  Max(S) \in S /\ \A k \in S : k <= Max(S)
  <1>. DEFINE D == {bound - k : k \in S}
  <1>1. D \subseteq Nat /\ D # {}
    <2>1. \A k \in S : bound - k \in Nat
      OBVIOUS
    <2>2. PICK k \in S : TRUE
      OBVIOUS
    <2>3. bound - k \in D
      BY <2>2
    <2>. QED BY <2>1, <2>3
  <1>2. PICK d \in D : \A e \in D : d <= e
    <2>. HIDE DEF D
    <2>1. Min(D) \in D /\ \A e \in D : Min(D) <= e
      BY <1>1, LeastOf
    <2>. QED BY <2>1
  <1>3. PICK n \in S : d = bound - n
    BY <1>2
  <1>4. ASSUME NEW k \in S PROVE k <= n
    <2>1. bound - k \in D
      OBVIOUS
    <2>2. d <= bound - k
      BY <1>2, <2>1
    <2>. QED BY <1>3, <2>2
  <1>. QED BY <1>4 DEF Max

-------------------------------------------------------------------------------
(* The archive: the kinds of its numbers.                                   *)
Known == dump \in Dumps

LEMMA AlignedType ==
  ASSUME NEW n \in Nat PROVE Aligned(n) \in Nat
  <1>1. Align \in Nat \ {0}
    BY HuntLimits
  <1>2. (n + Align - 1) \div Align \in Nat
    BY <1>1
  <1>3. ASSUME NEW q \in Nat PROVE q * Align \in Nat
    BY <1>1, <1>3
  <1>. QED BY <1>2, <1>3 DEF Aligned

LEMMA PartsType ==
  ASSUME Known, NEW at \in DOMAIN dump.headers
  PROVE  /\ at \in Nat /\ at + Fixed <= End
         /\ Len(Parts(at)) \in Nat
         /\ \A k \in 0 .. Len(Parts(at)) :
               Bill(at, k) \in Nat /\ PieceAfter(at, k) \in Nat /\ PieceAfter(at, k) >= at
         /\ VariableEnd(at) \in Nat /\ VariableEnd(at) >= at
         /\ Span(at) \in Nat \cup {Absent}
         /\ dump.format # "zip" => Span(at) \in Nat
  <1>1. /\ DOMAIN dump.headers \subseteq Places
        /\ PiecesType(dump.headers[at].parts)
        /\ dump.headers[at].span \in Nat \cup {Absent}
        /\ dump.format # "zip" => dump.headers[at].span # Absent
    BY DumpsType DEF Known
  <1>2. at \in 0 .. End - Fixed /\ End \in Nat /\ Fixed \in Nat
    BY <1>1, HuntLimits DEF Places
  <1>3. Parts(at) \in Seq([bill : Nat, len : Nat])
    BY <1>1 DEF PiecesType, Parts
  <1>4. Len(Parts(at)) \in Nat
    BY <1>3
  <1>5. ASSUME NEW k \in 1 .. Len(Parts(at)) PROVE Parts(at)[k] \in [bill : Nat, len : Nat]
    <2>1. ASSUME NEW T, NEW s \in Seq(T), NEW n \in 1 .. Len(s) PROVE s[n] \in T
      OBVIOUS
    <2>. QED BY <1>3, <2>1
  <1>6. ASSUME NEW k \in 0 .. Len(Parts(at))
        PROVE  Bill(at, k) \in Nat /\ PieceAfter(at, k) \in Nat /\ PieceAfter(at, k) >= at
    <2>1. CASE k = 0
      BY <2>1, <1>2 DEF Bill, PieceAfter
    <2>2. CASE k # 0
      <3>1. k \in 1 .. Len(Parts(at))
        BY <2>2, <1>4
      <3>2. Parts(at)[k].bill \in Nat /\ Parts(at)[k].len \in Nat
        BY <3>1, <1>5
      <3>. QED BY <2>2, <3>2, <1>2 DEF Bill, PieceAfter
    <2>. QED BY <2>1, <2>2
  <1>7. VariableEnd(at) \in Nat /\ VariableEnd(at) >= at
    BY <1>4, <1>6 DEF VariableEnd
  <1>. QED BY <1>1, <1>2, <1>4, <1>6, <1>7 DEF Span

(* Where a payload begins, and what it lands on.                            *)
LEMMA LandingType ==
  ASSUME Known, NEW at \in DOMAIN dump.headers
  PROVE  /\ Body(at) \in Nat
         /\ Span(at) \in Nat => Landing(at) \in Nat
  <1>1. VariableEnd(at) \in Nat /\ VariableEnd(at) >= at /\ at \in Nat
    BY PartsType
  <1>2. VariableEnd(at) - at \in Nat
    BY <1>1
  <1>3. Aligned(VariableEnd(at) - at) \in Nat
    BY <1>2, AlignedType
  <1>4. Body(at) \in Nat
    BY <1>1, <1>3 DEF Body, FileMark
  <1>5. ASSUME Span(at) \in Nat PROVE Landing(at) \in Nat
    BY <1>4, <1>5, AlignedType DEF Landing
  <1>. QED BY <1>4, <1>5

-------------------------------------------------------------------------------
(* The budget: what is paid fits.                                           *)
LEMMA AllowanceType ==
  ASSUME Known
  PROVE  dump.allowance \in Nat /\ End \in Nat
  <1>1. End \in Nat /\ dump.allowance \in 0 .. 2 * End
    BY DumpsType, HuntLimits DEF Known
  <1>. QED BY <1>1

LEMMA PaidWithin ==
  ASSUME Known, NEW at \in DOMAIN dump.headers, NEW spent \in 0 .. dump.allowance
  PROVE  Paid(at, spent) \in 0 .. dump.allowance
  <1>. DEFINE read == {k \in 0 .. Len(Parts(at)) : k > 0 => ReadableTo(at, k) <= End}
              paid == {k \in 0 .. Pieces(at) : spent + Bill(at, k) <= dump.allowance}
  <1>1. /\ Len(Parts(at)) \in Nat
        /\ \A k \in 0 .. Len(Parts(at)) : Bill(at, k) \in Nat
        /\ dump.allowance \in Nat
    BY PartsType, AllowanceType
  <1>2. Pieces(at) \in 0 .. Len(Parts(at))
    <2>1. 0 \in read /\ read \subseteq 0 .. Len(Parts(at))
      BY <1>1
    <2>2. Max(read) \in read
      <3>. HIDE DEF read
      <3>. QED BY <1>1, <2>1, GreatestOf
    <2>3. Max(read) \in 0 .. Len(Parts(at))
      BY <2>1, <2>2
    <2>. QED BY <1>1, <2>3 DEF Pieces
  <1>3. 0 \in paid /\ paid \subseteq 0 .. Pieces(at) /\ Pieces(at) \in Nat
    BY <1>1, <1>2 DEF Bill
  <1>4. Max(paid) \in paid
    <2>. HIDE DEF paid
    <2>. QED BY <1>3, GreatestOf
  <1>5. Afforded(at, spent) \in paid
    BY <1>4 DEF Afforded
  <1>6. Afforded(at, spent) \in 0 .. Len(Parts(at))
    BY <1>1, <1>2, <1>5
  <1>. QED BY <1>1, <1>5, <1>6 DEF Paid

LEMMA LookWithin ==
  ASSUME Known, NEW next, NEW spent \in 0 .. dump.allowance
  PROVE  PaidToLook(next, spent) \in 0 .. dump.allowance
  BY PaidWithin DEF PaidToLook, HeaderThere

-------------------------------------------------------------------------------
(* The runs of zeros that are remembered: each true, and apart.             *)
RunInv(start, run) ==
    /\ start \in Nat /\ run.end \in Nat /\ start < run.end /\ run.end <= End
    /\ start .. run.end - 1 \subseteq dump.zeros
    /\ run.eof <=> run.end = End
    /\ ~run.eof => run.end \notin dump.zeros

MemoInv ==
    /\ \A start \in DOMAIN hunt.memo : RunInv(start, hunt.memo[start])
    /\ \A one, other \in DOMAIN hunt.memo : one < other => hunt.memo[one].end <= other

Covered(i) == \E start \in DOMAIN hunt.memo : start <= i /\ i < hunt.memo[start].end

ReadInv ==
    /\ zeroReads \in [0 .. End - 1 -> 0 .. 1]
    /\ \A i \in 0 .. End - 1 : zeroReads[i] = 1 => Covered(i)

(* The last run at or before an offset.                                     *)
LEMMA RunBeforeIsLast ==
  ASSUME MemoInv, NEW from \in Nat, \E start \in DOMAIN hunt.memo : start <= from
  PROVE  /\ RunBefore(from) \in DOMAIN hunt.memo /\ RunBefore(from) <= from
         /\ \A start \in DOMAIN hunt.memo : start <= from => start <= RunBefore(from)
  <1>. DEFINE S == {start \in DOMAIN hunt.memo : start <= from}
  <1>1. S # {} /\ S \subseteq 0 .. from
    BY DEF MemoInv, RunInv
  <1>2. Max(S) \in S /\ \A k \in S : k <= Max(S)
    <2>. HIDE DEF S
    <2>. QED BY <1>1, GreatestOf
  <1>. QED BY <1>2 DEF RunBefore

(* Where nothing is remembered of an offset, no run reaches past it.        *)
LEMMA NoRunReaches ==
  ASSUME Known, MemoInv, NEW from \in 0 .. End - 1, ~Remembered(from),
         NEW start \in DOMAIN hunt.memo, start <= from
  PROVE  hunt.memo[start].end <= from
  <1>. DEFINE last == RunBefore(from)
  <1>1. /\ last \in DOMAIN hunt.memo /\ last <= from /\ start <= last
    BY RunBeforeIsLast
  <1>2. RunInv(last, hunt.memo[last]) /\ RunInv(start, hunt.memo[start])
    BY <1>1 DEF MemoInv
  <1>3. End \in Nat
    BY AllowanceType
  <1>4. hunt.memo[last].end <= from
    BY <1>1, <1>2, <1>3 DEF Remembered, RunInv
  <1>5. start < last => hunt.memo[start].end <= last
    BY <1>1 DEF MemoInv
  <1>. QED BY <1>1, <1>2, <1>3, <1>4, <1>5 DEF RunInv

(* Where a reading stops.                                                   *)
LEMMA Stops ==
  ASSUME Known, MemoInv, NEW from \in 0 .. End - 1
  PROVE  /\ StopsAt(from) \in Nat /\ from <= StopsAt(from) /\ StopsAt(from) <= End
         /\ from .. StopsAt(from) - 1 \subseteq dump.zeros
         /\ \A start \in DOMAIN hunt.memo : start > from => StopsAt(from) <= start
         /\ StopsAt(from) \notin DOMAIN hunt.memo /\ StopsAt(from) # End
               => StopsAt(from) \notin dump.zeros
         /\ StopsAt(from) \in DOMAIN hunt.memo => StopsAt(from) > from
               \/ from \in DOMAIN hunt.memo
  <1>. DEFINE S == {End} \cup ((from .. End - 1) \ dump.zeros)
                   \cup {start \in DOMAIN hunt.memo : start > from}
  <1>1. End \in Nat /\ \A start \in DOMAIN hunt.memo : start \in Nat
    BY AllowanceType DEF MemoInv, RunInv
  <1>2. S \subseteq Nat /\ S # {} /\ \A k \in S : from <= k
    BY <1>1
  <1>3. Min(S) \in S /\ \A k \in S : Min(S) <= k
    <2>. HIDE DEF S
    <2>. QED BY <1>2, LeastOf
  <1>4. StopsAt(from) = Min(S)
    BY DEF StopsAt
  <1>5. StopsAt(from) \in S /\ \A k \in S : StopsAt(from) <= k
    BY <1>3, <1>4
  <1>. HIDE DEF StopsAt
  <1>6. StopsAt(from) \in Nat /\ from <= StopsAt(from) /\ StopsAt(from) <= End
    BY <1>1, <1>2, <1>5
  <1>7. ASSUME NEW i \in from .. StopsAt(from) - 1, i \notin dump.zeros PROVE FALSE
    <2>1. i \in from .. End - 1
      BY <1>1, <1>6
    <2>2. i \in S
      BY <1>7, <2>1
    <2>. QED BY <1>5, <1>6, <2>2
  <1>. QED BY <1>1, <1>5, <1>6, <1>7

LEMMA RunRead ==
  ASSUME NEW stop, NEW eof \in BOOLEAN
  PROVE  LET run == [end |-> stop, eof |-> eof] IN run.end = stop /\ run.eof = eof
  OBVIOUS

(* What a reading records is a run, and tells the truth of the end.         *)
LEMMA NewRun ==
  ASSUME Known, MemoInv, NEW from \in 0 .. End - 1, StopsAt(from) > from
  PROVE  /\ RunInv(from, RunFrom(from)) /\ StopsAt(from) <= RunFrom(from).end
         /\ StopsAt(from) \in DOMAIN hunt.memo => RunFrom(from) = hunt.memo[StopsAt(from)]
         /\ StopsAt(from) \notin DOMAIN hunt.memo => RunFrom(from).end = StopsAt(from)
  <1>. DEFINE stop == StopsAt(from)
  <1>1. /\ stop \in Nat /\ stop <= End /\ End \in Nat
        /\ from .. stop - 1 \subseteq dump.zeros
        /\ stop \notin DOMAIN hunt.memo /\ stop # End => stop \notin dump.zeros
    BY Stops, AllowanceType
  <1>. HIDE DEF stop
  <1>2. CASE stop \in DOMAIN hunt.memo
    <2>1. RunFrom(from) = hunt.memo[stop]
      BY <1>2 DEF RunFrom, stop
    <2>2. RunInv(stop, hunt.memo[stop])
      BY <1>2 DEF MemoInv
    <2>3. ASSUME NEW i \in from .. hunt.memo[stop].end - 1 PROVE i \in dump.zeros
      <3>1. i \in from .. stop - 1 \/ i \in stop .. hunt.memo[stop].end - 1
        BY <1>1, <2>2 DEF RunInv
      <3>. QED BY <1>1, <2>2, <3>1 DEF RunInv
    <2>. QED BY <1>1, <1>2, <2>1, <2>2, <2>3 DEF RunInv, stop
  <1>3. CASE stop \notin DOMAIN hunt.memo
    <2>1. RunFrom(from) = [end |-> stop, eof |-> stop = End]
      BY <1>3 DEF RunFrom, stop
    <2>2. RunFrom(from).end = stop
      BY <2>1
    <2>3. RunFrom(from).eof <=> stop = End
      <3>1. (stop = End) \in BOOLEAN
        OBVIOUS
      <3>2. RunFrom(from).eof = (stop = End)
        BY <2>1, <3>1, RunRead, Zenon
      <3>. QED BY <3>2
    <2>. QED BY <1>1, <1>3, <2>2, <2>3 DEF RunInv, stop
  <1>. QED BY <1>2, <1>3

(* Asking after the zeros from an offset keeps the record: still true, still *)
(* apart, and it covers what was read now, none of which it covered before. *)
LEMMA AskingKeeps ==
  ASSUME Known, MemoInv, ReadInv, NEW from \in 0 .. End - 1, UNCHANGED dump,
         hunt'.memo = MemoAfter(from),
         zeroReads' = [i \in DOMAIN zeroReads |->
                         zeroReads[i] + (IF i \in ZerosRead(from) THEN 1 ELSE 0)]
  PROVE  MemoInv' /\ ReadInv'
  <1>0. End \in Nat /\ zeroReads \in [0 .. End - 1 -> 0 .. 1]
    BY AllowanceType DEF ReadInv
  <1>1. CASE Remembered(from)
    <2>1. hunt'.memo = hunt.memo /\ ZerosRead(from) = {}
      BY <1>1 DEF MemoAfter, ZerosRead
    <2>2. zeroReads' = zeroReads
      BY <1>0, <2>1
    <2>. QED BY <2>1, <2>2 DEF MemoInv, ReadInv, Covered, RunInv
  <1>2. CASE ~Remembered(from)
    <2>. DEFINE stop == StopsAt(from)
    <2>1. /\ stop \in Nat /\ from <= stop /\ stop <= End
          /\ \A start \in DOMAIN hunt.memo : start > from => stop <= start
      BY Stops
    <2>2. \A start \in DOMAIN hunt.memo : start <= from => hunt.memo[start].end <= from
      BY <1>2, NoRunReaches
    <2>3. ZerosRead(from) = from .. stop - 1
      BY <1>2 DEF ZerosRead
    <2>4. ASSUME NEW i \in from .. stop - 1 PROVE i \in 0 .. End - 1 /\ zeroReads[i] = 0
      <3>1. i \in 0 .. End - 1
        BY <1>0, <2>1
      <3>2. ~Covered(i)
        BY <2>1, <2>2, <2>4, <3>1 DEF Covered, MemoInv, RunInv
      <3>. QED BY <1>0, <3>1, <3>2 DEF ReadInv
    <2>5. /\ zeroReads' \in [0 .. End - 1 -> 0 .. 1]
          /\ \A i \in 0 .. End - 1 : i \notin ZerosRead(from) => zeroReads'[i] = zeroReads[i]
      BY <1>0, <2>3, <2>4
    <2>6. CASE stop = from
      <3>1. hunt'.memo = hunt.memo /\ ZerosRead(from) = {}
        BY <2>3, <2>6 DEF MemoAfter
      <3>2. zeroReads' = zeroReads
        BY <1>0, <3>1
      <3>. QED BY <3>1, <3>2 DEF MemoInv, ReadInv, Covered, RunInv
    <2>7. CASE stop # from
      <3>. DEFINE run == RunFrom(from)
      <3>1. stop > from
        BY <2>1, <2>7
      <3>2. /\ RunInv(from, run) /\ stop <= run.end
            /\ stop \in DOMAIN hunt.memo => run = hunt.memo[stop]
            /\ stop \notin DOMAIN hunt.memo => run.end = stop
        BY <3>1, NewRun
      <3>3. hunt'.memo = [start \in (DOMAIN hunt.memo \ {stop}) \cup {from} |->
                            IF start = from THEN run ELSE hunt.memo[start]]
        BY <1>2, <2>7 DEF MemoAfter
      <3>. HIDE DEF stop, run
      <3>4. /\ DOMAIN hunt'.memo = (DOMAIN hunt.memo \ {stop}) \cup {from}
            /\ hunt'.memo[from] = run
            /\ \A start \in DOMAIN hunt'.memo : start # from =>
                 start \in DOMAIN hunt.memo /\ start # stop /\ hunt'.memo[start] = hunt.memo[start]
        BY <3>3
      <3>5. ASSUME NEW start \in DOMAIN hunt'.memo PROVE RunInv(start, hunt'.memo[start])
        BY <3>2, <3>4 DEF MemoInv
      <3>6. ASSUME NEW one \in DOMAIN hunt'.memo, NEW other \in DOMAIN hunt'.memo, one < other
            PROVE  hunt'.memo[one].end <= other
        <4>1. CASE one = from
          <5>1. other \in DOMAIN hunt.memo /\ other # stop /\ other > from
            BY <3>4, <3>6, <4>1
          <5>2. stop < other /\ other \in Nat /\ stop \in Nat
            BY <2>1, <5>1 DEF MemoInv, RunInv, stop
          <5>3. stop \in DOMAIN hunt.memo => hunt.memo[stop].end <= other
            BY <5>1, <5>2 DEF MemoInv
          <5>. QED BY <3>2, <3>4, <4>1, <5>1, <5>2, <5>3
        <4>2. CASE one # from /\ other = from
          BY <2>2, <3>4, <3>6, <4>2 DEF MemoInv, RunInv
        <4>3. CASE one # from /\ other # from
          BY <3>4, <3>6, <4>3 DEF MemoInv
        <4>. QED BY <4>1, <4>2, <4>3
      <3>7. ASSUME NEW i \in 0 .. End - 1, zeroReads'[i] = 1
            PROVE  \E start \in DOMAIN hunt'.memo : start <= i /\ i < hunt'.memo[start].end
        <4>1. CASE i \in ZerosRead(from)
          <5>1. from <= i /\ i < stop
            BY <2>1, <2>3, <4>1 DEF stop
          <5>2. i < run.end /\ run.end \in Nat
            BY <2>1, <3>2, <5>1 DEF RunInv
          <5>. QED BY <3>4, <5>1, <5>2
        <4>2. CASE i \notin ZerosRead(from)
          <5>1. PICK start \in DOMAIN hunt.memo : start <= i /\ i < hunt.memo[start].end
            BY <2>5, <3>7, <4>2 DEF ReadInv, Covered
          <5>2. CASE start = stop
            <6>1. from <= i /\ i < run.end
              BY <2>1, <3>2, <5>1, <5>2
            <6>. QED BY <3>4, <6>1
          <5>3. CASE start # stop
            <6>1. start # from
              BY <1>2, <2>2, <5>1, <2>1 DEF MemoInv, RunInv
            <6>2. start \in DOMAIN hunt'.memo /\ hunt'.memo[start] = hunt.memo[start]
              BY <3>4, <5>3, <6>1
            <6>. QED BY <5>1, <6>2
          <5>. QED BY <5>2, <5>3
        <4>. QED BY <4>1, <4>2
      <3>8. MemoInv'
        BY <3>5, <3>6 DEF MemoInv, RunInv
      <3>. QED BY <2>5, <3>7, <3>8 DEF ReadInv, Covered
    <2>. QED BY <2>6, <2>7
  <1>. QED BY <1>1, <1>2

(* What is said to be zeros to the end is.                                  *)
LEMMA ZerosToTheEnd ==
  ASSUME Known, MemoInv, NEW from \in 0 .. End - 1, ZerosToEnd(from)
  PROVE  from .. End - 1 \subseteq dump.zeros
  <1>0. End \in Nat
    BY AllowanceType
  <1>1. CASE Remembered(from)
    <2>. DEFINE last == RunBefore(from)
    <2>1. last \in DOMAIN hunt.memo /\ last <= from
      BY <1>1, RunBeforeIsLast DEF Remembered
    <2>2. RunInv(last, hunt.memo[last])
      BY <2>1 DEF MemoInv
    <2>3. hunt.memo[last].eof
      BY <1>1 DEF ZerosToEnd, RecalledToEnd
    <2>. QED BY <1>0, <2>1, <2>2, <2>3 DEF RunInv
  <1>2. CASE ~Remembered(from)
    <2>1. RunFrom(from).eof
      BY <1>2 DEF ZerosToEnd
    <2>2. CASE StopsAt(from) > from
      BY <1>0, <2>1, <2>2, NewRun DEF RunInv
    <2>3. CASE StopsAt(from) = from
      <3>1. StopsAt(from) \notin DOMAIN hunt.memo
        BY <1>2, <2>3, NoRunReaches DEF MemoInv, RunInv
      <3>2. RunFrom(from) = [end |-> StopsAt(from), eof |-> StopsAt(from) = End]
        BY <3>1 DEF RunFrom
      <3>3. from = End
        <4>1. (StopsAt(from) = End) \in BOOLEAN
          OBVIOUS
        <4>2. RunFrom(from).eof = (StopsAt(from) = End)
          BY <3>2, <4>1, RunRead, Zenon
        <4>. QED BY <2>1, <2>3, <4>2
      <3>. QED BY <1>0, <3>3
    <2>. QED BY <2>2, <2>3, Stops, <1>0
  <1>. QED BY <1>1, <1>2

-------------------------------------------------------------------------------
LEMMA LastAppended ==
  ASSUME NEW T, NEW list \in Seq(T), NEW x
  PROVE  /\ Len(list) + 1 \in DOMAIN Append(list, x)
         /\ Append(list, x)[Len(list) + 1] = x
  OBVIOUS

(* The candidates.                                                          *)
Candidates == [offset : Nat, body : Nat, span : Nat \cup {Absent},
               left : Nat \cup {Absent}, indexed : BOOLEAN]

LeavesFewer(c) == c.left # Absent => c.left < c.span \/ (dump.format = "cpio" /\ c.body > End)

RecoveredInv ==
    /\ recovered \in Seq(Candidates)
    /\ EntriesFoundOrTold
    /\ \A n \in DOMAIN recovered : LeavesFewer(recovered[n])

HuntFields == {"from", "spent", "bounded", "variants", "held", "memo", "row", "stage"}

ScannerInv ==
    /\ DOMAIN hunt = HuntFields
    /\ hunt.from \in Nat /\ hunt.spent \in 0 .. dump.allowance /\ hunt.row \in Nat \ {0}
    /\ hunt.stage \in {"search", "directory", "done"}
    /\ hunt.stage = "directory" => dump.format = "zip"

HuntInv == Known /\ ScannerInv /\ MemoInv /\ ReadInv /\ RecoveredInv

(* A header's candidate: what is left of its payload is less than declared. *)
LEMMA GivesCandidate ==
  ASSUME Known, NEW at \in DOMAIN dump.headers, NEW span \in Nat \cup {Absent}, Intact(at),
         NEW indexed \in BOOLEAN
  PROVE  Gives(at, span, indexed) \in Candidates /\ LeavesFewer(Gives(at, span, indexed))
  <1>1. at \in Nat /\ Body(at) \in Nat /\ End \in Nat
    BY PartsType, LandingType, AllowanceType
  <1>2. Absent \notin Nat
    BY DEF Absent
  <1>3. dump.format \in {"zip", "arc"} => Body(at) <= End
    <2>1. dump.format \in {"zip", "arc"} => Body(at) = VariableEnd(at)
      BY DEF Body
    <2>. QED BY <2>1 DEF Intact
  <1>4. dump.format \in {"zip", "zoo", "lha", "arj", "arc", "cpio"}
    BY DumpsType DEF Known
  <1>5. Left(at, span) \in Nat \cup {Absent}
    BY <1>1 DEF Left
  <1>6. Left(at, span) # Absent
          => Left(at, span) < span \/ (dump.format = "cpio" /\ Body(at) > End)
    <2>1. CASE Whole(at, span)
      BY <2>1 DEF Left
    <2>2. CASE ~Whole(at, span)
      <3>1. /\ span \in Nat /\ Body(at) + span > End
            /\ dump.format \in {"zoo", "lha", "arj"} => span # 0
        BY <1>1, <2>2 DEF Whole
      <3>2. CASE Body(at) > End
        <4>1. Left(at, span) = 0
          BY <2>2, <3>2 DEF Left
        <4>. QED BY <1>1, <1>3, <1>4, <3>1, <3>2, <4>1
      <3>3. CASE ~(Body(at) > End)
        <4>1. Left(at, span) = End - Body(at)
          BY <2>2, <3>3 DEF Left
        <4>. QED BY <1>1, <3>1, <3>3, <4>1
      <3>. QED BY <3>2, <3>3
    <2>. QED BY <2>1, <2>2
  <1>. QED BY <1>1, <1>5, <1>6 DEF Gives, Candidates, LeavesFewer

(* One more candidate takes nothing from those before it.                   *)
LEMMA OneMore ==
  ASSUME recovered \in Seq(Candidates), NEW c \in Candidates, LeavesFewer(c), UNCHANGED dump,
         \A n \in DOMAIN recovered : LeavesFewer(recovered[n]),
         recovered' = Append(recovered, c)
  PROVE  /\ recovered' \in Seq(Candidates)
         /\ (\A n \in DOMAIN recovered : LeavesFewer(recovered[n]))'
         /\ Len(recovered) + 1 \in DOMAIN recovered' /\ recovered'[Len(recovered) + 1] = c
         /\ RecoveredAt' = RecoveredAt \cup {c.offset}
         /\ \A p : JumpedOver(p) => JumpedOver(p)'
  <1>1. /\ recovered' \in Seq(Candidates) /\ DOMAIN recovered' = 1 .. Len(recovered) + 1
        /\ DOMAIN recovered = 1 .. Len(recovered) /\ Len(recovered) \in Nat
        /\ \A n \in DOMAIN recovered : recovered'[n] = recovered[n]
        /\ recovered'[Len(recovered) + 1] = c
    OBVIOUS
  <1>2. \A n \in DOMAIN recovered' : n \in DOMAIN recovered \/ n = Len(recovered) + 1
    BY <1>1
  <1>3. \A n \in DOMAIN recovered : n \in DOMAIN recovered'
    BY <1>1
  <1>4. Len(recovered) + 1 \in DOMAIN recovered'
    BY <1>1
  <1>5. (\A n \in DOMAIN recovered : LeavesFewer(recovered[n]))'
    BY <1>1, <1>2 DEF LeavesFewer
  <1>6. RecoveredAt' = RecoveredAt \cup {c.offset}
    BY <1>1, <1>2, <1>3, <1>4, Zenon DEF RecoveredAt
  <1>7. ASSUME NEW p, JumpedOver(p) PROVE JumpedOver(p)'
    <2>1. PICK n \in DOMAIN recovered :
            LET e == recovered[n]
                next == e.body + Aligned(e.span)
            IN  /\ ~e.indexed /\ e.left = Absent /\ p > e.offset
                /\ IF dump.format = "cpio"
                   THEN /\ p < next
                        /\ \/ next >= End
                           \/ HeaderThere(next) /\ Sound(next)
                           \/ next .. End - 1 \subseteq dump.zeros
                   ELSE p < e.offset + e.span
      BY <1>7 DEF JumpedOver
    <2>2. n \in DOMAIN recovered' /\ recovered'[n] = recovered[n]
      BY <1>1, <1>3
    <2>3. \A at : (HeaderThere(at) /\ Sound(at))' = (HeaderThere(at) /\ Sound(at))
      BY DEF HeaderThere, Sound, Intact, VariableEnd, PieceAfter, Parts
    <2>. QED BY <2>1, <2>2, <2>3 DEF JumpedOver
  <1>. QED BY <1>1, <1>4, <1>5, <1>6, <1>7

-------------------------------------------------------------------------------
(* A step loses no entry that finds, tells of or jumps those it passes.     *)
Passed(p) == ~(hunt.stage = "search" /\ p >= hunt.from)
OfEntry(p) == Sound(p) /\ dump.headers[p].is \in {"entry", "symlink"}
Accounted(p) == p \in RecoveredAt \/ p \in unjudged \/ JumpedOver(p)

LEMMA SameHeaders ==
  ASSUME UNCHANGED dump
  PROVE  \A p : /\ (OfEntry(p))' = OfEntry(p) /\ (Sound(p))' = Sound(p)
                /\ (HeaderThere(p))' = HeaderThere(p)
  BY DEF OfEntry, HeaderThere, Sound, Intact, VariableEnd, PieceAfter, Parts

LEMMA NoneLost ==
  ASSUME EntriesFoundOrTold, UNCHANGED dump,
         \A p \in DOMAIN dump.headers : Accounted(p) => Accounted(p)',
         \A p \in DOMAIN dump.headers : Passed(p)' /\ OfEntry(p) => Passed(p) \/ Accounted(p)'
  PROVE  EntriesFoundOrTold'
  <1>1. \A p \in DOMAIN dump.headers : Passed(p) /\ OfEntry(p) => Accounted(p)
    BY DEF EntriesFoundOrTold, Passed, OfEntry, Accounted
  <1>2. \A p \in DOMAIN dump.headers : Passed(p)' /\ OfEntry(p) => Accounted(p)'
    BY <1>1
  <1>3. \A p \in DOMAIN dump.headers : (Passed(p) /\ OfEntry(p) => Accounted(p))'
    BY <1>2, SameHeaders
  <1>4. (\A p \in DOMAIN dump.headers : Passed(p) /\ OfEntry(p) => Accounted(p))'
    BY <1>3
  <1>. QED BY <1>4 DEF EntriesFoundOrTold, Passed, OfEntry, Accounted

LEMMA SameCandidates ==
  ASSUME UNCHANGED <<dump, recovered>>, unjudged \subseteq unjudged'
  PROVE  /\ \A p : Accounted(p) => Accounted(p)'
         /\ \A n \in DOMAIN recovered : LeavesFewer(recovered[n]) => LeavesFewer(recovered[n])'
  <1>1. \A p : JumpedOver(p) => JumpedOver(p)'
    BY SameHeaders DEF JumpedOver
  <1>2. RecoveredAt' = RecoveredAt
    BY DEF RecoveredAt
  <1>. QED BY <1>1, <1>2 DEF Accounted, LeavesFewer

(* What a sort makes of a list is the list's places, each taken once.       *)
LEMMA OrderIsOnto ==
  ASSUME NEW n \in Nat, NEW f \in [1 .. n -> 1 .. n],
         \A j, k \in 1 .. n : f[j] = f[k] => j = k
  PROVE  \A m \in 1 .. n : \E k \in 1 .. n : f[k] = m
  <1>1. IsFiniteSet(1 .. n)
    <2>1. 1 \in Int /\ n \in Int
      OBVIOUS
    <2>. QED BY <2>1, FS_Interval
  <1>. DEFINE D == 1 .. n
  <1>2. f \in [D -> D] /\ IsFiniteSet(D) /\ \A j, k \in D : f[j] = f[k] => j = k
    BY <1>1
  <1>. HIDE DEF D
  <1>3. f \in Injection(D, D)
    BY <1>2 DEF Injection, IsInjective
  <1>4. f \in Surjection(D, D)
    BY <1>2, <1>3, FS_Injection
  <1>5. \A m \in D : \E k \in D : f[k] = m
    BY <1>4 DEF Surjection
  <1>. QED BY <1>5 DEF D

(* Nothing is lost by sorting the candidates.                               *)
LEMMA SortedSame ==
  ASSUME recovered \in Seq(Candidates), recovered' \in InFileOrder, UNCHANGED dump
  PROVE  /\ recovered' \in Seq(Candidates) /\ RecoveredAt' = RecoveredAt
         /\ \A p : JumpedOver(p) => JumpedOver(p)'
         /\ (\A n \in DOMAIN recovered : LeavesFewer(recovered[n]))
              => (\A n \in DOMAIN recovered : LeavesFewer(recovered[n]))'
         /\ (\A m, n \in DOMAIN recovered : recovered[m].offset = recovered[n].offset => m = n)
              => (\A n \in 1 .. Len(recovered) - 1 : recovered[n].offset < recovered[n + 1].offset)'
  <1>. DEFINE N == Len(recovered)
              Before(j, k) == \/ recovered[j].offset < recovered[k].offset
                              \/ recovered[j].offset = recovered[k].offset /\ j < k
  <1>1. N \in Nat /\ DOMAIN recovered = 1 .. N /\ \A n \in 1 .. N : recovered[n] \in Candidates
    OBVIOUS
  <1>2. PICK f \in [1 .. N -> 1 .. N] :
          /\ \A j, k \in 1 .. N : j < k => Before(f[j], f[k])
          /\ recovered' = [k \in 1 .. N |-> recovered[f[k]]]
    BY <1>1 DEF InFileOrder
  <1>. HIDE DEF N
  <1>3. \A j \in 1 .. N : f[j] \in 1 .. N /\ recovered[f[j]].offset \in Nat /\ f[j] \in Nat
    BY <1>1 DEF Candidates
  <1>4. ASSUME NEW j \in 1 .. N, NEW k \in 1 .. N, f[j] = f[k] PROVE j = k
    <2>1. ~Before(f[j], f[k]) /\ ~Before(f[k], f[j])
      BY <1>3, <1>4
    <2>. QED BY <1>1, <1>2, <2>1
  <1>5. \A m \in 1 .. N : \E k \in 1 .. N : f[k] = m
    BY <1>1, <1>4, OrderIsOnto
  <1>6. /\ recovered' \in Seq(Candidates) /\ DOMAIN recovered' = 1 .. N /\ Len(recovered') = N
        /\ \A k \in 1 .. N : recovered'[k] = recovered[f[k]]
    <2>1. recovered' \in [1 .. N -> Candidates]
      BY <1>1, <1>2, <1>3
    <2>2. ASSUME NEW h \in [1 .. N -> Candidates]
          PROVE  h \in Seq(Candidates) /\ DOMAIN h = 1 .. N /\ Len(h) = N
      BY <1>1, <2>2
    <2>3. recovered' \in Seq(Candidates) /\ DOMAIN recovered' = 1 .. N /\ Len(recovered') = N
      BY <2>1, <2>2
    <2>4. \A k \in 1 .. N : recovered'[k] = recovered[f[k]]
      BY <1>2
    <2>. QED BY <2>3, <2>4
  <1>7. ASSUME NEW m \in 1 .. N PROVE \E k \in 1 .. N : recovered'[k] = recovered[m]
    <2>1. PICK k \in 1 .. N : f[k] = m
      BY <1>5
    <2>2. recovered'[k] = recovered[m]
      BY <1>6, <2>1
    <2>. QED BY <2>2
  <1>8. RecoveredAt' = RecoveredAt
    <2>1. \A m \in DOMAIN recovered : \E k \in DOMAIN recovered' : recovered'[k].offset = recovered[m].offset
      <3>1. ASSUME NEW m \in 1 .. N PROVE \E k \in 1 .. N : recovered'[k].offset = recovered[m].offset
        BY <1>7
      <3>. QED BY <1>1, <1>6, <3>1
    <2>2. \A k \in DOMAIN recovered' : f[k] \in DOMAIN recovered /\ recovered'[k].offset = recovered[f[k]].offset
      BY <1>1, <1>3, <1>6
    <2>. QED BY <2>1, <2>2 DEF RecoveredAt
  <1>9. ASSUME NEW p, JumpedOver(p) PROVE JumpedOver(p)'
    <2>1. PICK m \in DOMAIN recovered :
            LET e == recovered[m]
                next == e.body + Aligned(e.span)
            IN  /\ ~e.indexed /\ e.left = Absent /\ p > e.offset
                /\ IF dump.format = "cpio"
                   THEN /\ p < next
                        /\ \/ next >= End
                           \/ HeaderThere(next) /\ Sound(next)
                           \/ next .. End - 1 \subseteq dump.zeros
                   ELSE p < e.offset + e.span
      BY <1>9 DEF JumpedOver
    <2>2. PICK n \in DOMAIN recovered' : recovered'[n] = recovered[m]
      BY <1>1, <1>6, <1>7
    <2>3. \A at : (HeaderThere(at) /\ Sound(at))' = (HeaderThere(at) /\ Sound(at))
      BY DEF HeaderThere, Sound, Intact, VariableEnd, PieceAfter, Parts
    <2>. QED BY <2>1, <2>2, <2>3 DEF JumpedOver
  <1>10. ASSUME \A n \in DOMAIN recovered : LeavesFewer(recovered[n])
         PROVE  (\A n \in DOMAIN recovered : LeavesFewer(recovered[n]))'
    <2>1. \A n \in 1 .. N : LeavesFewer(recovered[f[n]])
      BY <1>1, <1>3, <1>10
    <2>2. \A n \in 1 .. N : LeavesFewer(recovered'[n])
      BY <1>6, <2>1
    <2>. QED BY <1>6, <2>2 DEF LeavesFewer
  <1>11. ASSUME \A m, n \in DOMAIN recovered : recovered[m].offset = recovered[n].offset => m = n
         PROVE  (\A n \in 1 .. Len(recovered) - 1 : recovered[n].offset < recovered[n + 1].offset)'
    <2>1. ASSUME NEW n \in 1 .. N - 1 PROVE recovered'[n].offset < recovered'[n + 1].offset
      <3>1. n \in 1 .. N /\ n + 1 \in 1 .. N /\ n < n + 1
        BY <1>1
      <3>2. Before(f[n], f[n + 1])
        BY <1>2, <3>1
      <3>3. f[n] # f[n + 1]
        BY <1>4, <3>1
      <3>4. recovered[f[n]].offset # recovered[f[n + 1]].offset
        BY <1>1, <1>3, <1>11, <3>1, <3>3
      <3>. QED BY <1>6, <3>1, <3>2, <3>4
    <2>. QED BY <1>6, <2>1
  <1>. QED BY <1>6, <1>8, <1>9, <1>10, <1>11

(* A header passed over is no entry's, or was left unjudged.                *)
LEMMA PassingKeeps ==
  ASSUME HuntInv, NEW hit, FirstHeader(hit), UNCHANGED <<dump, recovered>>,
         unjudged \subseteq unjudged', hunt'.stage = hunt.stage, hunt'.from = hit + 1,
         OfEntry(hit) => hit \in unjudged'
  PROVE  RecoveredInv'
  <1>1. /\ hit \in DOMAIN dump.headers /\ hunt.stage = "search" /\ hit >= hunt.from
        /\ \A at \in DOMAIN dump.headers : at >= hunt.from => hit <= at
    BY DEF FirstHeader
  <1>2. \A at \in DOMAIN dump.headers : at \in Nat
    BY PartsType DEF HuntInv
  <1>3. recovered \in Seq(Candidates) /\ EntriesFoundOrTold
        /\ \A n \in DOMAIN recovered : LeavesFewer(recovered[n])
    BY <1>1 DEF HuntInv, RecoveredInv
  <1>4. ASSUME NEW p \in DOMAIN dump.headers, Passed(p)', OfEntry(p)
        PROVE  Passed(p) \/ Accounted(p)'
    <2>1. p <= hit
      BY <1>1, <1>2, <1>4 DEF Passed
    <2>2. CASE p = hit
      BY <1>4, <2>2 DEF Accounted
    <2>3. CASE p # hit
      BY <1>1, <1>2, <2>1, <2>3 DEF Passed, HuntInv, ScannerInv
    <2>. QED BY <2>2, <2>3
  <1>5. EntriesFoundOrTold'
    BY <1>3, <1>4, SameCandidates, NoneLost
  <1>. QED BY <1>3, <1>5, SameCandidates DEF RecoveredInv

LEMMA SameMemo ==
  ASSUME MemoInv, ReadInv, UNCHANGED <<dump, zeroReads>>, hunt'.memo = hunt.memo
  PROVE  MemoInv' /\ ReadInv'
  BY DEF MemoInv, ReadInv, Covered, RunInv

LEMMA RefusesKeeps ==
  ASSUME HuntInv, NEW hit, FirstHeader(hit), RefusesHeader(hit)
  PROVE  HuntInv'
  <1>1. hit \in DOMAIN dump.headers /\ hunt.stage = "search" /\ hit \in Nat
    BY PartsType DEF FirstHeader, HuntInv
  <1>2. Paid(hit, hunt.spent) \in 0 .. dump.allowance
    BY <1>1, PaidWithin DEF HuntInv, ScannerInv
  <1>3. /\ DOMAIN hunt' = HuntFields /\ hunt'.from = hit + 1 /\ hunt'.spent = Paid(hit, hunt.spent)
        /\ hunt'.stage = hunt.stage /\ hunt'.memo = hunt.memo /\ hunt'.row = hunt.row
    BY DEF RefusesHeader, PassesOver, HuntInv, ScannerInv, HuntFields
  <1>4. UNCHANGED <<dump, recovered, unjudged, zeroReads>> /\ ~OfEntry(hit)
    BY DEF RefusesHeader, PassesOver, NoEntry, OfEntry
  <1>5. RecoveredInv'
    BY <1>3, <1>4, PassingKeeps
  <1>6. MemoInv' /\ ReadInv'
    BY <1>3, <1>4, SameMemo DEF HuntInv
  <1>7. ScannerInv' /\ Known'
    BY <1>1, <1>2, <1>3, <1>4 DEF HuntInv, ScannerInv, Known
  <1>. QED BY <1>5, <1>6, <1>7 DEF HuntInv

LEMMA LeavesKeeps ==
  ASSUME HuntInv, NEW hit, FirstHeader(hit), LeavesUnjudged(hit)
  PROVE  HuntInv'
  <1>1. hit \in DOMAIN dump.headers /\ hunt.stage = "search" /\ hit \in Nat
    BY PartsType DEF FirstHeader, HuntInv
  <1>2. Paid(hit, hunt.spent) \in 0 .. dump.allowance
    BY <1>1, PaidWithin DEF HuntInv, ScannerInv
  <1>3. /\ DOMAIN hunt' = HuntFields /\ hunt'.from = hit + 1 /\ hunt'.spent = Paid(hit, hunt.spent)
        /\ hunt'.stage = hunt.stage /\ hunt'.memo = hunt.memo /\ hunt'.row = hunt.row
    BY DEF LeavesUnjudged, NotJudged, Told, PassesOver, HuntInv, ScannerInv, HuntFields
  <1>4. UNCHANGED <<dump, recovered, zeroReads>> /\ unjudged' = unjudged \cup {hit}
    BY DEF LeavesUnjudged, NotJudged, PassesOver
  <1>5. RecoveredInv'
    BY <1>3, <1>4, PassingKeeps
  <1>6. MemoInv' /\ ReadInv'
    BY <1>3, <1>4, SameMemo DEF HuntInv
  <1>7. ScannerInv' /\ Known'
    BY <1>1, <1>2, <1>3, <1>4 DEF HuntInv, ScannerInv, Known
  <1>. QED BY <1>5, <1>6, <1>7 DEF HuntInv

(* The search goes over a header for a payload's sake only.                 *)
Jumps(hit) == \A p \in DOMAIN dump.headers : p > hit /\ p < hunt'.from => JumpedOver(p)'

(* A header found is a candidate, and what its payload takes the search     *)
(* over is within it.                                                       *)
LEMMA FindingKeeps ==
  ASSUME HuntInv, NEW hit, FirstHeader(hit), IsEntry(hit), UNCHANGED <<dump, unjudged>>,
         recovered' = Append(recovered, Gives(hit, Span(hit), FALSE)),
         hunt'.stage = hunt.stage, hunt'.from \in Nat,
         \A p \in DOMAIN dump.headers : p > hit /\ p < hunt'.from => JumpedOver(p)'
  PROVE  RecoveredInv'
  <1>. DEFINE c == Gives(hit, Span(hit), FALSE)
  <1>1. /\ hit \in DOMAIN dump.headers /\ hunt.stage = "search" /\ hit >= hunt.from
        /\ \A at \in DOMAIN dump.headers : at >= hunt.from => hit <= at
    BY DEF FirstHeader
  <1>2. \A at \in DOMAIN dump.headers : at \in Nat
    BY PartsType DEF HuntInv
  <1>3. recovered \in Seq(Candidates) /\ EntriesFoundOrTold
        /\ \A n \in DOMAIN recovered : LeavesFewer(recovered[n])
    BY <1>1 DEF HuntInv, RecoveredInv
  <1>4. c \in Candidates /\ LeavesFewer(c)
    <2>1. Intact(hit) /\ Span(hit) \in Nat \cup {Absent}
      BY <1>1, PartsType DEF IsEntry, NoEntry, Sound, HuntInv
    <2>. QED BY <1>1, <2>1, GivesCandidate DEF HuntInv
  <1>5. c.offset = hit
    BY DEF Gives
  <1>. HIDE DEF c
  <1>6. /\ recovered' \in Seq(Candidates)
        /\ (\A n \in DOMAIN recovered : LeavesFewer(recovered[n]))'
        /\ RecoveredAt' = RecoveredAt \cup {hit}
        /\ \A p : JumpedOver(p) => JumpedOver(p)'
    BY <1>3, <1>4, <1>5, OneMore DEF c
  <1>7. \A p : Accounted(p) => Accounted(p)'
    BY <1>6 DEF Accounted
  <1>8. ASSUME NEW p \in DOMAIN dump.headers, Passed(p)', OfEntry(p)
        PROVE  Passed(p) \/ Accounted(p)'
    <2>1. /\ ~(p >= hunt'.from) /\ p \in Nat /\ hit \in Nat
          /\ hunt.from \in Nat /\ hunt'.from \in Nat
      BY <1>1, <1>2, <1>8 DEF Passed, HuntInv, ScannerInv
    <2>2. CASE p = hit
      BY <1>6, <2>2 DEF Accounted
    <2>3. CASE p < hit
      <3>1. ~(hit <= p)
        BY <2>1, <2>3
      <3>2. ~(p >= hunt.from)
        BY <1>1, <3>1
      <3>. QED BY <3>2 DEF Passed
    <2>4. CASE p > hit
      BY <2>1, <2>4 DEF Accounted
    <2>. QED BY <2>1, <2>2, <2>3, <2>4
  <1>9. EntriesFoundOrTold'
    BY <1>3, <1>7, <1>8, NoneLost
  <1>. QED BY <1>6, <1>9 DEF RecoveredInv

LEMMA FindsKeeps ==
  ASSUME HuntInv, NEW hit, FirstHeader(hit), FindsEntry(hit)
  PROVE  HuntInv' /\ Jumps(hit)
  <1>. DEFINE c == Gives(hit, Span(hit), FALSE)
  <1>1. /\ hit \in DOMAIN dump.headers /\ hunt.stage = "search" /\ hit \in Nat
        /\ Span(hit) \in Nat \cup {Absent}
    BY PartsType DEF FirstHeader, HuntInv
  <1>2. Paid(hit, hunt.spent) \in 0 .. dump.allowance
    BY <1>1, PaidWithin DEF HuntInv, ScannerInv
  <1>3. /\ DOMAIN hunt' = HuntFields /\ hunt'.from = EngineGoesTo(hit)
        /\ hunt'.spent = Paid(hit, hunt.spent)
        /\ hunt'.stage = hunt.stage /\ hunt'.memo = hunt.memo /\ hunt'.row = hunt.row
    BY DEF FindsEntry, HuntInv, ScannerInv, HuntFields
  <1>4. /\ UNCHANGED <<dump, unjudged, zeroReads>> /\ recovered' = Append(recovered, c)
        /\ IsEntry(hit)
    BY DEF FindsEntry
  <1>5. ASSUME NEW p \in DOMAIN dump.headers, p > hit, p < hunt'.from PROVE JumpedOver(p)'
    <2>1. p \in Nat
      BY PartsType DEF HuntInv
    <2>2. Whole(hit, Span(hit)) /\ Span(hit) > 0 /\ p < hit + Span(hit)
      BY <1>1, <1>3, <1>5, <2>1 DEF EngineGoesTo
    <2>3. c.offset = hit /\ c.span = Span(hit) /\ c.left = Absent /\ ~c.indexed
      BY <2>2 DEF Gives, Left
    <2>4. Len(recovered) + 1 \in DOMAIN recovered' /\ recovered'[Len(recovered) + 1] = c
      <3>1. recovered \in Seq(Candidates)
        BY <1>1 DEF HuntInv, RecoveredInv
      <3>. QED BY <1>4, <3>1, LastAppended
    <2>5. dump.format # "cpio" /\ dump' = dump
      BY DEF FindsEntry
    <2>. HIDE DEF c
    <2>. QED BY <1>5, <2>2, <2>3, <2>4, <2>5 DEF JumpedOver
  <1>6. EngineGoesTo(hit) \in Nat
    BY <1>1 DEF EngineGoesTo, Absent
  <1>7. RecoveredInv'
    BY <1>3, <1>4, <1>5, <1>6, FindingKeeps
  <1>8. MemoInv' /\ ReadInv'
    BY <1>3, <1>4, SameMemo DEF HuntInv
  <1>9. ScannerInv' /\ Known'
    BY <1>1, <1>2, <1>3, <1>4, <1>6 DEF HuntInv, ScannerInv, Known
  <1>. QED BY <1>5, <1>7, <1>8, <1>9 DEF HuntInv, Jumps

(* A payload is jumped to what backs it only.                               *)
LEMMA BackedIsSo ==
  ASSUME Known, MemoInv, NEW next \in Nat, NEW spent, Backs(next, spent)
  PROVE  \/ next >= End
         \/ HeaderThere(next) /\ Sound(next)
         \/ next .. End - 1 \subseteq dump.zeros
  <1>1. CASE MayBePadding(next) /\ ZerosToEnd(next)
    <2>1. next \in 0 .. End - 1
      BY <1>1, AllowanceType DEF MayBePadding
    <2>. QED BY <1>1, <2>1, ZerosToTheEnd
  <1>. QED BY <1>1 DEF Backs

LEMMA FindsCpioKeeps ==
  ASSUME HuntInv, NEW hit, FirstHeader(hit), FindsCpioEntry(hit)
  PROVE  HuntInv' /\ Jumps(hit)
  <1>. DEFINE c == Gives(hit, Span(hit), FALSE)
              looks == Whole(hit, Span(hit))
              next == Landing(hit)
              paid == Paid(hit, hunt.spent)
              backed == looks /\ Backs(next, paid)
              asked == looks /\ MayBePadding(next)
              spent == IF looks THEN PaidToLook(next, paid) ELSE paid
              target == IF dump.headers[hit].is = "symlink" /\ looks THEN Span(hit) ELSE 0
              h == [hunt EXCEPT !.spent = spent, !.memo = IF asked THEN MemoAfter(next) ELSE @]
  <1>1. /\ hit \in DOMAIN dump.headers /\ hunt.stage = "search" /\ hit \in Nat
        /\ Span(hit) \in Nat /\ dump.format = "cpio"
    BY PartsType DEF FirstHeader, HuntInv, FindsCpioEntry
  <1>2. next \in Nat /\ End \in Nat /\ dump.allowance \in Nat
    BY <1>1, LandingType, AllowanceType DEF HuntInv
  <1>3. spent \in 0 .. dump.allowance
    <2>1. paid \in 0 .. dump.allowance
      BY <1>1, PaidWithin DEF HuntInv, ScannerInv
    <2>. HIDE DEF paid
    <2>2. PaidToLook(next, paid) \in 0 .. dump.allowance
      BY <2>1, LookWithin DEF HuntInv
    <2>. QED BY <2>1, <2>2
  <1>4. asked => next \in 0 .. End - 1
    BY <1>2 DEF MayBePadding
  <1>5. target \in Nat
    BY <1>1
  <1>6. /\ dump' = dump
        /\ zeroReads' = [i \in DOMAIN zeroReads |->
                           zeroReads[i] + (IF asked /\ i \in ZerosRead(next) THEN 1 ELSE 0)]
        /\ IsEntry(hit)
        /\ \/ NotJudged(hit, h)
           \/ /\ spent + target <= dump.allowance
              /\ recovered' = Append(recovered, c)
              /\ hunt' = [h EXCEPT !.spent = @ + target, !.from = IF backed THEN next ELSE hit + 1]
              /\ UNCHANGED <<dump, unjudged>>
    BY DEF FindsCpioEntry, NotJudged, PassesOver
  <1>. HIDE DEF c, paid, spent, target
  <1>7. /\ DOMAIN h = HuntFields /\ h.spent = spent /\ h.from = hunt.from
        /\ h.stage = hunt.stage /\ h.row = hunt.row /\ h.held = hunt.held
        /\ h.bounded = hunt.bounded /\ h.variants = hunt.variants
        /\ h.memo = IF asked THEN MemoAfter(next) ELSE hunt.memo
    BY DEF HuntInv, ScannerInv, HuntFields
  <1>. HIDE DEF h
  <1>8. CASE NotJudged(hit, h)
    <2>1. /\ DOMAIN hunt' = HuntFields /\ hunt'.from = hit + 1 /\ hunt'.spent = spent
          /\ hunt'.stage = hunt.stage /\ hunt'.memo = h.memo /\ hunt'.row = hunt.row
      BY <1>7, <1>8 DEF NotJudged, Told, PassesOver, HuntFields
    <2>2. UNCHANGED <<dump, recovered>> /\ unjudged' = unjudged \cup {hit}
      BY <1>8 DEF NotJudged, PassesOver
    <2>3. RecoveredInv'
      BY <2>1, <2>2, PassingKeeps
    <2>4. MemoInv' /\ ReadInv'
      <3>1. CASE asked
        BY <1>4, <1>6, <1>7, <2>1, <3>1, AskingKeeps DEF HuntInv
      <3>2. CASE ~asked
        <4>1. zeroReads' = zeroReads
          BY <1>6, <3>2 DEF HuntInv, ReadInv
        <4>. QED BY <1>6, <1>7, <2>1, <3>2, <4>1, SameMemo DEF HuntInv
      <3>. QED BY <3>1, <3>2
    <2>5. ScannerInv' /\ Known'
      BY <1>1, <1>3, <2>1, <2>2 DEF HuntInv, ScannerInv, Known
    <2>6. Jumps(hit)
      <3>1. \A p \in DOMAIN dump.headers : p \in Nat
        BY PartsType DEF HuntInv
      <3>. QED BY <1>1, <2>1, <3>1 DEF Jumps
    <2>. QED BY <2>3, <2>4, <2>5, <2>6 DEF HuntInv
  <1>9. CASE /\ spent + target <= dump.allowance
             /\ recovered' = Append(recovered, c)
             /\ hunt' = [h EXCEPT !.spent = @ + target, !.from = IF backed THEN next ELSE hit + 1]
             /\ UNCHANGED <<dump, unjudged>>
    <2>1. /\ DOMAIN hunt' = HuntFields /\ hunt'.from = (IF backed THEN next ELSE hit + 1)
          /\ hunt'.spent = spent + target
          /\ hunt'.stage = hunt.stage /\ hunt'.memo = h.memo /\ hunt'.row = hunt.row
      BY <1>7, <1>9 DEF HuntFields
    <2>2. spent + target \in 0 .. dump.allowance
      BY <1>2, <1>3, <1>5, <1>9
    <2>3. ASSUME NEW p \in DOMAIN dump.headers, p > hit, p < hunt'.from PROVE JumpedOver(p)'
      <3>1. p \in Nat
        BY PartsType DEF HuntInv
      <3>2. backed /\ p < next
        BY <1>1, <2>1, <2>3, <3>1
      <3>3. \/ next >= End
            \/ HeaderThere(next) /\ Sound(next)
            \/ next .. End - 1 \subseteq dump.zeros
        BY <1>2, <3>2, BackedIsSo DEF HuntInv
      <3>4. c.offset = hit /\ c.span = Span(hit) /\ c.left = Absent /\ ~c.indexed
            /\ c.body = Body(hit)
        BY <3>2 DEF Gives, Left, c
      <3>5. Len(recovered) + 1 \in DOMAIN recovered' /\ recovered'[Len(recovered) + 1] = c
        <4>1. recovered \in Seq(Candidates)
          BY <1>1 DEF HuntInv, RecoveredInv
        <4>. QED BY <1>9, <4>1, LastAppended
      <3>6. c.body + Aligned(c.span) = next
        BY <3>4 DEF Landing
      <3>7. PICK land \in Nat : land = next
        BY <1>2
      <3>8. dump' = dump /\ dump'.format = "cpio"
        BY <1>1, <1>6
      <3>9. \/ land >= End
            \/ (HeaderThere(land) /\ Sound(land))'
            \/ land .. End - 1 \subseteq dump'.zeros
        BY <1>6, <3>3, <3>7, <3>8, SameHeaders
      <3>. QED BY <2>3, <3>2, <3>4, <3>5, <3>6, <3>7, <3>8, <3>9 DEF JumpedOver
    <2>4. RecoveredInv'
      <3>1. hunt'.from \in Nat
        BY <1>1, <1>2, <2>1
      <3>. QED BY <1>6, <1>9, <2>1, <2>3, <3>1, FindingKeeps DEF c
    <2>5. MemoInv' /\ ReadInv'
      <3>1. CASE asked
        BY <1>4, <1>6, <1>7, <2>1, <3>1, AskingKeeps DEF HuntInv
      <3>2. CASE ~asked
        <4>1. zeroReads' = zeroReads
          BY <1>6, <3>2 DEF HuntInv, ReadInv
        <4>. QED BY <1>6, <1>7, <2>1, <3>2, <4>1, SameMemo DEF HuntInv
      <3>. QED BY <3>1, <3>2
    <2>6. ScannerInv' /\ Known'
      BY <1>1, <1>2, <1>6, <2>1, <2>2 DEF HuntInv, ScannerInv, Known
    <2>7. Jumps(hit)
      BY <2>3 DEF Jumps
    <2>. QED BY <2>4, <2>5, <2>6, <2>7 DEF HuntInv
  <1>. QED BY <1>6, <1>8, <1>9

LEMMA EndsSearchKeeps ==
  ASSUME HuntInv, EndsSearch
  PROVE  HuntInv'
  <1>1. /\ hunt.stage = "search" /\ \A at \in DOMAIN dump.headers : at < hunt.from
        /\ UNCHANGED <<dump, recovered, unjudged, zeroReads>>
    BY DEF EndsSearch
  <1>2. /\ DOMAIN hunt' = HuntFields /\ hunt'.from = hunt.from /\ hunt'.spent = hunt.spent
        /\ hunt'.stage = (IF dump.format = "zip" THEN "directory" ELSE "done")
        /\ hunt'.memo = hunt.memo /\ hunt'.row = hunt.row
    BY DEF EndsSearch, HuntInv, ScannerInv, HuntFields
  <1>3. recovered \in Seq(Candidates) /\ EntriesFoundOrTold
        /\ \A n \in DOMAIN recovered : LeavesFewer(recovered[n])
    BY <1>1 DEF HuntInv, RecoveredInv
  <1>4. ASSUME NEW p \in DOMAIN dump.headers PROVE Passed(p)
    <2>1. p \in Nat /\ hunt.from \in Nat
      BY PartsType DEF HuntInv, ScannerInv
    <2>. QED BY <1>1, <2>1 DEF Passed
  <1>5. EntriesFoundOrTold'
    BY <1>1, <1>3, <1>4, SameCandidates, NoneLost
  <1>6. RecoveredInv'
    BY <1>1, <1>3, <1>5, SameCandidates DEF RecoveredInv
  <1>7. MemoInv' /\ ReadInv'
    BY <1>1, <1>2, SameMemo DEF HuntInv
  <1>8. ScannerInv' /\ Known'
    BY <1>1, <1>2 DEF HuntInv, ScannerInv, Known
  <1>. QED BY <1>6, <1>7, <1>8 DEF HuntInv

LEMMA ReconcilesKeeps ==
  ASSUME HuntInv, Reconciles
  PROVE  HuntInv'
  <1>. DEFINE record == dump.directory[hunt.row]
              c == Gives(record.at, record.span, TRUE)
  <1>1. /\ hunt.stage = "directory" /\ hunt.row \in 1 .. Len(dump.directory)
        /\ UNCHANGED <<dump, unjudged, zeroReads>>
    BY DEF Reconciles, HuntInv, ScannerInv
  <1>2. /\ DOMAIN hunt' = HuntFields /\ hunt'.from = hunt.from /\ hunt'.spent = hunt.spent
        /\ hunt'.stage = hunt.stage /\ hunt'.memo = hunt.memo /\ hunt'.row = hunt.row + 1
    BY DEF Reconciles, HuntInv, ScannerInv, HuntFields
  <1>3. recovered \in Seq(Candidates) /\ EntriesFoundOrTold
        /\ \A n \in DOMAIN recovered : LeavesFewer(recovered[n])
    BY <1>1 DEF HuntInv, RecoveredInv
  <1>4. record.span \in Nat
    <2>1. dump.directory \in Seq([at : Places, span : Nat])
      BY DumpsType DEF HuntInv, Known
    <2>2. ASSUME NEW T, NEW s \in Seq(T), NEW n \in 1 .. Len(s) PROVE s[n] \in T
      OBVIOUS
    <2>3. record \in [at : Places, span : Nat]
      BY <1>1, <2>1, <2>2
    <2>. QED BY <2>3
  <1>5. \/ UNCHANGED recovered
        \/ /\ recovered' = Append(recovered, c)
           /\ record.at \in DOMAIN dump.headers /\ Intact(record.at)
    BY DEF Reconciles, HeaderThere
  <1>6. ASSUME NEW p, Passed(p)' PROVE Passed(p)
    BY <1>1 DEF Passed
  <1>7. RecoveredInv'
    <2>1. CASE UNCHANGED recovered
      <3>1. EntriesFoundOrTold'
        BY <1>1, <1>3, <1>6, <2>1, SameCandidates, NoneLost
      <3>. QED BY <1>1, <1>3, <2>1, <3>1, SameCandidates DEF RecoveredInv
    <2>2. CASE /\ recovered' = Append(recovered, c)
               /\ record.at \in DOMAIN dump.headers /\ Intact(record.at)
      <3>1. c \in Candidates /\ LeavesFewer(c)
        BY <1>4, <2>2, GivesCandidate DEF HuntInv
      <3>. HIDE DEF c
      <3>2. /\ recovered' \in Seq(Candidates)
            /\ (\A n \in DOMAIN recovered : LeavesFewer(recovered[n]))'
            /\ RecoveredAt' = RecoveredAt \cup {c.offset}
            /\ \A p : JumpedOver(p) => JumpedOver(p)'
        BY <1>1, <1>3, <2>2, <3>1, OneMore
      <3>3. \A p : Accounted(p) => Accounted(p)'
        BY <1>1, <3>2 DEF Accounted
      <3>4. EntriesFoundOrTold'
        BY <1>1, <1>3, <1>6, <3>3, NoneLost
      <3>. QED BY <3>2, <3>4 DEF RecoveredInv
    <2>. QED BY <1>5, <2>1, <2>2
  <1>8. MemoInv' /\ ReadInv'
    BY <1>1, <1>2, SameMemo DEF HuntInv
  <1>9. ScannerInv' /\ Known'
    BY <1>1, <1>2 DEF HuntInv, ScannerInv, Known
  <1>. QED BY <1>7, <1>8, <1>9 DEF HuntInv

LEMMA ConcludesKeeps ==
  ASSUME HuntInv, Concludes
  PROVE  HuntInv'
  <1>1. hunt.stage = "directory" /\ UNCHANGED <<dump, unjudged, zeroReads>>
    BY DEF Concludes
  <1>2. /\ DOMAIN hunt' = HuntFields /\ hunt'.from = hunt.from /\ hunt'.spent = hunt.spent
        /\ hunt'.stage = "done" /\ hunt'.memo = hunt.memo /\ hunt'.row = hunt.row
    BY DEF Concludes, HuntInv, ScannerInv, HuntFields
  <1>3. recovered' \in InFileOrder
    BY DEF Concludes
  <1>4. RecoveredInv'
    <2>1. /\ recovered' \in Seq(Candidates) /\ RecoveredAt' = RecoveredAt
          /\ \A p : JumpedOver(p) => JumpedOver(p)'
          /\ (\A n \in DOMAIN recovered : LeavesFewer(recovered[n]))'
      BY <1>1, <1>3, SortedSame DEF HuntInv, RecoveredInv
    <2>2. \A p : Accounted(p) => Accounted(p)'
      BY <1>1, <2>1 DEF Accounted
    <2>3. \A p : Passed(p)
      BY <1>1 DEF Passed
    <2>4. EntriesFoundOrTold'
      BY <1>1, <2>2, <2>3, NoneLost DEF HuntInv, RecoveredInv
    <2>. QED BY <2>1, <2>4 DEF RecoveredInv
  <1>5. MemoInv' /\ ReadInv'
    BY <1>1, <1>2, SameMemo DEF HuntInv
  <1>6. ScannerInv' /\ Known'
    BY <1>1, <1>2 DEF HuntInv, ScannerInv, Known
  <1>. QED BY <1>4, <1>5, <1>6 DEF HuntInv

LEMMA HuntStarts ==
  ASSUME dump \in Dumps, HuntStart
  PROVE  HuntInv
  <1>1. /\ hunt = [from |-> 0, spent |-> 0, bounded |-> NoSightings, variants |-> NoSightings,
                   held |-> <<>>, memo |-> <<>>, row |-> 1, stage |-> "search"]
        /\ recovered = <<>> /\ zeroReads = [i \in 0 .. End - 1 |-> 0]
    BY DEF HuntStart
  <1>2. dump.allowance \in Nat
    BY AllowanceType DEF Known
  <1>3. ScannerInv
    BY <1>1, <1>2 DEF ScannerInv, HuntFields
  <1>4. DOMAIN hunt.memo = {} /\ DOMAIN recovered = {} /\ recovered \in Seq(Candidates)
    BY <1>1
  <1>5. MemoInv /\ ReadInv
    BY <1>1, <1>4 DEF MemoInv, ReadInv
  <1>6. ASSUME NEW p \in DOMAIN dump.headers PROVE ~Passed(p)
    <2>1. p \in Nat
      BY PartsType DEF Known
    <2>. QED BY <1>1, <2>1 DEF Passed
  <1>7. EntriesFoundOrTold
    BY <1>6 DEF EntriesFoundOrTold, Passed
  <1>8. RecoveredInv
    BY <1>4, <1>7 DEF RecoveredInv
  <1>. QED BY <1>3, <1>5, <1>8 DEF HuntInv, Known

LEMMA HuntKeeps ==
  HuntInv /\ [HuntNext]_hunting => HuntInv'
  <1>. SUFFICES ASSUME HuntInv, [HuntNext]_hunting PROVE HuntInv'
    OBVIOUS
  <1>1. ASSUME NEW hit \in DOMAIN dump.headers, FirstHeader(hit),
               RefusesHeader(hit) \/ LeavesUnjudged(hit) \/ FindsEntry(hit) \/ FindsCpioEntry(hit)
        PROVE  HuntInv'
    BY <1>1, RefusesKeeps, LeavesKeeps, FindsKeeps, FindsCpioKeeps
  <1>2. CASE EndsSearch
    BY <1>2, EndsSearchKeeps
  <1>3. CASE Reconciles
    BY <1>3, ReconcilesKeeps
  <1>4. CASE Concludes
    BY <1>4, ConcludesKeeps
  <1>5. CASE UNCHANGED hunting
    <2>1. UNCHANGED <<dump, hunt, recovered, unjudged, zeroReads>>
      BY <1>5 DEF hunting
    <2>2. EntriesFoundOrTold => EntriesFoundOrTold'
      <3>1. \A p : (Passed(p))' = Passed(p)
        BY <2>1 DEF Passed
      <3>. QED BY <2>1, <3>1, SameCandidates, NoneLost
    <2>3. RecoveredInv'
      BY <2>1, <2>2, SameCandidates DEF HuntInv, RecoveredInv
    <2>4. MemoInv' /\ ReadInv'
      BY <2>1, SameMemo DEF HuntInv
    <2>5. ScannerInv' /\ Known'
      BY <2>1 DEF HuntInv, ScannerInv, Known
    <2>. QED BY <2>3, <2>4, <2>5 DEF HuntInv
  <1>. QED BY <1>1, <1>2, <1>3, <1>4, <1>5 DEF HuntNext

(* What holds of the scanner, its memory of zeros and what it recovered.    *)
THEOREM HuntInvariant == HuntSpec => []HuntInv
  <1>1. dump \in Dumps /\ HuntStart => HuntInv
    BY HuntStarts
  <1>. QED BY <1>1, HuntKeeps, PTL DEF HuntSpec

-------------------------------------------------------------------------------
(* cpio: no zero is read twice, and what is remembered is true.             *)
THEOREM ZerosAreReadOnce == HuntSpec => []ZerosReadOnce
  <1>1. HuntInv => ZerosReadOnce
    <2>. SUFFICES ASSUME HuntInv PROVE ZerosReadOnce
      OBVIOUS
    <2>1. ASSUME NEW i \in DOMAIN zeroReads PROVE zeroReads[i] <= 1
      BY DEF HuntInv, ReadInv
    <2>. QED BY <2>1 DEF HuntInv, MemoInv, RunInv, ZerosReadOnce
  <1>. QED BY <1>1, HuntInvariant, PTL

(* Whatever the archive says, the search charges no more than it was given. *)
THEOREM BudgetIsKept == HuntSpec => [](hunt.spent <= dump.allowance)
  <1>1. HuntInv => hunt.spent <= dump.allowance
    BY AllowanceType DEF HuntInv, ScannerInv
  <1>. QED BY <1>1, HuntInvariant, PTL

(* Each entry's header that was passed is found, told of or jumped over, and *)
(* a truncated payload is told as less than declared.                       *)
THEOREM EntriesAreFoundOrTold ==
  HuntSpec => [](EntriesFoundOrTold /\ FewerThanDeclared)
  <1>1. HuntInv => EntriesFoundOrTold /\ FewerThanDeclared
    BY DEF HuntInv, RecoveredInv, LeavesFewer, FewerThanDeclared
  <1>. QED BY <1>1, HuntInvariant, PTL

-------------------------------------------------------------------------------
(* What is told of the headers refused for the budget: the lowest offsets,  *)
(* and how many.                                                            *)

LEMMA LesserOf ==
  ASSUME NEW m \in Nat, NEW n \in Nat
  PROVE  Min({m, n}) = (IF m <= n THEN m ELSE n)
  <1>1. {m, n} \subseteq Nat /\ {m, n} # {}
    OBVIOUS
  <1>2. Min({m, n}) \in {m, n} /\ \A k \in {m, n} : Min({m, n}) <= k
    BY <1>1, LeastOf
  <1>. QED BY <1>2

LEMMA FirstOfList ==
  ASSUME NEW T, NEW s \in Seq(T)
  PROVE  /\ FirstOf(s) \in Seq(T)
         /\ Len(FirstOf(s)) = (IF Len(s) <= LogCap THEN Len(s) ELSE LogCap)
         /\ \A k \in 1 .. Len(FirstOf(s)) : FirstOf(s)[k] = s[k]
  <1>1. Len(s) \in Nat /\ LogCap \in Nat \ {0}
    BY HuntLimits
  <1>2. PICK m \in Nat : m = Min({Len(s), LogCap})
    BY <1>1, LesserOf
  <1>3. m = (IF Len(s) <= LogCap THEN Len(s) ELSE LogCap)
    BY <1>1, <1>2, LesserOf
  <1>4. m <= Len(s)
    BY <1>1, <1>3
  <1>5. ASSUME NEW q \in Nat, q <= Len(s)
        PROVE  /\ SubSeq(s, 1, q) \in Seq(T) /\ Len(SubSeq(s, 1, q)) = q
               /\ \A k \in 1 .. q : SubSeq(s, 1, q)[k] = s[k]
    BY <1>5
  <1>. QED BY <1>2, <1>3, <1>4, <1>5 DEF FirstOf

(* A list of the lowest of S: as long as it may be, ascending, none lower   *)
(* left out.                                                                *)
Listing(s, S) ==
    /\ s \in Seq(S)
    /\ Len(s) = (IF Cardinality(S) <= LogCap THEN Cardinality(S) ELSE LogCap)
    /\ \A j, k \in 1 .. Len(s) : j < k => s[j] < s[k]
    /\ \A x \in S, k \in 1 .. Len(s) : x <= s[k] => \E j \in 1 .. Len(s) : s[j] = x

LEMMA ListingIs ==
  ASSUME NEW S, NEW s \in Seq(S), NEW c, Cardinality(S) = c,
         Len(s) = (IF c <= LogCap THEN c ELSE LogCap),
         \A j, k \in 1 .. Len(s) : j < k => s[j] < s[k],
         \A x \in S, k \in 1 .. Len(s) : x <= s[k] => \E j \in 1 .. Len(s) : s[j] = x
  PROVE  Listing(s, S)
  BY DEF Listing

LEMMA LowestIsListing ==
  ASSUME NEW S, IsFiniteSet(S), NEW s
  PROVE  s \in Lowest(S) <=> Listing(s, S)
  <1>1. Cardinality(S) \in Nat /\ LogCap \in Nat
    BY FS_CardinalityType, HuntLimits
  <1>2. PICK m \in Nat : m = Min({Cardinality(S), LogCap})
    BY <1>1, LesserOf
  <1>3. m = (IF Cardinality(S) <= LogCap THEN Cardinality(S) ELSE LogCap)
    BY <1>1, <1>2, LesserOf
  <1>4. ASSUME s \in Lowest(S) PROVE Listing(s, S)
    <2>1. s \in [1 .. m -> S]
      BY <1>2, <1>4 DEF Lowest
    <2>2. s \in Seq(S) /\ Len(s) = m /\ DOMAIN s = 1 .. Len(s)
      BY <2>1
    <2>3. /\ \A j, k \in DOMAIN s : j < k => s[j] < s[k]
          /\ \A x \in S, k \in DOMAIN s : x <= s[k] => \E j \in DOMAIN s : s[j] = x
      BY <1>4 DEF Lowest, ToSet
    <2>. QED BY <1>3, <2>2, <2>3 DEF Listing
  <1>5. ASSUME Listing(s, S) PROVE s \in Lowest(S)
    <2>1. s \in Seq(S) /\ Len(s) = m /\ DOMAIN s = 1 .. Len(s)
      BY <1>3, <1>5 DEF Listing
    <2>2. s \in [1 .. m -> S]
      BY <2>1
    <2>3. \A x \in S, k \in DOMAIN s : x <= s[k] => x \in ToSet(s)
      BY <1>5, <2>1 DEF Listing, ToSet
    <2>4. \A j, k \in DOMAIN s : j < k => s[j] < s[k]
      BY <1>5, <2>1 DEF Listing
    <2>. QED BY <1>2, <2>2, <2>3, <2>4 DEF Lowest
  <1>. QED BY <1>4, <1>5

(* An ascending list is of as many numbers as it is long.                   *)
LEMMA AscendingCounts ==
  ASSUME NEW S, S \subseteq Nat, NEW s \in Seq(S),
         \A j, k \in 1 .. Len(s) : j < k => s[j] < s[k]
  PROVE  /\ IsFiniteSet(ToSet(s)) /\ Cardinality(ToSet(s)) = Len(s) /\ ToSet(s) \subseteq S
         /\ \A x : x \in ToSet(s) <=> \E j \in 1 .. Len(s) : s[j] = x
  <1>. DEFINE n == Len(s)
              D == 1 .. n
              T == ToSet(s)
  <1>1. n \in Nat /\ DOMAIN s = D /\ \A j \in D : s[j] \in S
    OBVIOUS
  <1>2. IsFiniteSet(D) /\ Cardinality(D) = n
    <2>1. 1 \in Int /\ n \in Int
      BY <1>1
    <2>. QED BY <1>1, <2>1, FS_Interval
  <1>3. \A x : x \in T <=> \E j \in D : s[j] = x
    BY <1>1 DEF ToSet
  <1>4. ASSUME NEW j \in D, NEW k \in D, s[j] = s[k] PROVE j = k
    <2>1. ASSUME NEW a \in Nat, NEW b \in Nat, a < b PROVE a # b
      BY <2>1
    <2>2. s[j] \in Nat /\ s[k] \in Nat /\ j \in Nat /\ k \in Nat
      <3>1. s[j] \in S /\ s[k] \in S
        BY <1>1
      <3>2. j \in Nat /\ k \in Nat
        BY <1>1
      <3>. QED BY <3>1, <3>2
    <2>3. (j < k => s[j] < s[k]) /\ (k < j => s[k] < s[j])
      BY <1>1
    <2>4. ~(s[j] < s[k]) /\ ~(s[k] < s[j])
      BY <1>4, <2>1, <2>2
    <2>. QED BY <2>2, <2>3, <2>4
  <1>5. T \subseteq S
    BY <1>1, <1>3
  <1>. HIDE DEF T, D, n
  <1>6. PICK f \in [D -> T] : \A j \in D : f[j] = s[j]
    <2>1. [j \in D |-> s[j]] \in [D -> T]
      BY <1>3
    <2>. QED BY <2>1
  <1>7. f \in Injection(D, T) /\ f \in Surjection(D, T)
    BY <1>3, <1>4, <1>6 DEF Injection, IsInjective, Surjection
  <1>8. IsFiniteSet(T) /\ Cardinality(T) = Cardinality(D)
    BY <1>2, <1>7, FS_Surjection
  <1>. QED BY <1>2, <1>3, <1>5, <1>8 DEF T, D, n

(* Where there are no more than may be listed, all are.                     *)
LEMMA AllListed ==
  ASSUME NEW S, S \subseteq Nat, IsFiniteSet(S), Cardinality(S) <= LogCap, NEW s, Listing(s, S)
  PROVE  ToSet(s) = S
  <1>1. s \in Seq(S) /\ Len(s) = Cardinality(S)
    BY DEF Listing
  <1>2. IsFiniteSet(ToSet(s)) /\ Cardinality(ToSet(s)) = Cardinality(S) /\ ToSet(s) \subseteq S
    BY <1>1, AscendingCounts DEF Listing
  <1>. QED BY <1>2, FS_Subset

(* One more, higher than all, is listed if there is room.                   *)
LEMMA PushLists ==
  ASSUME NEW S, S \subseteq Nat, IsFiniteSet(S), NEW s, Listing(s, S), NEW x \in Nat,
         \A u \in S : u < x
  PROVE  Listing(FirstOf(Append(s, x)), S \cup {x})
  <1>. DEFINE longer == Append(s, x)
              r == FirstOf(longer)
              c == Cardinality(S)
  <1>1. c \in Nat /\ LogCap \in Nat \ {0}
    BY FS_CardinalityType, HuntLimits
  <1>2. Cardinality(S \cup {x}) = c + 1
    BY FS_AddElement
  <1>3. /\ s \in Seq(S) /\ Len(s) = (IF c <= LogCap THEN c ELSE LogCap)
        /\ \A j, k \in 1 .. Len(s) : j < k => s[j] < s[k]
        /\ \A y \in S, k \in 1 .. Len(s) : y <= s[k] => \E j \in 1 .. Len(s) : s[j] = y
    BY DEF Listing
  <1>4. /\ longer \in Seq(S \cup {x}) /\ Len(longer) = Len(s) + 1
        /\ \A k \in 1 .. Len(s) : longer[k] = s[k]
        /\ longer[Len(s) + 1] = x /\ \A k \in 1 .. Len(s) : s[k] \in S
    BY <1>3
  <1>. HIDE DEF longer
  <1>5. /\ r \in Seq(S \cup {x})
        /\ Len(r) = (IF Len(longer) <= LogCap THEN Len(longer) ELSE LogCap)
        /\ \A k \in 1 .. Len(r) : r[k] = longer[k]
    BY <1>4, FirstOfList
  <1>. HIDE DEF r, c
  <1>6. CASE c < LogCap
    <2>1. Len(s) = c /\ Len(r) = c + 1
      BY <1>1, <1>3, <1>4, <1>5, <1>6
    <2>2. ToSet(s) = S
      <3>1. Cardinality(S) <= LogCap
        BY <1>1, <1>6 DEF c
      <3>. QED BY <3>1, AllListed
    <2>7. \A y : y \in ToSet(s) <=> \E j \in 1 .. Len(s) : s[j] = y
      BY <1>3, AscendingCounts
    <2>3. \A k \in 1 .. c : r[k] = s[k]
      BY <1>1, <1>4, <1>5, <2>1
    <2>4. r[c + 1] = x
      BY <1>1, <1>4, <1>5, <2>1
    <2>5. ASSUME NEW j \in 1 .. Len(r), NEW k \in 1 .. Len(r), j < k PROVE r[j] < r[k]
      <3>1. j \in 1 .. c /\ (k \in 1 .. c \/ k = c + 1)
        BY <1>1, <2>1, <2>5
      <3>. QED BY <1>3, <1>4, <2>1, <2>3, <2>4, <2>5, <3>1
    <2>6. ASSUME NEW y \in S \cup {x} PROVE \E j \in 1 .. Len(r) : r[j] = y
      <3>1. CASE y = x
        <4>1. c + 1 \in 1 .. Len(r)
          BY <1>1, <2>1
        <4>. QED BY <2>4, <3>1, <4>1
      <3>2. CASE y \in S
        <4>1. PICK j \in 1 .. c : s[j] = y
          BY <2>1, <2>2, <2>7, <3>2
        <4>2. j \in 1 .. Len(r) /\ r[j] = y
          BY <1>1, <2>1, <2>3, <4>1
        <4>. QED BY <4>2
      <3>. QED BY <3>1, <3>2
    <2>8. Len(r) = (IF c + 1 <= LogCap THEN c + 1 ELSE LogCap)
      BY <1>1, <1>6, <2>1
    <2>9. Listing(r, S \cup {x})
      <3>1. \A y \in S \cup {x}, k \in 1 .. Len(r) : y <= r[k] => \E j \in 1 .. Len(r) : r[j] = y
        BY <2>6
      <3>2. \A j, k \in 1 .. Len(r) : j < k => r[j] < r[k]
        BY <2>5
      <3>3. r \in Seq(S \cup {x})
        BY <1>5
      <3>. QED BY <1>2, <2>8, <3>1, <3>2, <3>3, ListingIs
    <2>. QED BY <2>9 DEF r, longer
  <1>7. CASE c >= LogCap
    <2>1. Len(s) = LogCap /\ Len(r) = LogCap
      BY <1>1, <1>3, <1>4, <1>5, <1>7
    <2>2. \A k \in 1 .. LogCap : r[k] = s[k] /\ s[k] \in S
      BY <1>1, <1>4, <1>5, <2>1
    <2>3. \A j, k \in 1 .. Len(r) : j < k => r[j] < r[k]
      BY <1>3, <2>1, <2>2
    <2>4. ASSUME NEW y \in S \cup {x}, NEW k \in 1 .. Len(r), y <= r[k]
          PROVE  \E j \in 1 .. Len(r) : r[j] = y
      <3>1. y \in S
        <4>1. r[k] \in S
          BY <2>1, <2>2
        <4>2. r[k] < x /\ r[k] \in Nat
          BY <4>1
        <4>3. CASE y = x
          BY <2>4, <4>2, <4>3
        <4>. QED BY <4>3
      <3>2. PICK j \in 1 .. Len(s) : s[j] = y
        BY <1>3, <2>1, <2>2, <2>4, <3>1
      <3>. QED BY <2>1, <2>2, <3>2
    <2>5. Len(r) = (IF c + 1 <= LogCap THEN c + 1 ELSE LogCap)
      BY <1>1, <1>7, <2>1
    <2>6. Listing(r, S \cup {x})
      <3>1. \A y \in S \cup {x}, k \in 1 .. Len(r) : y <= r[k] => \E j \in 1 .. Len(r) : r[j] = y
        BY <2>4
      <3>2. r \in Seq(S \cup {x})
        BY <1>5
      <3>. QED BY <1>2, <2>3, <2>5, <3>1, <3>2, ListingIs
    <2>. QED BY <2>6 DEF r, longer
  <1>. QED BY <1>1, <1>6, <1>7

(* The lowest of more are the lowest of them and of the lowest listed.      *)
LEMMA MergeLists ==
  ASSUME NEW A, NEW B, A \subseteq Nat, B \subseteq Nat, IsFiniteSet(A), IsFiniteSet(B),
         NEW b, Listing(b, B), NEW s, Listing(s, A \cup ToSet(b))
  PROVE  Listing(s, A \cup B)
  <1>. DEFINE some == A \cup ToSet(b)
              all == A \cup B
  <1>0. LogCap \in Nat
    BY HuntLimits
  <1>1. /\ IsFiniteSet(ToSet(b)) /\ Cardinality(ToSet(b)) = Len(b) /\ ToSet(b) \subseteq B
        /\ \A x : x \in ToSet(b) <=> \E j \in 1 .. Len(b) : b[j] = x
        /\ b \in Seq(B)
    BY AscendingCounts DEF Listing
  <1>2. CASE Cardinality(B) <= LogCap
    <2>1. ToSet(b) = B
      BY <1>2, AllListed
    <2>. QED BY <2>1
  <1>3. CASE ~(Cardinality(B) <= LogCap)
    <2>1. IsFiniteSet(some) /\ IsFiniteSet(all) /\ some \subseteq Nat
      BY <1>1, FS_Union
    <2>2. Cardinality(ToSet(b)) = LogCap /\ Len(b) = LogCap
      <3>1. Len(b) = LogCap
        BY <1>3 DEF Listing
      <3>. QED BY <1>1, <3>1
    <2>3. Cardinality(some) >= LogCap /\ Cardinality(all) >= LogCap
      <3>1. ToSet(b) \subseteq some /\ B \subseteq all
        OBVIOUS
      <3>2. Cardinality(ToSet(b)) <= Cardinality(some) /\ Cardinality(B) <= Cardinality(all)
        BY <2>1, <3>1, FS_Subset
      <3>3. Cardinality(some) \in Nat /\ Cardinality(all) \in Nat /\ Cardinality(B) \in Nat
        BY <2>1, FS_CardinalityType
      <3>. QED BY <1>0, <1>3, <2>2, <3>2, <3>3
    <2>4. /\ s \in Seq(some) /\ Len(s) = LogCap
          /\ \A j, k \in 1 .. Len(s) : j < k => s[j] < s[k]
          /\ \A x \in some, k \in 1 .. Len(s) : x <= s[k] => \E j \in 1 .. Len(s) : s[j] = x
      <3>1. PICK c \in Nat : c = Cardinality(some)
        BY <2>1, FS_CardinalityType
      <3>2. /\ s \in Seq(some) /\ Len(s) = (IF c <= LogCap THEN c ELSE LogCap)
            /\ \A j, k \in 1 .. Len(s) : j < k => s[j] < s[k]
            /\ \A x \in some, k \in 1 .. Len(s) : x <= s[k] => \E j \in 1 .. Len(s) : s[j] = x
        BY <3>1 DEF Listing
      <3>3. Len(s) = LogCap
        BY <1>0, <2>3, <3>1, <3>2
      <3>. QED BY <3>2, <3>3
    <2>5. some \subseteq all /\ \A k \in 1 .. Len(s) : s[k] \in some /\ s[k] \in Nat
      BY <1>1, <2>1, <2>4
    <2>6. ASSUME NEW x \in all, NEW k \in 1 .. Len(s), x <= s[k]
          PROVE  \E j \in 1 .. Len(s) : s[j] = x
      <3>1. CASE x \in some
        BY <2>4, <2>6, <3>1
      <3>2. CASE x \notin some
        <4>1. x \in B /\ x \notin ToSet(b) /\ x \in Nat
          BY <3>2
        <4>2. ASSUME NEW y \in ToSet(b) PROVE y < x
          <5>1. PICK j \in 1 .. Len(b) : b[j] = y
            BY <1>1
          <5>2. ~(x <= b[j])
            BY <1>1, <4>1 DEF Listing
          <5>3. y \in Nat
            BY <1>1
          <5>. QED BY <4>1, <5>1, <5>2, <5>3
        <4>3. s[k] \in Nat /\ s[k] \in some /\ x < s[k]
          BY <2>5, <2>6, <3>2, <4>1
        <4>4. ASSUME NEW y \in ToSet(b) PROVE y \in ToSet(s)
          <5>3. y \in some /\ y \in Nat /\ y < x
            BY <1>1, <4>2
          <5>1. y \in some /\ y <= s[k]
            BY <4>1, <4>3, <5>3
          <5>2. PICK j \in 1 .. Len(s) : s[j] = y
            BY <2>4, <5>1
          <5>. QED BY <2>4, <5>2 DEF ToSet
        <4>5. s[k] \notin ToSet(b) /\ s[k] \in ToSet(s)
          <5>1. s[k] \in ToSet(s)
            BY <2>4 DEF ToSet
          <5>. QED BY <4>1, <4>2, <4>3, <5>1
        <4>6. IsFiniteSet(ToSet(s)) /\ Cardinality(ToSet(s)) = LogCap
          BY <2>1, <2>4, AscendingCounts
        <4>7. /\ ToSet(b) \subseteq ToSet(s)
              /\ Cardinality(ToSet(s)) = Cardinality(ToSet(b))
          BY <2>2, <4>4, <4>6
        <4>8. ToSet(b) = ToSet(s)
          BY <4>6, <4>7, FS_Subset
        <4>. QED BY <4>5, <4>8
      <3>. QED BY <3>1, <3>2
    <2>7. s \in Seq(all)
      BY <2>4, <2>5
    <2>8. Cardinality(all) \in Nat
      BY <2>1, FS_CardinalityType
    <2>9. PICK c \in Nat : c = Cardinality(all)
      BY <2>8
    <2>10. Len(s) = (IF c <= LogCap THEN c ELSE LogCap)
      BY <1>0, <2>3, <2>4, <2>9
    <2>. HIDE DEF all, some
    <2>. QED BY <2>4, <2>6, <2>7, <2>9, <2>10, ListingIs DEF all
  <1>. QED BY <1>2, <1>3

-------------------------------------------------------------------------------
LEMMA AlignedUp ==
  ASSUME NEW n \in Nat
  PROVE  Aligned(n) \in Nat /\ Aligned(n) >= n /\ Aligned(n) <= n + Align - 1
  <1>. DEFINE q == (n + Align - 1) \div Align
  <1>1. Align \in Nat \ {0}
    BY HuntLimits
  <1>2. n + Align - 1 \in Nat
    BY <1>1
  <1>3. q \in Nat /\ Align * q <= n + Align - 1 /\ n + Align - 1 < Align * q + Align
    BY <1>1, <1>2
  <1>4. Align * q \in Nat /\ q * Align = Align * q
    BY <1>1, <1>3
  <1>. HIDE DEF q
  <1>5. q * Align \in Nat /\ q * Align >= n /\ q * Align <= n + Align - 1
    BY <1>1, <1>3, <1>4
  <1>. QED BY <1>5 DEF Aligned, q

(* A log of the scan: no more offsets than may be stored, and how many there *)
(* were.                                                                    *)
LogOf(log) ==
    /\ log \in [stored : Seq(Places), total : Nat] /\ Len(log.stored) <= LogCap

LEMMA PushType ==
  ASSUME NEW log, LogOf(log), NEW at \in Places
  PROVE  /\ LogOf(Push(log, at)) /\ Push(log, at).total = log.total + 1
         /\ Push(log, at).stored = FirstOf(Append(log.stored, at))
  <1>1. log.stored \in Seq(Places) /\ log.total \in Nat /\ LogCap \in Nat \ {0}
    BY HuntLimits DEF LogOf
  <1>2. Append(log.stored, at) \in Seq(Places)
    BY <1>1
  <1>3. PICK longer \in Seq(Places) : longer = Append(log.stored, at)
    BY <1>2
  <1>4. PICK r \in Seq(Places) : r = FirstOf(longer)
    BY FirstOfList
  <1>5. Len(r) <= LogCap
    <2>1. Len(r) = (IF Len(longer) <= LogCap THEN Len(longer) ELSE LogCap)
      BY <1>4, FirstOfList
    <2>2. Len(longer) \in Nat
      OBVIOUS
    <2>. QED BY <1>1, <2>1, <2>2
  <1>6. Push(log, at) = [stored |-> r, total |-> log.total + 1]
    BY <1>3, <1>4 DEF Push
  <1>. QED BY <1>1, <1>3, <1>4, <1>5, <1>6 DEF LogOf

(* What a turn of the search does with the header it comes to: it is no     *)
(* entry; it is left unjudged; it is an entry.                              *)
PassesBy(hit) ==
    /\ UNCHANGED <<recovered, unjudged>> /\ hunt'.from = hit + 1
    /\ hunt'.bounded = hunt.bounded /\ hunt'.held = hunt.held
    /\ hunt'.variants = IF Sound(hit) /\ dump.headers[hit].is = "variant"
                        THEN Push(hunt.variants, hit) ELSE hunt.variants

TellsOf(hit) ==
    /\ recovered' = recovered /\ unjudged' = unjudged \cup {hit} /\ hunt'.from = hit + 1
    /\ hunt'.variants = hunt.variants
    /\ InDirectory(hit) => hunt'.held = Append(hunt.held, hit) /\ hunt'.bounded = hunt.bounded
    /\ ~InDirectory(hit) => hunt'.bounded = Push(hunt.bounded, hit) /\ hunt'.held = hunt.held

Recovers(hit) ==
    /\ recovered' = Append(recovered, Gives(hit, Span(hit), FALSE)) /\ unjudged' = unjudged
    /\ hunt'.variants = hunt.variants /\ hunt'.held = hunt.held /\ hunt'.bounded = hunt.bounded
    /\ IsEntry(hit)

Turns(hit) ==
    /\ dump' = dump /\ hit \in DOMAIN dump.headers /\ hit >= hunt.from
    /\ hunt.stage = "search" /\ hunt'.stage = "search" /\ hunt'.row = hunt.row
    /\ hunt'.from > hit /\ hunt'.from <= End + Align - 1
    /\ Jumps(hit)
    /\ PassesBy(hit) \/ TellsOf(hit) \/ Recovers(hit)

LEMMA TellingTells ==
  ASSUME HuntInv, NEW hit, NEW h, DOMAIN h = HuntFields, h.bounded = hunt.bounded,
         h.held = hunt.held, h.variants = hunt.variants, NotJudged(hit, h)
  PROVE  TellsOf(hit)
  BY DEF NotJudged, PassesOver, Told, TellsOf, HuntFields

LEMMA NextWithin ==
  ASSUME Known, NEW hit \in DOMAIN dump.headers
  PROVE  /\ hit + 1 > hit /\ hit + 1 <= End + Align - 1
         /\ IsEntry(hit) => EngineGoesTo(hit) > hit /\ EngineGoesTo(hit) <= End + Align - 1
         /\ dump.format = "cpio" /\ Whole(hit, Span(hit))
              => Landing(hit) > hit /\ Landing(hit) <= End + Align - 1
  <1>1. /\ hit \in Nat /\ hit + Fixed <= End /\ Body(hit) \in Nat /\ VariableEnd(hit) \in Nat
        /\ VariableEnd(hit) >= hit + Fixed
        /\ Span(hit) \in Nat \cup {Absent} /\ (dump.format # "zip" => Span(hit) \in Nat)
    <2>1. PieceAfter(hit, Len(Parts(hit))) >= hit + Fixed
      <3>1. Len(Parts(hit)) \in Nat /\ hit \in Nat /\ Fixed \in Nat
        BY PartsType, HuntLimits
      <3>2. Len(Parts(hit)) # 0 => Parts(hit)[Len(Parts(hit))].len \in Nat
        <4>1. Parts(hit) \in Seq([bill : Nat, len : Nat])
          BY DumpsType DEF Known, PiecesType, Parts
        <4>2. ASSUME NEW T, NEW s \in Seq(T), Len(s) # 0 PROVE s[Len(s)] \in T
          BY <4>2
        <4>3. Len(Parts(hit)) # 0 => Parts(hit)[Len(Parts(hit))] \in [bill : Nat, len : Nat]
          BY <4>1, <4>2
        <4>. QED BY <4>3
      <3>. QED BY <3>1, <3>2 DEF PieceAfter
    <2>. QED BY <2>1, PartsType, LandingType DEF VariableEnd
  <1>2. Fixed \in Nat \ {0} /\ Align \in Nat \ {0} /\ End \in Nat /\ Absent = -1
    BY HuntLimits DEF Absent
  <1>3. Body(hit) >= hit + Fixed
    <2>1. VariableEnd(hit) - hit \in Nat /\ VariableEnd(hit) - hit >= Fixed
      BY <1>1, <1>2
    <2>2. Aligned(VariableEnd(hit) - hit) \in Nat /\ Aligned(VariableEnd(hit) - hit) >= Fixed
      <3>1. PICK n \in Nat : n = VariableEnd(hit) - hit
        BY <2>1
      <3>2. Aligned(n) \in Nat /\ Aligned(n) >= n
        BY AlignedUp
      <3>. QED BY <1>2, <2>1, <3>1, <3>2
    <2>3. hit + Aligned(VariableEnd(hit) - hit) >= hit + Fixed
      BY <1>1, <1>2, <2>2
    <2>4. VariableEnd(hit) + 1 >= hit + Fixed
      BY <1>1, <1>2
    <2>. QED BY <1>1, <2>3, <2>4 DEF Body, FileMark
  <1>4. hit + 1 > hit /\ hit + 1 <= End + Align - 1
    BY <1>1, <1>2
  <1>5. Whole(hit, Span(hit)) /\ Span(hit) > 0 => Body(hit) + Span(hit) <= End
    BY <1>1, <1>2 DEF Whole
  <1>6. EngineGoesTo(hit) > hit /\ EngineGoesTo(hit) <= End + Align - 1
    <2>1. CASE Whole(hit, Span(hit)) /\ Span(hit) > 0
      <3>1. EngineGoesTo(hit) = hit + Span(hit)
        BY <2>1 DEF EngineGoesTo
      <3>2. Span(hit) \in Nat \ {0}
        BY <1>1, <1>2, <2>1
      <3>. QED BY <1>1, <1>2, <1>3, <1>5, <2>1, <3>1, <3>2
    <2>2. CASE ~(Whole(hit, Span(hit)) /\ Span(hit) > 0)
      <3>1. EngineGoesTo(hit) = hit + 1
        BY <2>2 DEF EngineGoesTo
      <3>. QED BY <1>4, <3>1
    <2>. QED BY <2>1, <2>2
  <1>7. ASSUME dump.format = "cpio", Whole(hit, Span(hit))
        PROVE  Landing(hit) > hit /\ Landing(hit) <= End + Align - 1
    <2>1. Span(hit) \in Nat
      BY <1>1, <1>7
    <2>2. Body(hit) + Span(hit) <= End
      BY <1>2, <1>7, <2>1 DEF Whole
    <2>3. PICK a \in Nat : a = Aligned(Span(hit)) /\ a >= Span(hit) /\ a <= Span(hit) + Align - 1
      BY <2>1, AlignedUp
    <2>4. Landing(hit) = Body(hit) + a
      BY <2>3 DEF Landing
    <2>. QED BY <1>1, <1>2, <1>3, <2>1, <2>2, <2>3, <2>4
  <1>. QED BY <1>4, <1>6, <1>7

LEMMA TurnIs ==
  ASSUME HuntInv, NEW hit, FirstHeader(hit),
         RefusesHeader(hit) \/ LeavesUnjudged(hit) \/ FindsEntry(hit) \/ FindsCpioEntry(hit)
  PROVE  HuntInv' /\ Turns(hit)
  <1>1. /\ hit \in DOMAIN dump.headers /\ hit >= hunt.from /\ hunt.stage = "search"
        /\ \A at \in DOMAIN dump.headers : at \in Nat
        /\ DOMAIN hunt = HuntFields
    BY PartsType DEF FirstHeader, HuntInv, ScannerInv
  <1>2. ASSUME hunt'.from = hit + 1 PROVE Jumps(hit)
    BY <1>1, <1>2 DEF Jumps
  <1>3. CASE RefusesHeader(hit)
    <2>1. /\ dump' = dump /\ hunt'.stage = "search" /\ hunt'.row = hunt.row
          /\ PassesBy(hit)
      BY <1>1, <1>3 DEF RefusesHeader, PassesOver, PassesBy, HuntFields
    <2>2. hunt'.from = hit + 1
      BY <2>1 DEF PassesBy
    <2>3. hunt'.from > hit /\ hunt'.from <= End + Align - 1 /\ Jumps(hit)
      BY <1>1, <1>2, <2>2, NextWithin DEF HuntInv
    <2>4. Turns(hit)
      BY <1>1, <2>1, <2>3 DEF Turns
    <2>. QED BY <1>3, <2>4, RefusesKeeps
  <1>4. CASE LeavesUnjudged(hit)
    <2>1. PICK h : /\ h = [hunt EXCEPT !.spent = Paid(hit, @)] /\ NotJudged(hit, h)
      BY <1>4 DEF LeavesUnjudged
    <2>2. DOMAIN h = HuntFields /\ h.bounded = hunt.bounded /\ h.held = hunt.held
          /\ h.variants = hunt.variants /\ h.stage = hunt.stage /\ h.row = hunt.row
      BY <1>1, <2>1 DEF HuntFields
    <2>3. TellsOf(hit)
      BY <2>1, <2>2, TellingTells
    <2>4. dump' = dump /\ hunt'.stage = "search" /\ hunt'.row = hunt.row
      BY <1>1, <2>1, <2>2 DEF NotJudged, PassesOver, Told, HuntFields
    <2>5. hunt'.from > hit /\ hunt'.from <= End + Align - 1 /\ Jumps(hit)
      BY <1>1, <1>2, <2>3, NextWithin DEF TellsOf, HuntInv
    <2>6. Turns(hit)
      BY <1>1, <2>3, <2>4, <2>5 DEF Turns
    <2>. QED BY <1>4, <2>6, LeavesKeeps
  <1>5. CASE FindsEntry(hit)
    <2>1. /\ dump' = dump /\ hunt'.stage = "search" /\ hunt'.row = hunt.row
          /\ Recovers(hit) /\ hunt'.from = EngineGoesTo(hit)
      BY <1>1, <1>5 DEF FindsEntry, Recovers, HuntFields
    <2>2. hunt'.from > hit /\ hunt'.from <= End + Align - 1
      BY <1>1, <2>1, NextWithin DEF Recovers, HuntInv
    <2>3. HuntInv' /\ Jumps(hit)
      BY <1>5, FindsKeeps
    <2>. QED BY <1>1, <2>1, <2>2, <2>3 DEF Turns
  <1>6. CASE FindsCpioEntry(hit)
    <2>1. HuntInv' /\ Jumps(hit)
      BY <1>6, FindsCpioKeeps
    <2>. DEFINE looks == Whole(hit, Span(hit))
                next == Landing(hit)
                paid == Paid(hit, hunt.spent)
                backed == looks /\ Backs(next, paid)
                asked == looks /\ MayBePadding(next)
                spent == IF looks THEN PaidToLook(next, paid) ELSE paid
                target == IF dump.headers[hit].is = "symlink" /\ looks THEN Span(hit) ELSE 0
                h == [hunt EXCEPT !.spent = spent, !.memo = IF asked THEN MemoAfter(next) ELSE @]
    <2>2. \/ NotJudged(hit, h)
          \/ /\ recovered' = Append(recovered, Gives(hit, Span(hit), FALSE))
             /\ hunt' = [h EXCEPT !.spent = @ + target, !.from = IF backed THEN next ELSE hit + 1]
             /\ UNCHANGED <<dump, unjudged>>
      BY <1>6 DEF FindsCpioEntry
    <2>. HIDE DEF paid, spent, target
    <2>3. DOMAIN h = HuntFields /\ h.bounded = hunt.bounded /\ h.held = hunt.held
          /\ h.variants = hunt.variants /\ h.stage = hunt.stage /\ h.row = hunt.row
      BY <1>1 DEF HuntFields
    <2>. HIDE DEF h
    <2>4. CASE NotJudged(hit, h)
      <3>1. TellsOf(hit)
        BY <2>3, <2>4, TellingTells
      <3>2. dump' = dump /\ hunt'.stage = "search" /\ hunt'.row = hunt.row
        BY <1>1, <2>3, <2>4 DEF NotJudged, PassesOver, Told, HuntFields
      <3>3. hunt'.from > hit /\ hunt'.from <= End + Align - 1
        BY <1>1, <3>1, NextWithin DEF TellsOf, HuntInv
      <3>. QED BY <1>1, <2>1, <3>1, <3>2, <3>3 DEF Turns
    <2>5. CASE /\ recovered' = Append(recovered, Gives(hit, Span(hit), FALSE))
               /\ hunt' = [h EXCEPT !.spent = @ + target,
                                    !.from = IF backed THEN Landing(hit) ELSE hit + 1]
               /\ UNCHANGED <<dump, unjudged>>
      <3>1. /\ dump' = dump /\ hunt'.stage = "search" /\ hunt'.row = hunt.row
            /\ hunt'.from = (IF backed THEN Landing(hit) ELSE hit + 1)
            /\ hunt'.variants = hunt.variants /\ hunt'.held = hunt.held
            /\ hunt'.bounded = hunt.bounded
        BY <1>1, <2>3, <2>5 DEF HuntFields
      <3>2. IsEntry(hit) /\ dump.format = "cpio"
        BY <1>6 DEF FindsCpioEntry
      <3>3. hunt'.from > hit /\ hunt'.from <= End + Align - 1
        BY <1>1, <2>2, <3>1, <3>2, NextWithin DEF HuntInv
      <3>4. Recovers(hit)
        BY <2>5, <3>1, <3>2 DEF Recovers
      <3>. QED BY <1>1, <2>1, <3>1, <3>3, <3>4 DEF Turns
    <2>. QED BY <2>2, <2>4, <2>5
  <1>. QED BY <1>3, <1>4, <1>5, <1>6

-------------------------------------------------------------------------------
(* What is told of the unjudged headers.                                    *)
Spoken == {p \in unjudged : ~InDirectory(p)}

(* Those held for the directory are the unjudged it names, the others are   *)
(* told of; only the directory recovers an unjudged header.                 *)
ToldInv ==
    /\ hunt.from <= End + Align - 1
    /\ LogOf(hunt.bounded) /\ LogOf(hunt.variants)
    /\ unjudged \subseteq DOMAIN dump.headers
    /\ hunt.held \in Seq(Places) /\ ToSet(hunt.held) = unjudged \ Spoken
    /\ hunt.stage = "search" => \A p \in unjudged \cup RecoveredAt : p < hunt.from
    /\ \A p \in unjudged \cap RecoveredAt : InDirectory(p) /\ hunt.stage # "search"
    /\ hunt.stage # "done" =>
          hunt.bounded.total = Cardinality(Spoken) /\ Listing(hunt.bounded.stored, Spoken)
    /\ SightingsExact

LEMMA PlacesFinite ==
  ASSUME Known, NEW S, S \subseteq DOMAIN dump.headers
  PROVE  S \subseteq Places /\ S \subseteq Nat /\ IsFiniteSet(S) /\ Cardinality(S) \in Nat
  <1>1. DOMAIN dump.headers \subseteq Places
    BY DumpsType DEF Known
  <1>2. IsFiniteSet(Places) /\ Places \subseteq Nat
    <2>1. 0 \in Int /\ End - Fixed \in Int
      BY HuntLimits
    <2>. QED BY <2>1, FS_Interval DEF Places
  <1>. QED BY <1>1, <1>2, FS_Subset, FS_CardinalityType

LEMMA HeldAppended ==
  ASSUME NEW T, NEW s \in Seq(T), NEW x \in T
  PROVE  Append(s, x) \in Seq(T) /\ ToSet(Append(s, x)) = ToSet(s) \cup {x}
  <1>1. /\ Append(s, x) \in Seq(T) /\ DOMAIN Append(s, x) = 1 .. Len(s) + 1
        /\ DOMAIN s = 1 .. Len(s) /\ Len(s) \in Nat
        /\ \A k \in 1 .. Len(s) : Append(s, x)[k] = s[k]
        /\ Append(s, x)[Len(s) + 1] = x
    OBVIOUS
  <1>2. ASSUME NEW y \in ToSet(Append(s, x)) PROVE y \in ToSet(s) \cup {x}
    <2>1. PICK k \in 1 .. Len(s) + 1 : Append(s, x)[k] = y
      BY <1>1, <1>2 DEF ToSet
    <2>2. k \in 1 .. Len(s) \/ k = Len(s) + 1
      BY <1>1
    <2>. QED BY <1>1, <2>1, <2>2 DEF ToSet
  <1>3. ASSUME NEW y \in ToSet(s) \cup {x} PROVE y \in ToSet(Append(s, x))
    <2>1. CASE y = x
      <3>1. Len(s) + 1 \in 1 .. Len(s) + 1
        BY <1>1
      <3>. QED BY <1>1, <2>1, <3>1 DEF ToSet
    <2>2. CASE y \in ToSet(s)
      <3>1. PICK k \in 1 .. Len(s) : s[k] = y
        BY <1>1, <2>2 DEF ToSet
      <3>2. k \in 1 .. Len(s) + 1
        BY <1>1
      <3>. QED BY <1>1, <3>1, <3>2 DEF ToSet
    <2>. QED BY <1>3, <2>1, <2>2
  <1>. QED BY <1>1, <1>2, <1>3

LEMMA AppendedOffsets ==
  ASSUME recovered \in Seq(Candidates), NEW c, recovered' = Append(recovered, c)
  PROVE  RecoveredAt' = RecoveredAt \cup {c.offset}
  <1>1. /\ DOMAIN recovered' = 1 .. Len(recovered) + 1
        /\ DOMAIN recovered = 1 .. Len(recovered) /\ Len(recovered) \in Nat
        /\ \A n \in DOMAIN recovered : recovered'[n] = recovered[n]
        /\ recovered'[Len(recovered) + 1] = c
    OBVIOUS
  <1>2. \A n \in DOMAIN recovered' : n \in DOMAIN recovered \/ n = Len(recovered) + 1
    BY <1>1
  <1>3. \A n \in DOMAIN recovered : n \in DOMAIN recovered'
    BY <1>1
  <1>4. Len(recovered) + 1 \in DOMAIN recovered'
    BY <1>1
  <1>. QED BY <1>1, <1>2, <1>3, <1>4, Zenon DEF RecoveredAt

LEMMA OffsetsType ==
  ASSUME recovered \in Seq(Candidates)
  PROVE  \A p \in RecoveredAt : p \in Nat
  <1>1. ASSUME NEW n \in DOMAIN recovered PROVE recovered[n].offset \in Nat
    <2>1. recovered[n] \in Candidates
      OBVIOUS
    <2>. QED BY <2>1 DEF Candidates
  <1>. QED BY <1>1 DEF RecoveredAt

LEMMA SameRecovered ==
  ASSUME recovered' = recovered PROVE RecoveredAt' = RecoveredAt
  BY DEF RecoveredAt

(* A turn of the search tells of what it leaves unjudged.                   *)
LEMMA TurnTells ==
  ASSUME HuntInv, ToldInv, NEW hit, FirstHeader(hit), Turns(hit), HuntInv'
  PROVE  ToldInv'
  <1>1. /\ dump' = dump /\ hit \in DOMAIN dump.headers /\ hit >= hunt.from
        /\ hunt.stage = "search" /\ hunt'.stage = "search"
        /\ hunt'.from > hit /\ hunt'.from <= End + Align - 1
    BY DEF Turns
  <1>2. /\ hit \in Nat /\ hit \in Places /\ hunt.from \in Nat /\ hunt'.from \in Nat
        /\ recovered \in Seq(Candidates) /\ recovered' \in Seq(Candidates)
    BY <1>1, PlacesFinite DEF HuntInv, ScannerInv, RecoveredInv
  <1>3. \A p : (InDirectory(p))' = InDirectory(p)
    BY <1>1 DEF InDirectory
  <1>4. /\ \A p \in unjudged : p \in Nat /\ p < hunt.from
        /\ \A p \in RecoveredAt : p \in Nat /\ p < hunt.from
    <2>1. \A p \in unjudged : p \in Nat
      BY PlacesFinite DEF HuntInv, ToldInv
    <2>2. \A p \in RecoveredAt : p \in Nat
      BY <1>2, OffsetsType
    <2>. QED BY <1>1, <2>1, <2>2 DEF ToldInv
  <1>5. /\ \A p \in unjudged : p < hit /\ p < hunt'.from
        /\ \A p \in RecoveredAt : p < hit /\ p < hunt'.from
    BY <1>1, <1>2, <1>4
  <1>6. SightingsExact'
    BY <1>1 DEF SightingsExact
  <1>7. \A p \in RecoveredAt : p \notin unjudged
    BY <1>1 DEF ToldInv
  <1>8. CASE PassesBy(hit) \/ Recovers(hit)
    <2>1. /\ unjudged' = unjudged /\ hunt'.bounded = hunt.bounded /\ hunt'.held = hunt.held
      BY <1>8 DEF PassesBy, Recovers
    <2>2. LogOf(hunt'.variants)
      BY <1>2, <1>8, PushType DEF PassesBy, Recovers, ToldInv
    <2>3. Spoken' = Spoken
      BY <1>3, <2>1 DEF Spoken
    <2>4. \A p \in RecoveredAt' : p \in RecoveredAt \/ p = hit
      <3>1. CASE PassesBy(hit)
        BY <3>1, SameRecovered DEF PassesBy
      <3>2. CASE Recovers(hit)
        BY <1>2, <3>2, AppendedOffsets DEF Recovers, Gives
      <3>. QED BY <1>8, <3>1, <3>2
    <2>5. \A p \in unjudged' \cup RecoveredAt' : p < hunt'.from
      BY <1>1, <1>5, <2>1, <2>4
    <2>6. \A p \in unjudged' \cap RecoveredAt' : FALSE
      <3>1. hit \notin unjudged
        BY <1>2, <1>5
      <3>. QED BY <1>7, <2>1, <2>4, <3>1
    <2>7. LogOf(hunt.bounded) /\ LogOf(hunt'.bounded)
      BY <2>1 DEF ToldInv
    <2>8. /\ unjudged' \subseteq DOMAIN dump'.headers
          /\ hunt'.held \in Seq(Places) /\ ToSet(hunt'.held) = unjudged' \ Spoken'
          /\ hunt'.bounded.total = Cardinality(Spoken') /\ Listing(hunt'.bounded.stored, Spoken')
      BY <1>1, <2>1, <2>3 DEF ToldInv
    <2>. QED BY <1>1, <1>3, <1>6, <2>2, <2>5, <2>6, <2>7, <2>8 DEF ToldInv, LogOf, Listing
  <1>9. CASE TellsOf(hit)
    <2>1. /\ recovered' = recovered /\ unjudged' = unjudged \cup {hit}
          /\ hunt'.variants = hunt.variants
      BY <1>9 DEF TellsOf
    <2>2. RecoveredAt' = RecoveredAt
      BY <2>1, SameRecovered
    <2>3. \A p \in unjudged' \cup RecoveredAt' : p < hunt'.from
      BY <1>1, <1>5, <2>1, <2>2
    <2>4. \A p \in unjudged' \cap RecoveredAt' : FALSE
      <3>1. hit \notin RecoveredAt
        BY <1>2, <1>5
      <3>. QED BY <1>7, <2>1, <2>2, <3>1
    <2>5. unjudged' \subseteq DOMAIN dump'.headers
      BY <1>1, <2>1 DEF ToldInv
    <2>6. LogOf(hunt'.variants)
      BY <2>1 DEF ToldInv
    <2>7. /\ LogOf(hunt'.bounded)
          /\ hunt'.held \in Seq(Places) /\ ToSet(hunt'.held) = unjudged' \ Spoken'
          /\ hunt'.bounded.total = Cardinality(Spoken') /\ Listing(hunt'.bounded.stored, Spoken')
      <3>1. /\ Spoken \subseteq Nat /\ IsFiniteSet(Spoken) /\ hit \notin unjudged
            /\ Cardinality(Spoken) \in Nat /\ \A u \in Spoken : u < hit
        <4>1. Spoken \subseteq DOMAIN dump.headers
          BY DEF Spoken, ToldInv
        <4>2. /\ Spoken \subseteq Nat /\ IsFiniteSet(Spoken) /\ Cardinality(Spoken) \in Nat
          BY <4>1, PlacesFinite DEF HuntInv
        <4>3. hit \notin unjudged
          BY <1>2, <1>5
        <4>4. \A u \in Spoken : u < hit
          BY <1>5 DEF Spoken
        <4>. QED BY <4>2, <4>3, <4>4
      <3>2. /\ hunt.held \in Seq(Places) /\ ToSet(hunt.held) = unjudged \ Spoken
            /\ LogOf(hunt.bounded) /\ hunt.bounded.total = Cardinality(Spoken)
            /\ Listing(hunt.bounded.stored, Spoken)
        BY <1>1 DEF ToldInv
      <3>3. CASE InDirectory(hit)
        <4>1. Spoken' = Spoken /\ hit \notin Spoken
          BY <1>3, <2>1, <3>3 DEF Spoken
        <4>2. hunt'.held = Append(hunt.held, hit) /\ hunt'.bounded = hunt.bounded
          BY <1>9, <3>3 DEF TellsOf
        <4>3. hunt'.held \in Seq(Places) /\ ToSet(hunt'.held) = ToSet(hunt.held) \cup {hit}
          BY <1>2, <3>2, <4>2, HeldAppended
        <4>. QED BY <2>1, <3>2, <4>1, <4>2, <4>3
      <3>4. CASE ~InDirectory(hit)
        <4>1. Spoken' = Spoken \cup {hit} /\ hit \notin Spoken
          BY <1>3, <2>1, <3>1, <3>4 DEF Spoken
        <4>2. hunt'.held = hunt.held /\ hunt'.bounded = Push(hunt.bounded, hit)
          BY <1>9, <3>4 DEF TellsOf
        <4>3. /\ LogOf(hunt'.bounded) /\ hunt'.bounded.total = hunt.bounded.total + 1
              /\ hunt'.bounded.stored = FirstOf(Append(hunt.bounded.stored, hit))
          BY <1>2, <3>2, <4>2, PushType
        <4>4. Cardinality(Spoken') = Cardinality(Spoken) + 1
          BY <3>1, <4>1, FS_AddElement
        <4>5. Listing(FirstOf(Append(hunt.bounded.stored, hit)), Spoken \cup {hit})
          BY <1>2, <3>1, <3>2, PushLists
        <4>6. Listing(hunt'.bounded.stored, Spoken')
          BY <4>1, <4>3, <4>5
        <4>7. ToSet(hunt'.held) = unjudged' \ Spoken'
          BY <2>1, <3>1, <3>2, <4>1, <4>2
        <4>. QED BY <3>2, <4>2, <4>3, <4>4, <4>6, <4>7
      <3>. QED BY <3>3, <3>4
    <2>. QED BY <1>1, <1>6, <2>3, <2>4, <2>5, <2>6, <2>7 DEF ToldInv, LogOf, Listing
  <1>. QED BY <1>8, <1>9 DEF Turns

(* Every unjudged header of a format without a directory is told of.        *)
LEMMA EndTells ==
  ASSUME HuntInv, ToldInv, EndsSearch
  PROVE  ToldInv'
  <1>1. /\ hunt.stage = "search" /\ UNCHANGED <<dump, recovered, unjudged>>
        /\ hunt'.stage = (IF dump.format = "zip" THEN "directory" ELSE "done")
        /\ hunt'.from = hunt.from /\ hunt'.bounded = hunt.bounded
        /\ hunt'.variants = hunt.variants /\ hunt'.held = hunt.held
    BY DEF EndsSearch, HuntInv, ScannerInv, HuntFields
  <1>2. RecoveredAt' = RecoveredAt /\ Spoken' = Spoken /\ \A p : (InDirectory(p))' = InDirectory(p)
    BY <1>1 DEF RecoveredAt, Spoken, InDirectory
  <1>3. \A p \in unjudged : p \notin RecoveredAt
    BY <1>1 DEF ToldInv
  <1>4. SightingsExact'
    <2>1. CASE dump.format = "zip"
      BY <1>1, <2>1 DEF SightingsExact
    <2>2. CASE dump.format # "zip"
      <3>1. dump.directory = <<>>
        BY <2>2, DumpsType DEF HuntInv, Known
      <3>2. \A p : ~InDirectory(p)
        BY <3>1 DEF InDirectory
      <3>3. Spoken = unjudged /\ unjudged \ RecoveredAt = Spoken
        BY <1>3, <3>2 DEF Spoken
      <3>4. IsFiniteSet(Spoken)
        BY <3>3, PlacesFinite DEF HuntInv, ToldInv
      <3>5. hunt.bounded.total = Cardinality(Spoken) /\ hunt.bounded.stored \in Lowest(Spoken)
        BY <1>1, <3>4, LowestIsListing DEF ToldInv
      <3>6. unjudged' \ RecoveredAt' = Spoken
        BY <1>1, <1>2, <3>3
      <3>7. (hunt'.bounded.stored \in Lowest(unjudged' \ RecoveredAt'))
        BY <1>1, <3>5, <3>6
      <3>8. hunt'.bounded.total = Cardinality(unjudged' \ RecoveredAt')
        BY <1>1, <3>5, <3>6
      <3>. QED BY <3>7, <3>8 DEF SightingsExact, Lowest
    <2>. QED BY <2>1, <2>2
  <1>. QED BY <1>1, <1>2, <1>3, <1>4 DEF ToldInv, LogOf, Listing

(* A record of the directory recovers a header it names.                    *)
LEMMA RecordTells ==
  ASSUME HuntInv, ToldInv, Reconciles
  PROVE  ToldInv'
  <1>. DEFINE record == dump.directory[hunt.row]
  <1>1. /\ hunt.stage = "directory" /\ UNCHANGED <<dump, unjudged>>
        /\ hunt.row \in 1 .. Len(dump.directory)
        /\ hunt'.stage = "directory" /\ hunt'.from = hunt.from /\ hunt'.bounded = hunt.bounded
        /\ hunt'.variants = hunt.variants /\ hunt'.held = hunt.held
    BY DEF Reconciles, HuntInv, ScannerInv, HuntFields
  <1>2. Spoken' = Spoken /\ \A p : (InDirectory(p))' = InDirectory(p)
    BY <1>1 DEF Spoken, InDirectory
  <1>3. \A p \in RecoveredAt' : p \in RecoveredAt \/ p = record.at
    <2>1. CASE recovered' = recovered
      BY <2>1, SameRecovered
    <2>2. CASE recovered' = Append(recovered, Gives(record.at, record.span, TRUE))
      <3>1. recovered \in Seq(Candidates)
        BY DEF HuntInv, RecoveredInv
      <3>2. Gives(record.at, record.span, TRUE).offset = record.at
        BY DEF Gives
      <3>. QED BY <2>2, <3>1, <3>2, AppendedOffsets
    <2>. QED BY <2>1, <2>2 DEF Reconciles
  <1>4. InDirectory(record.at)
    <2>1. dump.directory \in Seq([at : Places, span : Nat])
      BY DumpsType DEF HuntInv, Known
    <2>2. hunt.row \in DOMAIN dump.directory
      BY <1>1, <2>1
    <2>. QED BY <2>2 DEF InDirectory
  <1>. HIDE DEF record
  <1>5. \A p \in unjudged' \cap RecoveredAt' : InDirectory(p)
    BY <1>1, <1>3, <1>4 DEF ToldInv
  <1>6. SightingsExact'
    BY <1>1 DEF SightingsExact
  <1>. QED BY <1>1, <1>2, <1>5, <1>6 DEF ToldInv, LogOf, Listing

(* What the directory did not recover is told of with the rest.             *)
LEMMA ConcludingTells ==
  ASSUME HuntInv, ToldInv, Concludes
  PROVE  ToldInv'
  <1>. DEFINE silent == unjudged \ RecoveredAt
  <1>1. /\ hunt.stage = "directory" /\ UNCHANGED <<dump, unjudged>> /\ hunt'.bounded \in Merged
        /\ hunt'.stage = "done" /\ hunt'.from = hunt.from /\ recovered' \in InFileOrder
        /\ hunt'.variants = hunt.variants /\ hunt'.held = hunt.held
    BY DEF Concludes, HuntInv, ScannerInv, HuntFields
  <1>2. Spoken' = Spoken /\ \A p : (InDirectory(p))' = InDirectory(p)
    BY <1>1 DEF Spoken, InDirectory
  <1>3. RecoveredAt' = RecoveredAt
    BY <1>1, SortedSame DEF HuntInv, RecoveredInv
  <1>4. /\ ToSet(hunt.held) = unjudged \ Spoken /\ Spoken \subseteq unjudged
        /\ \A p \in Spoken : p \notin RecoveredAt
        /\ LogOf(hunt.bounded)
        /\ hunt.bounded.total = Cardinality(Spoken) /\ Listing(hunt.bounded.stored, Spoken)
        /\ unjudged \subseteq DOMAIN dump.headers
    BY <1>1 DEF ToldInv, Spoken
  <1>5. StillHeld \cup Spoken = silent /\ StillHeld \cap Spoken = {}
    BY <1>4 DEF StillHeld
  <1>6. /\ IsFiniteSet(StillHeld) /\ StillHeld \subseteq Nat /\ Cardinality(StillHeld) \in Nat
        /\ IsFiniteSet(Spoken) /\ Spoken \subseteq Nat /\ Cardinality(Spoken) \in Nat
        /\ silent \subseteq Places /\ IsFiniteSet(silent) /\ Cardinality(silent) \in Nat
    <2>1. /\ StillHeld \subseteq DOMAIN dump.headers /\ Spoken \subseteq DOMAIN dump.headers
          /\ silent \subseteq DOMAIN dump.headers
      BY <1>4, <1>5
    <2>. HIDE DEF silent
    <2>. QED BY <2>1, PlacesFinite DEF HuntInv
  <1>7. Cardinality(silent) = Cardinality(StillHeld) + Cardinality(Spoken)
    <2>1. Cardinality(StillHeld \cap Spoken) = 0
      <3>1. Cardinality({}) = 0
        BY FS_EmptySet
      <3>. QED BY <1>5, <3>1
    <2>2. Cardinality(StillHeld \cup Spoken)
            = Cardinality(StillHeld) + Cardinality(Spoken) - Cardinality(StillHeld \cap Spoken)
      BY <1>6, FS_Union
    <2>3. Cardinality(StillHeld \cup Spoken) = Cardinality(StillHeld) + Cardinality(Spoken)
      BY <1>6, <2>1, <2>2
    <2>. QED BY <1>5, <2>3
  <1>8. hunt'.bounded.total = Cardinality(silent) /\ Listing(hunt'.bounded.stored, silent)
        /\ DOMAIN hunt'.bounded = {"stored", "total"}
        /\ hunt'.bounded = [stored |-> hunt'.bounded.stored, total |-> hunt'.bounded.total]
    <2>1. CASE StillHeld = {}
      <3>1. hunt'.bounded = hunt.bounded
        BY <1>1, <2>1 DEF Merged
      <3>2. silent = Spoken
        BY <1>5, <2>1
      <3>. QED BY <1>4, <3>1, <3>2 DEF LogOf
    <2>2. CASE StillHeld # {}
      <3>1. PICK lowest \in Lowest(StillHeld \cup ToSet(hunt.bounded.stored)) :
              hunt'.bounded = [stored |-> lowest,
                               total |-> hunt.bounded.total + Cardinality(StillHeld)]
        BY <1>1, <2>2 DEF Merged
      <3>2. IsFiniteSet(StillHeld \cup ToSet(hunt.bounded.stored))
        <4>1. hunt.bounded.stored \in Seq(Spoken)
              /\ \A j, k \in 1 .. Len(hunt.bounded.stored) :
                    j < k => hunt.bounded.stored[j] < hunt.bounded.stored[k]
          BY <1>4 DEF Listing
        <4>2. IsFiniteSet(ToSet(hunt.bounded.stored))
          BY <1>6, <4>1, AscendingCounts
        <4>. QED BY <1>6, <4>2, FS_Union
      <3>3. Listing(lowest, StillHeld \cup ToSet(hunt.bounded.stored))
        BY <3>1, <3>2, LowestIsListing
      <3>4. Listing(lowest, StillHeld \cup Spoken)
        BY <1>4, <1>6, <3>3, MergeLists
      <3>5. Listing(lowest, silent)
        BY <1>5, <3>4
      <3>. HIDE DEF silent
      <3>6. hunt'.bounded.stored = lowest /\ DOMAIN hunt'.bounded = {"stored", "total"}
            /\ hunt'.bounded.total = hunt.bounded.total + Cardinality(StillHeld)
        BY <3>1
      <3>7. hunt'.bounded.total = Cardinality(silent)
        BY <1>4, <1>6, <1>7, <3>6
      <3>. QED BY <3>1, <3>5, <3>6, <3>7
    <2>. QED BY <2>1, <2>2
  <1>9. LogOf(hunt'.bounded)
    <2>1. hunt'.bounded.stored \in Seq(silent) /\ Len(hunt'.bounded.stored) <= LogCap
      <3>1. PICK c \in Nat : c = Cardinality(silent)
        BY <1>6
      <3>2. /\ hunt'.bounded.stored \in Seq(silent)
            /\ Len(hunt'.bounded.stored) = (IF c <= LogCap THEN c ELSE LogCap)
        BY <1>8, <3>1 DEF Listing
      <3>3. LogCap \in Nat
        BY HuntLimits
      <3>. QED BY <3>2, <3>3
    <2>2. hunt'.bounded.stored \in Seq(Places)
      <3>1. ASSUME NEW T, NEW U, T \subseteq U, NEW s \in Seq(T) PROVE s \in Seq(U)
        BY <3>1
      <3>. HIDE DEF silent
      <3>. QED BY <1>6, <2>1, <3>1
    <2>3. hunt'.bounded.total \in Nat
      BY <1>6, <1>8
    <2>. HIDE DEF silent
    <2>. QED BY <1>8, <2>1, <2>2, <2>3 DEF LogOf
  <1>10. SightingsExact'
    <2>1. unjudged' \ RecoveredAt' = silent
      BY <1>1, <1>3
    <2>2. hunt'.bounded.stored \in Lowest(silent)
      BY <1>6, <1>8, LowestIsListing
    <2>. HIDE DEF silent
    <2>3. (hunt'.bounded.stored \in Lowest(unjudged' \ RecoveredAt'))
      BY <2>1, <2>2
    <2>4. hunt'.bounded.total = Cardinality(unjudged' \ RecoveredAt')
      BY <1>8, <2>1
    <2>. QED BY <2>3, <2>4 DEF SightingsExact, Lowest
  <1>11. /\ hunt'.from <= End + Align - 1 /\ LogOf(hunt'.variants)
         /\ unjudged' \subseteq DOMAIN dump'.headers
         /\ hunt'.held \in Seq(Places) /\ ToSet(hunt'.held) = unjudged' \ Spoken'
         /\ \A p \in unjudged' \cap RecoveredAt' : InDirectory(p)
    BY <1>1, <1>2, <1>3 DEF ToldInv
  <1>. QED BY <1>1, <1>2, <1>9, <1>10, <1>11 DEF ToldInv, LogOf

LEMMA TellingStarts ==
  ASSUME dump \in Dumps, HuntStart
  PROVE  ToldInv
  <1>1. /\ hunt.from = 0 /\ hunt.bounded = NoSightings /\ hunt.variants = NoSightings
        /\ hunt.held = <<>> /\ hunt.stage = "search"
        /\ recovered = <<>> /\ unjudged = {}
    BY DEF HuntStart
  <1>2. LogOf(NoSightings)
    <2>1. <<>> \in Seq(Places) /\ Len(<<>>) = 0
      OBVIOUS
    <2>2. LogCap \in Nat
      BY HuntLimits
    <2>. QED BY <2>1, <2>2 DEF LogOf, NoSightings
  <1>3. Spoken = {} /\ RecoveredAt = {} /\ ToSet(<<>>) = {} /\ <<>> \in Seq(Places)
    <2>1. DOMAIN <<>> = {}
      OBVIOUS
    <2>. QED BY <1>1, <2>1 DEF Spoken, RecoveredAt, ToSet
  <1>4. hunt.bounded.total = Cardinality(Spoken) /\ Listing(hunt.bounded.stored, Spoken)
    <2>1. Cardinality({}) = 0
      BY FS_EmptySet
    <2>2. LogCap \in Nat /\ Len(<<>>) = 0 /\ <<>> \in Seq({})
      BY HuntLimits
    <2>3. Listing(<<>>, {})
      BY <2>1, <2>2 DEF Listing
    <2>. QED BY <1>1, <1>3, <2>1, <2>3 DEF NoSightings
  <1>5. hunt.from <= End + Align - 1
    BY <1>1, HuntLimits
  <1>. QED BY <1>1, <1>2, <1>3, <1>4, <1>5 DEF ToldInv, SightingsExact

-------------------------------------------------------------------------------
(* The directory's records, and the order of the candidates.                *)
Distinct == \A m, n \in DOMAIN recovered : recovered[m].offset = recovered[n].offset => m = n
Ascending == \A n \in 1 .. Len(recovered) - 1 : recovered[n].offset < recovered[n + 1].offset
Settled(n) ==
    LET at == dump.directory[n].at IN HeaderThere(at) /\ Intact(at) => at \in RecoveredAt

RowsInv ==
    /\ Distinct
    /\ hunt.stage = "search" => hunt.row = 1 /\ Ascending
    /\ \A n \in 1 .. hunt.row - 1 : Settled(n)
    /\ DirectoryRecovered

LEMMA GrownList ==
  ASSUME recovered \in Seq(Candidates), NEW c, recovered' = Append(recovered, c)
  PROVE  /\ Len(recovered) \in Nat /\ Len(recovered') = Len(recovered) + 1
         /\ DOMAIN recovered = 1 .. Len(recovered)
         /\ DOMAIN recovered' = 1 .. Len(recovered) + 1
         /\ \A n \in 1 .. Len(recovered) : recovered'[n] = recovered[n]
         /\ recovered'[Len(recovered) + 1] = c
  OBVIOUS

LEMMA NewIsDistinct ==
  ASSUME recovered \in Seq(Candidates), NEW c, recovered' = Append(recovered, c),
         c.offset \notin RecoveredAt, Distinct
  PROVE  Distinct'
  <1>. DEFINE n == Len(recovered)
  <1>1. /\ n \in Nat /\ DOMAIN recovered = 1 .. n /\ DOMAIN recovered' = 1 .. n + 1
        /\ \A m \in 1 .. n : recovered'[m] = recovered[m] /\ recovered'[n + 1] = c
    BY GrownList
  <1>. HIDE DEF n
  <1>2. \A m \in 1 .. n : recovered[m].offset # c.offset
    BY <1>1 DEF RecoveredAt
  <1>3. \A k, m \in 1 .. n : recovered[k].offset = recovered[m].offset => k = m
    BY <1>1 DEF Distinct
  <1>4. recovered'[n + 1] = c
    BY GrownList DEF n
  <1>5. ASSUME NEW k \in 1 .. n + 1, NEW m \in 1 .. n + 1, recovered'[k].offset = recovered'[m].offset
        PROVE  k = m
    <2>1. (k \in 1 .. n \/ k = n + 1) /\ (m \in 1 .. n \/ m = n + 1)
      BY <1>1
    <2>2. CASE k \in 1 .. n /\ m \in 1 .. n
      BY <1>1, <1>3, <1>5, <2>2
    <2>3. CASE k \in 1 .. n /\ m = n + 1
      BY <1>1, <1>2, <1>4, <1>5, <2>3
    <2>4. CASE k = n + 1 /\ m \in 1 .. n
      BY <1>1, <1>2, <1>4, <1>5, <2>4
    <2>. QED BY <2>1, <2>2, <2>3, <2>4
  <1>. QED BY <1>1, <1>5 DEF Distinct

LEMMA NewIsLast ==
  ASSUME recovered \in Seq(Candidates), NEW c, recovered' = Append(recovered, c),
         \A p \in RecoveredAt : p < c.offset, Ascending
  PROVE  Ascending'
  <1>. DEFINE n == Len(recovered)
  <1>1. /\ n \in Nat /\ DOMAIN recovered = 1 .. n /\ Len(recovered') = n + 1
        /\ \A m \in 1 .. n : recovered'[m] = recovered[m]
        /\ recovered'[n + 1] = c
    BY GrownList
  <1>2. \A m \in 1 .. n - 1 : recovered[m].offset < recovered[m + 1].offset
    BY DEF Ascending
  <1>. HIDE DEF n
  <1>3. \A m \in 1 .. n : recovered[m].offset < c.offset
    BY <1>1 DEF RecoveredAt
  <1>4. ASSUME NEW m \in 1 .. n PROVE recovered'[m].offset < recovered'[m + 1].offset
    <2>1. CASE m = n
      BY <1>1, <1>3, <2>1
    <2>2. CASE m # n
      <3>1. m \in 1 .. n - 1 /\ m + 1 \in 1 .. n
        BY <1>1, <2>2
      <3>. QED BY <1>1, <1>2, <3>1
    <2>. QED BY <2>1, <2>2
  <1>5. Len(recovered') - 1 = n
    BY <1>1
  <1>. QED BY <1>4, <1>5 DEF Ascending

LEMMA StillSettled ==
  ASSUME UNCHANGED dump, RecoveredAt \subseteq RecoveredAt'
  PROVE  \A n : Settled(n) => Settled(n)'
  <1>1. \A p : (HeaderThere(p) /\ Intact(p))' = (HeaderThere(p) /\ Intact(p))
    BY DEF HeaderThere, Intact, VariableEnd, PieceAfter, Parts
  <1>. QED BY <1>1 DEF Settled

LEMMA TurnKeepsRows ==
  ASSUME HuntInv, ToldInv, RowsInv, NEW hit, FirstHeader(hit), Turns(hit)
  PROVE  RowsInv'
  <1>1. /\ dump' = dump /\ hit \in DOMAIN dump.headers /\ hit >= hunt.from
        /\ hunt.stage = "search" /\ hunt'.stage = "search" /\ hunt'.row = hunt.row
        /\ recovered \in Seq(Candidates)
    BY DEF Turns, HuntInv, RecoveredInv
  <1>2. hunt.row = 1 /\ Ascending /\ Distinct
    BY <1>1 DEF RowsInv
  <1>3. Ascending' /\ Distinct'
    <2>1. CASE recovered' = recovered
      BY <1>2, <2>1 DEF Ascending, Distinct
    <2>2. CASE Recovers(hit)
      <3>. DEFINE c == Gives(hit, Span(hit), FALSE)
      <3>1. recovered' = Append(recovered, c) /\ c.offset = hit
        BY <2>2 DEF Recovers, Gives
      <3>. HIDE DEF c
      <3>2. \A p \in RecoveredAt : p < hit
        <4>1. \A p \in RecoveredAt : p \in Nat /\ p < hunt.from
          BY <1>1, OffsetsType DEF ToldInv
        <4>2. hit \in Nat /\ hunt.from \in Nat
          BY <1>1, PlacesFinite DEF HuntInv, ScannerInv
        <4>. QED BY <1>1, <4>1, <4>2
      <3>3. hit \notin RecoveredAt
        <4>1. hit \in Nat
          BY <1>1, PlacesFinite DEF HuntInv
        <4>. QED BY <3>2, <4>1
      <3>. QED BY <1>1, <1>2, <3>1, <3>2, <3>3, NewIsLast, NewIsDistinct
    <2>. QED BY <2>1, <2>2 DEF Turns, PassesBy, TellsOf
  <1>4. DirectoryRecovered'
    BY <1>1 DEF DirectoryRecovered
  <1>5. 1 .. hunt'.row - 1 = {}
    BY <1>1, <1>2
  <1>. QED BY <1>1, <1>2, <1>3, <1>4, <1>5 DEF RowsInv

LEMMA EndKeepsRows ==
  ASSUME HuntInv, RowsInv, EndsSearch
  PROVE  RowsInv'
  <1>1. /\ hunt.stage = "search" /\ UNCHANGED <<dump, recovered>> /\ hunt'.row = hunt.row
        /\ hunt'.stage = (IF dump.format = "zip" THEN "directory" ELSE "done")
    BY DEF EndsSearch, HuntInv, ScannerInv, HuntFields
  <1>2. hunt.row = 1 /\ Ascending /\ Distinct
    BY <1>1 DEF RowsInv
  <1>3. DirectoryRecovered'
    <2>1. CASE dump.format = "zip"
      BY <1>1, <2>1 DEF DirectoryRecovered
    <2>2. CASE dump.format # "zip"
      <3>1. dump.directory = <<>>
        BY <2>2, DumpsType DEF HuntInv, Known
      <3>2. DOMAIN dump'.directory = {}
        BY <1>1, <3>1
      <3>3. Ascending'
        BY <1>1, <1>2 DEF Ascending
      <3>. QED BY <3>2, <3>3 DEF DirectoryRecovered, Ascending
    <2>. QED BY <2>1, <2>2
  <1>4. 1 .. hunt'.row - 1 = {} /\ Distinct'
    BY <1>1, <1>2 DEF Distinct
  <1>. QED BY <1>1, <1>3, <1>4 DEF RowsInv

LEMMA RowSettled ==
  ASSUME RowsInv, UNCHANGED dump, hunt'.stage = "directory", hunt.row \in Nat \ {0},
         hunt'.row = hunt.row + 1, RecoveredAt \subseteq RecoveredAt', Distinct',
         Settled(hunt.row) \/ dump.directory[hunt.row].at \in RecoveredAt'
  PROVE  RowsInv'
  <1>1. PICK row \in Nat \ {0} : row = hunt.row
    OBVIOUS
  <1>2. \A n \in 1 .. row - 1 : Settled(n)'
    BY <1>1, StillSettled DEF RowsInv
  <1>3. Settled(row)'
    <2>1. CASE Settled(row)
      BY <2>1, StillSettled
    <2>2. CASE dump.directory[row].at \in RecoveredAt'
      BY <2>2 DEF Settled
    <2>. QED BY <1>1, <2>1, <2>2
  <1>4. hunt'.row = row + 1
    BY <1>1
  <1>5. \A n \in 1 .. row : n \in 1 .. row - 1 \/ n = row
    BY <1>1
  <1>6. \A n \in 1 .. row : Settled(n)'
    BY <1>2, <1>3, <1>5
  <1>7. 1 .. hunt'.row - 1 = 1 .. row
    BY <1>4
  <1>8. (\A n \in 1 .. hunt.row - 1 : Settled(n))'
    BY <1>6, <1>7
  <1>9. DirectoryRecovered'
    BY DEF DirectoryRecovered
  <1>. QED BY <1>8, <1>9 DEF RowsInv

LEMMA RecordKeepsRows ==
  ASSUME HuntInv, RowsInv, Reconciles
  PROVE  RowsInv'
  <1>. DEFINE record == dump.directory[hunt.row]
              c == Gives(record.at, record.span, TRUE)
  <1>1. /\ hunt.stage = "directory" /\ dump' = dump /\ hunt'.stage = "directory"
        /\ hunt'.row = hunt.row + 1 /\ hunt.row \in Nat \ {0}
        /\ recovered \in Seq(Candidates)
    BY DEF Reconciles, HuntInv, ScannerInv, RecoveredInv, HuntFields
  <1>2. /\ recovered' = (IF /\ record.at \notin RecoveredAt
                            /\ HeaderThere(record.at) /\ Intact(record.at)
                         THEN Append(recovered, c) ELSE recovered)
        /\ c.offset = record.at
    BY DEF Reconciles, Gives
  <1>. HIDE DEF c
  <1>3. CASE recovered' = recovered /\ (HeaderThere(record.at) /\ Intact(record.at)
                                          => record.at \in RecoveredAt)
    <2>1. Distinct' /\ RecoveredAt' = RecoveredAt
      BY <1>3, SameRecovered DEF Distinct, RowsInv
    <2>2. Settled(hunt.row)
      BY <1>3 DEF Settled
    <2>. QED BY <1>1, <2>1, <2>2, RowSettled
  <1>4. CASE recovered' = Append(recovered, c) /\ record.at \notin RecoveredAt
    <2>1. RecoveredAt' = RecoveredAt \cup {record.at}
      BY <1>1, <1>2, <1>4, AppendedOffsets
    <2>2. Distinct'
      BY <1>1, <1>2, <1>4, NewIsDistinct DEF RowsInv
    <2>. QED BY <1>1, <2>1, <2>2, RowSettled DEF record
  <1>. QED BY <1>2, <1>3, <1>4

(* What climbs at every step is apart.                                      *)
LEMMA AscendsAlways ==
  ASSUME NEW s, NEW len \in Nat, \A k \in 1 .. len - 1 : s[k].offset < s[k + 1].offset,
         \A k \in 1 .. len : s[k].offset \in Nat,
         NEW m \in 1 .. len, NEW n \in 1 .. len, m < n
  PROVE  s[m].offset < s[n].offset
  <1>. DEFINE S == {k \in 1 .. len : m < k /\ ~(s[m].offset < s[k].offset)}
  <1>1. SUFFICES ASSUME S # {} PROVE FALSE
    OBVIOUS
  <1>2. S \subseteq Nat
    OBVIOUS
  <1>3. PICK k \in S : \A j \in S : k <= j
    <2>. HIDE DEF S
    <2>. QED BY <1>1, <1>2, LeastOf
  <1>4. k \in 1 .. len /\ m < k /\ ~(s[m].offset < s[k].offset)
    BY <1>3
  <1>5. k - 1 \in 1 .. len - 1 /\ (k - 1) + 1 = k /\ k - 1 \in 1 .. len
    BY <1>4
  <1>6. s[k - 1].offset < s[k].offset
    BY <1>5
  <1>7. s[m].offset \in Nat /\ s[k].offset \in Nat /\ s[k - 1].offset \in Nat
    BY <1>4, <1>5
  <1>8. CASE k - 1 = m
    BY <1>4, <1>6, <1>8
  <1>9. CASE k - 1 # m
    <2>1. m < k - 1
      BY <1>4, <1>9
    <2>2. k - 1 \notin S
      BY <1>3, <1>4
    <2>3. s[m].offset < s[k - 1].offset
      BY <1>5, <2>1, <2>2
    <2>. QED BY <1>4, <1>6, <1>7, <2>3
  <1>. QED BY <1>8, <1>9

LEMMA ConcludingKeepsRows ==
  ASSUME HuntInv, RowsInv, Concludes
  PROVE  RowsInv'
  <1>1. /\ dump' = dump /\ hunt'.stage = "done" /\ hunt'.row = hunt.row
        /\ hunt.row > Len(dump.directory) /\ hunt.row \in Nat
        /\ recovered \in Seq(Candidates) /\ recovered' \in InFileOrder
    BY DEF Concludes, HuntInv, ScannerInv, RecoveredInv, HuntFields
  <1>2. RecoveredAt' = RecoveredAt /\ Ascending' /\ recovered' \in Seq(Candidates)
    BY <1>1, SortedSame DEF RowsInv, Distinct, Ascending
  <1>3. \A n \in 1 .. hunt.row - 1 : Settled(n)'
    BY <1>1, <1>2, StillSettled DEF RowsInv
  <1>4. Distinct'
    <2>1. PICK s \in Seq(Candidates) : s = recovered'
      BY <1>2
    <2>2. ASSUME NEW m \in DOMAIN s, NEW n \in DOMAIN s, m < n PROVE s[m].offset < s[n].offset
      <3>1. \A k \in 1 .. Len(s) - 1 : s[k].offset < s[k + 1].offset
        BY <1>2, <2>1 DEF Ascending
      <3>2. \A k \in 1 .. Len(s) : s[k].offset \in Nat
        <4>1. \A k \in 1 .. Len(s) : s[k] \in Candidates
          OBVIOUS
        <4>. QED BY <4>1 DEF Candidates
      <3>3. Len(s) \in Nat /\ m \in 1 .. Len(s) /\ n \in 1 .. Len(s)
        OBVIOUS
      <3>4. PICK len \in Nat : len = Len(s)
        BY <3>3
      <3>. QED BY <2>2, <3>1, <3>2, <3>3, <3>4, AscendsAlways
    <2>3. \A m \in DOMAIN s : m \in Nat /\ s[m].offset \in Nat
      <3>1. \A k \in DOMAIN s : k \in Nat /\ s[k] \in Candidates
        OBVIOUS
      <3>. QED BY <3>1 DEF Candidates
    <2>4. ASSUME NEW m \in DOMAIN s, NEW n \in DOMAIN s, s[m].offset = s[n].offset PROVE m = n
      <3>1. ~(m < n) /\ ~(n < m)
        BY <2>2, <2>3, <2>4
      <3>. QED BY <2>3, <3>1
    <2>. QED BY <2>1, <2>4 DEF Distinct
  <1>5. DirectoryRecovered'
    <2>1. ASSUME NEW n \in DOMAIN dump.directory PROVE n \in 1 .. hunt.row - 1
      <3>1. dump.directory \in Seq([at : Places, span : Nat])
        BY DumpsType DEF HuntInv, Known
      <3>2. n \in 1 .. Len(dump.directory) /\ Len(dump.directory) \in Nat
        BY <3>1
      <3>. QED BY <1>1, <3>2
    <2>2. \A n \in DOMAIN dump'.directory : Settled(n)'
      BY <1>1, <1>3, <2>1
    <2>. QED BY <1>2, <2>2 DEF DirectoryRecovered, Settled, Ascending
  <1>. QED BY <1>1, <1>3, <1>4, <1>5 DEF RowsInv

LEMMA RowsStart ==
  ASSUME dump \in Dumps, HuntStart
  PROVE  RowsInv
  <1>1. hunt.stage = "search" /\ hunt.row = 1 /\ recovered = <<>>
    BY DEF HuntStart
  <1>2. DOMAIN recovered = {} /\ 1 .. Len(recovered) - 1 = {} /\ 1 .. hunt.row - 1 = {}
    BY <1>1
  <1>. QED BY <1>1, <1>2 DEF RowsInv, Distinct, Ascending, DirectoryRecovered

-------------------------------------------------------------------------------
(* The headers this build has no gate for that the search has passed.       *)
IsVariant(p) == Sound(p) /\ dump.headers[p].is = "variant"
Ungated ==
    {p \in DOMAIN dump.headers :
        Passed(p) /\ IsVariant(p) /\ p \notin unjudged /\ ~JumpedOver(p)}

VariantsInv == Cardinality(Ungated) <= hunt.variants.total

LEMMA JumpsStay ==
  ASSUME recovered \in Seq(Candidates), UNCHANGED dump,
         recovered' = recovered \/ \E c : recovered' = Append(recovered, c)
  PROVE  \A p : JumpedOver(p) => JumpedOver(p)'
  <1>1. \A n \in DOMAIN recovered : n \in DOMAIN recovered' /\ recovered'[n] = recovered[n]
    <2>1. CASE recovered' = recovered
      BY <2>1
    <2>2. ASSUME NEW c, recovered' = Append(recovered, c)
          PROVE  \A n \in DOMAIN recovered : n \in DOMAIN recovered' /\ recovered'[n] = recovered[n]
      BY <2>2, GrownList
    <2>. QED BY <2>1, <2>2
  <1>2. ASSUME NEW p, JumpedOver(p) PROVE JumpedOver(p)'
    <2>1. PICK n \in DOMAIN recovered :
            LET e == recovered[n]
                next == e.body + Aligned(e.span)
            IN  /\ ~e.indexed /\ e.left = Absent /\ p > e.offset
                /\ IF dump.format = "cpio"
                   THEN /\ p < next
                        /\ \/ next >= End
                           \/ HeaderThere(next) /\ Sound(next)
                           \/ next .. End - 1 \subseteq dump.zeros
                   ELSE p < e.offset + e.span
      BY <1>2 DEF JumpedOver
    <2>2. n \in DOMAIN recovered' /\ recovered'[n] = recovered[n]
      BY <1>1
    <2>3. \A at : (HeaderThere(at) /\ Sound(at))' = (HeaderThere(at) /\ Sound(at))
      BY DEF HeaderThere, Sound, Intact, VariableEnd, PieceAfter, Parts
    <2>. QED BY <2>1, <2>2, <2>3 DEF JumpedOver
  <1>. QED BY <1>2

LEMMA SameVariants ==
  ASSUME UNCHANGED dump
  PROVE  \A p : (IsVariant(p))' = IsVariant(p)
  BY SameHeaders DEF IsVariant

(* Counted still, where no header is newly passed but the one counted.      *)
LEMMA StillCounted ==
  ASSUME HuntInv, VariantsInv, NEW more, Ungated' \subseteq Ungated \cup more, UNCHANGED dump,
         \/ more = {} /\ hunt'.variants.total = hunt.variants.total
         \/ /\ \E hit \in DOMAIN dump.headers : more = {hit}
            /\ hunt'.variants.total = hunt.variants.total + 1,
         hunt.variants.total \in Nat
  PROVE  VariantsInv'
  <1>1. IsFiniteSet(Ungated) /\ Cardinality(Ungated) \in Nat
    <2>1. Ungated \subseteq DOMAIN dump.headers
      BY DEF Ungated
    <2>. QED BY <2>1, PlacesFinite DEF HuntInv
  <1>2. CASE more = {} /\ hunt'.variants.total = hunt.variants.total
    <2>1. Ungated' \subseteq Ungated
      BY <1>2
    <2>2. Cardinality(Ungated') <= Cardinality(Ungated) /\ Cardinality(Ungated') \in Nat
      BY <1>1, <2>1, FS_Subset, FS_CardinalityType
    <2>3. Cardinality(Ungated') <= hunt'.variants.total
      BY <1>1, <1>2, <2>2 DEF VariantsInv
    <2>. QED BY <2>3 DEF VariantsInv
  <1>3. ASSUME NEW hit, more = {hit}, hunt'.variants.total = hunt.variants.total + 1
        PROVE  VariantsInv'
    <2>1. Ungated' \subseteq Ungated \cup {hit}
      BY <1>3
    <2>2. /\ IsFiniteSet(Ungated \cup {hit}) /\ Cardinality(Ungated \cup {hit}) \in Nat
          /\ Cardinality(Ungated \cup {hit}) <= Cardinality(Ungated) + 1
      <3>1. /\ IsFiniteSet(Ungated \cup {hit})
            /\ \/ Cardinality(Ungated \cup {hit}) = Cardinality(Ungated)
               \/ Cardinality(Ungated \cup {hit}) = Cardinality(Ungated) + 1
        <4>1. CASE hit \in Ungated
          <5>1. Ungated \cup {hit} = Ungated
            BY <4>1
          <5>. QED BY <1>1, <5>1
        <4>2. CASE hit \notin Ungated
          BY <1>1, <4>2, FS_AddElement
        <4>. QED BY <4>1, <4>2
      <3>. QED BY <1>1, <3>1
    <2>3. Cardinality(Ungated') <= Cardinality(Ungated \cup {hit}) /\ Cardinality(Ungated') \in Nat
      BY <2>1, <2>2, FS_Subset, FS_CardinalityType
    <2>4. Cardinality(Ungated') <= hunt'.variants.total
      BY <1>1, <1>3, <2>2, <2>3 DEF VariantsInv
    <2>. QED BY <2>4 DEF VariantsInv
  <1>. QED BY <1>2, <1>3

LEMMA TurnCounts ==
  ASSUME HuntInv, ToldInv, VariantsInv, NEW hit, FirstHeader(hit), Turns(hit), HuntInv'
  PROVE  VariantsInv'
  <1>1. /\ dump' = dump /\ hit \in DOMAIN dump.headers /\ hunt.stage = "search"
        /\ hit \in Nat /\ \A p \in DOMAIN dump.headers : p \in Nat
        /\ \A at \in DOMAIN dump.headers : at >= hunt.from => hit <= at
        /\ recovered \in Seq(Candidates) /\ hunt.variants.total \in Nat
        /\ hunt.from \in Nat /\ unjudged \subseteq unjudged'
        /\ LogOf(hunt.variants) /\ hit \in Places
    BY PlacesFinite DEF Turns, FirstHeader, HuntInv, RecoveredInv, ScannerInv, ToldInv, LogOf,
       PassesBy, TellsOf, Recovers
  <1>2. \A p : JumpedOver(p) => JumpedOver(p)'
    <2>1. recovered' = recovered \/ \E c : recovered' = Append(recovered, c)
      BY DEF Turns, PassesBy, TellsOf, Recovers
    <2>. QED BY <1>1, <2>1, JumpsStay
  <1>3. \A p \in DOMAIN dump.headers : p > hit /\ p < hunt'.from => JumpedOver(p)'
    BY DEF Turns, Jumps
  <1>4. hunt'.stage = "search"
    BY DEF Turns
  <1>5. ASSUME NEW p \in Ungated' PROVE p \in Ungated \/ (p = hit /\ hit \in Ungated')
    <2>1. /\ p \in DOMAIN dump.headers /\ Passed(p)' /\ IsVariant(p) /\ p \notin unjudged'
          /\ ~(JumpedOver(p)')
      BY <1>1, SameVariants DEF Ungated
    <2>2. p \notin unjudged /\ ~JumpedOver(p)
      BY <1>1, <1>2, <2>1
    <2>3. CASE p = hit
      BY <1>5, <2>3
    <2>4. CASE p < hit
      <3>1. ~(p >= hunt.from)
        BY <1>1, <2>1, <2>4
      <3>2. Passed(p)
        BY <3>1 DEF Passed
      <3>. QED BY <2>1, <2>2, <3>2 DEF Ungated
    <2>5. CASE p > hit
      <3>1. ~(p >= hunt'.from)
        BY <1>4, <2>1 DEF Passed
      <3>2. hunt'.from \in Nat
        BY DEF HuntInv, ScannerInv
      <3>. QED BY <1>1, <1>3, <2>1, <2>5, <3>1, <3>2
    <2>. QED BY <1>1, <2>1, <2>3, <2>4, <2>5
  <1>6. CASE PassesBy(hit) /\ IsVariant(hit)
    <2>1. hunt'.variants.total = hunt.variants.total + 1
      BY <1>1, <1>6, PushType DEF PassesBy, IsVariant
    <2>2. Ungated' \subseteq Ungated \cup {hit}
      BY <1>5
    <2>. QED BY <1>1, <2>1, <2>2, StillCounted
  <1>7. CASE ~(PassesBy(hit) /\ IsVariant(hit))
    <2>1. hunt'.variants.total = hunt.variants.total
      BY <1>7 DEF Turns, PassesBy, TellsOf, Recovers, IsVariant
    <2>2. hit \notin Ungated'
      <3>1. CASE TellsOf(hit)
        BY <3>1 DEF TellsOf, Ungated
      <3>2. CASE Recovers(hit)
        BY <1>1, <3>2, SameVariants DEF Recovers, IsEntry, NoEntry, Ungated, IsVariant
      <3>3. CASE PassesBy(hit)
        BY <1>1, <1>7, <3>3, SameVariants DEF Ungated
      <3>. QED BY <3>1, <3>2, <3>3 DEF Turns
    <2>3. Ungated' \subseteq Ungated \cup {}
      BY <1>5, <2>2
    <2>. QED BY <1>1, <2>1, <2>3, StillCounted
  <1>. QED BY <1>6, <1>7

LEMMA RestCounts ==
  ASSUME HuntInv, ToldInv, VariantsInv, EndsSearch \/ Reconciles \/ Concludes
  PROVE  VariantsInv'
  <1>1. /\ dump' = dump /\ unjudged' = unjudged /\ hunt'.variants = hunt.variants
        /\ hunt.variants.total \in Nat /\ recovered \in Seq(Candidates)
    BY DEF EndsSearch, Reconciles, Concludes, HuntInv, ScannerInv, RecoveredInv, HuntFields, ToldInv,
       LogOf
  <1>2. \A p : JumpedOver(p) => JumpedOver(p)'
    <2>1. CASE EndsSearch \/ Reconciles
      <3>1. recovered' = recovered \/ \E c : recovered' = Append(recovered, c)
        BY <2>1 DEF EndsSearch, Reconciles
      <3>. QED BY <1>1, <3>1, JumpsStay
    <2>2. CASE Concludes
      BY <1>1, <2>2, SortedSame DEF Concludes
    <2>. QED BY <2>1, <2>2
  <1>3. ASSUME NEW p \in DOMAIN dump.headers PROVE Passed(p)
    <2>1. p \in Nat /\ hunt.from \in Nat
      BY PartsType DEF HuntInv, ScannerInv
    <2>2. CASE EndsSearch
      <3>1. p < hunt.from
        BY <2>2 DEF EndsSearch
      <3>. QED BY <2>1, <3>1 DEF Passed
    <2>3. CASE Reconciles \/ Concludes
      BY <2>3 DEF Passed, Reconciles, Concludes
    <2>. QED BY <2>2, <2>3
  <1>4. Ungated' \subseteq Ungated \cup {}
    BY <1>1, <1>2, <1>3, SameVariants DEF Ungated
  <1>. QED BY <1>1, <1>4, StillCounted

LEMMA CountingStarts ==
  ASSUME dump \in Dumps, HuntStart
  PROVE  VariantsInv
  <1>1. /\ hunt.stage = "search" /\ hunt.from = 0 /\ hunt.variants.total = 0
    BY DEF HuntStart, NoSightings
  <1>2. ASSUME NEW p \in DOMAIN dump.headers PROVE ~Passed(p)
    <2>1. p \in Nat
      BY PartsType DEF Known
    <2>. QED BY <1>1, <2>1 DEF Passed
  <1>3. Ungated = {}
    BY <1>2 DEF Ungated
  <1>. QED BY <1>1, <1>3, FS_EmptySet DEF VariantsInv

(* All of them are passed once the scan is done.                            *)
LEMMA AllCounted ==
  ASSUME HuntInv, VariantsInv
  PROVE  VariantsCounted
  <1>1. ASSUME hunt.stage = "done"
        PROVE  Ungated = {p \in DOMAIN dump.headers :
                            /\ Sound(p) /\ dump.headers[p].is = "variant"
                            /\ p \notin unjudged /\ ~JumpedOver(p)}
    BY <1>1 DEF Ungated, Passed, IsVariant
  <1>. QED BY <1>1 DEF VariantsInv, VariantsCounted

-------------------------------------------------------------------------------
(* What judging a header costs.                                             *)
FullBill(at) == Bill(at, Pieces(at))

(* Bills rise with what is read, and pay for no more than is passed.        *)
LEMMA PieceTyped ==
  ASSUME Known, NEW at \in DOMAIN dump.headers
  PROVE  /\ at \in Nat /\ Fixed \in Nat /\ End \in Nat /\ Len(Parts(at)) \in Nat
         /\ \A k \in 0 .. Len(Parts(at)) :
               Bill(at, k) \in Nat /\ PieceAfter(at, k) - at - Fixed \in Nat
               /\ PieceAfter(at, k) \in Nat
         /\ \A k \in 1 .. Len(Parts(at)) :
               /\ Bill(at, k) >= Bill(at, k - 1)
               /\ Bill(at, k) - Bill(at, k - 1) <= PieceAfter(at, k) - PieceAfter(at, k - 1)
         /\ Bill(at, 0) = 0 /\ PieceAfter(at, 0) = at + Fixed
  <1>1. /\ at \in Nat /\ Len(Parts(at)) \in Nat /\ Fixed \in Nat /\ End \in Nat
        /\ \A k \in 0 .. Len(Parts(at)) : Bill(at, k) \in Nat /\ PieceAfter(at, k) \in Nat
    BY PartsType, HuntLimits
  <1>2. Parts(at) \in Seq([bill : Nat, len : Nat]) /\ PiecesType(Parts(at))
    BY DumpsType DEF Known, PiecesType, Parts
  <1>3. \A k \in 1 .. Len(Parts(at)) : Parts(at)[k].bill \in Nat /\ Parts(at)[k].len \in Nat
    <2>1. ASSUME NEW T, NEW s \in Seq(T), NEW n \in 1 .. Len(s) PROVE s[n] \in T
      OBVIOUS
    <2>2. \A k \in 1 .. Len(Parts(at)) : Parts(at)[k] \in [bill : Nat, len : Nat]
      BY <1>2, <2>1
    <2>. QED BY <2>2
  <1>4. Bill(at, 0) = 0 /\ PieceAfter(at, 0) = at + Fixed
    BY <1>1 DEF Bill, PieceAfter
  <1>5. \A k \in 1 .. Len(Parts(at)) :
           Bill(at, k) = Parts(at)[k].bill /\ PieceAfter(at, k) = at + Fixed + Parts(at)[k].len
    BY <1>1 DEF Bill, PieceAfter
  <1>6. ASSUME NEW k \in 0 .. Len(Parts(at)) PROVE PieceAfter(at, k) - at - Fixed \in Nat
    <2>1. CASE k = 0
      BY <1>1, <1>4, <2>1
    <2>2. CASE k # 0
      <3>1. k \in 1 .. Len(Parts(at))
        BY <1>1, <2>2
      <3>2. PieceAfter(at, k) = at + Fixed + Parts(at)[k].len /\ Parts(at)[k].len \in Nat
        BY <1>3, <1>5, <3>1
      <3>. QED BY <1>1, <3>2
    <2>. QED BY <2>1, <2>2
  <1>7. ASSUME NEW k \in 1 .. Len(Parts(at))
        PROVE  /\ Bill(at, k) >= Bill(at, k - 1)
               /\ Bill(at, k) - Bill(at, k - 1) <= PieceAfter(at, k) - PieceAfter(at, k - 1)
    <2>1. DOMAIN Parts(at) = 1 .. Len(Parts(at))
      BY <1>2
    <2>2. LET before == IF k = 1 THEN [bill |-> 0, len |-> 0] ELSE Parts(at)[k - 1]
          IN  Parts(at)[k].bill - before.bill \in 0 .. Parts(at)[k].len - before.len
      BY <1>2, <2>1 DEF PiecesType
    <2>3. Parts(at)[k].bill \in Nat /\ Parts(at)[k].len \in Nat
          /\ Bill(at, k) = Parts(at)[k].bill /\ PieceAfter(at, k) = at + Fixed + Parts(at)[k].len
      BY <1>3, <1>5
    <2>6. ASSUME NEW a \in Nat, NEW b \in Nat, NEW c \in Nat, NEW d \in Nat, a - b \in 0 .. c - d
          PROVE  a >= b /\ a - b <= (at + Fixed + c) - (at + Fixed + d)
                 /\ (d = 0 => a - b <= (at + Fixed + c) - (at + Fixed))
      BY <1>1, <2>6
    <2>4. CASE k = 1
      <3>1. Parts(at)[k].bill - 0 \in 0 .. Parts(at)[k].len - 0
        BY <2>2, <2>4
      <3>2. k - 1 = 0
        BY <2>4
      <3>3. Bill(at, k - 1) = 0 /\ PieceAfter(at, k - 1) = at + Fixed
        BY <1>4, <3>2
      <3>. QED BY <1>1, <2>3, <2>6, <3>1, <3>3
    <2>5. CASE k # 1
      <3>1. k - 1 \in 1 .. Len(Parts(at))
        BY <1>1, <2>5
      <3>2. Parts(at)[k].bill - Parts(at)[k - 1].bill \in 0 .. Parts(at)[k].len - Parts(at)[k - 1].len
        BY <2>2, <2>5
      <3>3. Parts(at)[k - 1].bill \in Nat /\ Parts(at)[k - 1].len \in Nat
            /\ Bill(at, k - 1) = Parts(at)[k - 1].bill
            /\ PieceAfter(at, k - 1) = at + Fixed + Parts(at)[k - 1].len
        BY <1>3, <1>5, <3>1
      <3>. QED BY <1>1, <2>3, <2>6, <3>2, <3>3
    <2>. QED BY <2>4, <2>5
  <1>. QED BY <1>1, <1>4, <1>6, <1>7

LEMMA BillsRise ==
  ASSUME Known, NEW at \in DOMAIN dump.headers,
         NEW k \in 0 .. Len(Parts(at)), NEW j \in 0 .. k
  PROVE  /\ Bill(at, j) <= Bill(at, k) /\ PieceAfter(at, j) <= PieceAfter(at, k)
         /\ at + Fixed + Bill(at, k) <= PieceAfter(at, k)
  <1>. DEFINE Rising(i) == /\ \A l \in 0 .. i : Bill(at, l) <= Bill(at, i) /\ PieceAfter(at, l) <= PieceAfter(at, i)
                         /\ at + Fixed + Bill(at, i) <= PieceAfter(at, i)
              S == {i \in 0 .. Len(Parts(at)) : ~Rising(i)}
  <1>1. /\ at \in Nat /\ Fixed \in Nat /\ Len(Parts(at)) \in Nat
        /\ \A i \in 0 .. Len(Parts(at)) : Bill(at, i) \in Nat /\ PieceAfter(at, i) \in Nat
        /\ \A i \in 1 .. Len(Parts(at)) :
               /\ Bill(at, i) >= Bill(at, i - 1)
               /\ Bill(at, i) - Bill(at, i - 1) <= PieceAfter(at, i) - PieceAfter(at, i - 1)
        /\ Bill(at, 0) = 0 /\ PieceAfter(at, 0) = at + Fixed
    BY PieceTyped
  <1>2. S = {}
    <2>1. SUFFICES ASSUME S # {} PROVE FALSE
      OBVIOUS
    <2>2. PICK i \in S : \A m \in S : i <= m
      <3>1. S \subseteq Nat
        OBVIOUS
      <3>. HIDE DEF S
      <3>. QED BY <2>1, <3>1, LeastOf
    <2>3. i \in 0 .. Len(Parts(at)) /\ ~Rising(i)
      BY <2>2
    <2>4. CASE i = 0
      <3>1. \A l \in 0 .. i : l = 0
        BY <2>4
      <3>2. Rising(0)
        BY <1>1, <2>4, <3>1
      <3>. QED BY <2>3, <2>4, <3>2
    <2>5. CASE i # 0
      <3>1. i \in 1 .. Len(Parts(at)) /\ i - 1 \in 0 .. Len(Parts(at)) /\ ~(i <= i - 1)
        BY <1>1, <2>3, <2>5
      <3>2. Rising(i - 1)
        BY <2>2, <3>1
      <3>3. /\ Bill(at, i) \in Nat /\ Bill(at, i - 1) \in Nat
            /\ PieceAfter(at, i) \in Nat /\ PieceAfter(at, i - 1) \in Nat
            /\ Bill(at, i) >= Bill(at, i - 1)
            /\ Bill(at, i) - Bill(at, i - 1) <= PieceAfter(at, i) - PieceAfter(at, i - 1)
        BY <1>1, <3>1
      <3>4. ASSUME NEW l \in 0 .. i
            PROVE  Bill(at, l) <= Bill(at, i) /\ PieceAfter(at, l) <= PieceAfter(at, i)
        <4>1. CASE l = i
          BY <3>3, <4>1
        <4>2. CASE l # i
          <5>1. l \in 0 .. i - 1 /\ l \in 0 .. Len(Parts(at))
            BY <1>1, <3>1, <4>2
          <5>2. Bill(at, l) <= Bill(at, i - 1) /\ PieceAfter(at, l) <= PieceAfter(at, i - 1)
            BY <3>2, <5>1
          <5>3. Bill(at, l) \in Nat /\ PieceAfter(at, l) \in Nat
            BY <1>1, <5>1
          <5>. QED BY <3>3, <5>2, <5>3
        <4>. QED BY <4>1, <4>2
      <3>5. at + Fixed + Bill(at, i) <= PieceAfter(at, i)
        <4>1. at + Fixed + Bill(at, i - 1) <= PieceAfter(at, i - 1)
          BY <3>2
        <4>2. PICK b \in Nat, c \in Nat, u \in Nat, v \in Nat :
                b = Bill(at, i) /\ c = Bill(at, i - 1) /\ u = PieceAfter(at, i) /\ v = PieceAfter(at, i - 1)
          BY <3>3
        <4>3. at \in Nat /\ Fixed \in Nat
          BY <1>1
        <4>4. b - c <= u - v /\ at + Fixed + c <= v
          BY <3>3, <4>1, <4>2
        <4>5. at + Fixed + b <= u
          BY <4>3, <4>4
        <4>. QED BY <4>2, <4>5
      <3>6. Rising(i)
        BY <3>4, <3>5
      <3>. QED BY <2>3, <3>6
    <2>. QED BY <2>4, <2>5
  <1>3. Rising(k)
    BY <1>2
  <1>. QED BY <1>3

(* What judging a header costs is of the bytes behind it.                   *)
LEMMA BillWithin ==
  ASSUME Known, NEW at \in DOMAIN dump.headers
  PROVE  /\ Pieces(at) \in 0 .. Len(Parts(at)) /\ FullBill(at) \in Nat
         /\ at + Fixed + FullBill(at) <= End
         /\ at + Fixed + FullBill(at) <= VariableEnd(at)
  <1>. DEFINE read == {k \in 0 .. Len(Parts(at)) : k > 0 => ReadableTo(at, k) <= End}
  <1>1. /\ at \in Nat /\ Fixed \in Nat /\ End \in Nat /\ Len(Parts(at)) \in Nat
        /\ at + Fixed <= End
        /\ \A k \in 0 .. Len(Parts(at)) : Bill(at, k) \in Nat /\ PieceAfter(at, k) \in Nat
        /\ Bill(at, 0) = 0
    BY PieceTyped, PartsType
  <1>2. Max(read) \in read
    <2>1. 0 \in read /\ read \subseteq 0 .. Len(Parts(at)) /\ read # {}
      BY <1>1
    <2>. HIDE DEF read
    <2>. QED BY <1>1, <2>1, GreatestOf
  <1>3. Max(read) \in 0 .. Len(Parts(at)) /\ (Max(read) > 0 => ReadableTo(at, Max(read)) <= End)
    BY <1>2
  <1>4. Pieces(at) = IF Intact(at) THEN Len(Parts(at)) ELSE IF InChain THEN Max(read) ELSE 0
    BY DEF Pieces
  <1>. HIDE DEF read
  <1>5. Pieces(at) \in 0 .. Len(Parts(at))
    BY <1>1, <1>3, <1>4
  <1>6. PICK n \in 0 .. Len(Parts(at)) : n = Pieces(at)
    BY <1>5
  <1>7. at + Fixed + Bill(at, n) <= VariableEnd(at)
    <2>1. Len(Parts(at)) \in 0 .. Len(Parts(at)) /\ n \in 0 .. Len(Parts(at)) /\ n \in 0 .. n
      BY <1>1
    <2>2. PieceAfter(at, n) <= PieceAfter(at, Len(Parts(at)))
      BY <2>1, BillsRise
    <2>3. at + Fixed + Bill(at, n) <= PieceAfter(at, n)
      BY <2>1, BillsRise
    <2>4. /\ Bill(at, n) \in Nat /\ PieceAfter(at, n) \in Nat
          /\ PieceAfter(at, Len(Parts(at))) \in Nat
      BY <1>1, <2>1
    <2>. QED BY <1>1, <2>2, <2>3, <2>4 DEF VariableEnd
  <1>8. at + Fixed + Bill(at, n) <= End
    <2>1. CASE Intact(at)
      <3>1. VariableEnd(at) <= End /\ VariableEnd(at) \in Nat
        BY <2>1, PartsType DEF Intact
      <3>. QED BY <1>1, <1>7, <3>1
    <2>2. CASE n = 0
      BY <1>1, <2>2
    <2>3. CASE ~Intact(at) /\ n # 0
      <3>1. n > 0 /\ ReadableTo(at, n) <= End
        BY <1>1, <1>3, <1>4, <1>6, <2>3
      <3>2. n - 1 \in 0 .. Len(Parts(at)) /\ n - 1 \in 0 .. n - 1
        BY <1>1, <3>1
      <3>3. at + Fixed + Bill(at, n - 1) <= PieceAfter(at, n - 1)
        BY <3>2, BillsRise
      <3>4. PieceAfter(at, n - 1) + Bill(at, n) - Bill(at, n - 1) <= End
        BY <3>1 DEF ReadableTo
      <3>5. Bill(at, n) \in Nat /\ Bill(at, n - 1) \in Nat /\ PieceAfter(at, n - 1) \in Nat
        BY <1>1, <3>2
      <3>. QED BY <1>1, <3>3, <3>4, <3>5
    <2>. QED BY <2>1, <2>2, <2>3
  <1>. QED BY <1>1, <1>5, <1>6, <1>7, <1>8 DEF FullBill

LEMMA PaidIs ==
  ASSUME Known, NEW at \in DOMAIN dump.headers, NEW spent \in 0 .. dump.allowance
  PROVE  /\ Paid(at, spent) \in 0 .. dump.allowance /\ Paid(at, spent) <= spent + FullBill(at)
         /\ Judged(at, spent) => Paid(at, spent) = spent + FullBill(at)
         /\ spent + FullBill(at) <= dump.allowance => Judged(at, spent)
  <1>. DEFINE paid == {k \in 0 .. Pieces(at) : spent + Bill(at, k) <= dump.allowance}
  <1>1. /\ Len(Parts(at)) \in Nat
        /\ \A k \in 0 .. Len(Parts(at)) : Bill(at, k) \in Nat
        /\ dump.allowance \in Nat /\ Bill(at, 0) = 0 /\ spent \in Nat
        /\ Pieces(at) \in 0 .. Len(Parts(at))
    BY PieceTyped, AllowanceType, BillWithin
  <1>2. PICK n \in Nat : n = Pieces(at) /\ n \in 0 .. Len(Parts(at))
    BY <1>1
  <1>3. 0 \in paid /\ paid \subseteq 0 .. n /\ paid # {}
    BY <1>1, <1>2
  <1>4. Max(paid) \in paid /\ \A k \in paid : k <= Max(paid)
    <2>. HIDE DEF paid
    <2>. QED BY <1>3, GreatestOf
  <1>5. PICK m \in 0 .. n : m = Afforded(at, spent) /\ spent + Bill(at, m) <= dump.allowance
    BY <1>2, <1>4 DEF Afforded
  <1>6. Paid(at, spent) = spent + Bill(at, m) /\ m \in 0 .. Len(Parts(at))
    BY <1>1, <1>2, <1>5 DEF Paid
  <1>7. Bill(at, m) <= Bill(at, n) /\ Bill(at, m) \in Nat /\ Bill(at, n) \in Nat
    BY <1>1, <1>2, <1>5, <1>6, BillsRise
  <1>8. Judged(at, spent) => m = n
    BY <1>2, <1>5 DEF Judged
  <1>9. ASSUME spent + FullBill(at) <= dump.allowance PROVE Judged(at, spent)
    <2>1. n \in paid
      BY <1>2, <1>9 DEF FullBill
    <2>2. n <= m
      BY <1>4, <1>5, <2>1 DEF Afforded
    <2>3. m = n
      BY <1>2, <1>5, <2>2
    <2>. QED BY <1>2, <1>5, <2>3 DEF Judged
  <1>10. FullBill(at) = Bill(at, n)
    BY <1>2 DEF FullBill
  <1>11. Paid(at, spent) \in 0 .. dump.allowance
    BY PaidWithin
  <1>. QED BY <1>1, <1>6, <1>7, <1>8, <1>9, <1>10, <1>11

-------------------------------------------------------------------------------
(* What a turn of the search may cost: the judging of the header, the look   *)
(* at what its payload lands on, and a symlink's target.                    *)
TargetBill(at) ==
    IF dump.format = "cpio" /\ dump.headers[at].is = "symlink" /\ Whole(at, Span(at))
    THEN Span(at) ELSE 0
LookBill(at) ==
    IF dump.format = "cpio" /\ Whole(at, Span(at)) /\ HeaderThere(Landing(at))
    THEN FullBill(Landing(at)) ELSE 0

LEMMA BillsType ==
  ASSUME Known, NEW at \in DOMAIN dump.headers
  PROVE  FullBill(at) \in Nat /\ TargetBill(at) \in Nat /\ LookBill(at) \in Nat
  <1>1. \A h \in DOMAIN dump.headers : FullBill(h) \in Nat
    BY BillWithin
  <1>2. dump.format = "cpio" => Span(at) \in Nat
    BY PartsType
  <1>. QED BY <1>1, <1>2 DEF TargetBill, LookBill, HeaderThere

LEMMA LookIs ==
  ASSUME Known, NEW next, NEW spent \in 0 .. dump.allowance
  PROVE  /\ PaidToLook(next, spent) \in 0 .. dump.allowance
         /\ PaidToLook(next, spent) <= spent + (IF HeaderThere(next) THEN FullBill(next) ELSE 0)
  <1>1. dump.allowance \in Nat
    BY AllowanceType
  <1>2. CASE HeaderThere(next)
    <2>1. next \in DOMAIN dump.headers
      BY <1>2 DEF HeaderThere
    <2>. QED BY <1>2, <2>1, PaidIs DEF PaidToLook
  <1>3. CASE ~HeaderThere(next)
    BY <1>1, <1>3 DEF PaidToLook
  <1>. QED BY <1>2, <1>3

GoesOn(hit) ==
    \/ hunt'.from = hit + 1
    \/ hunt'.from = EngineGoesTo(hit) /\ dump.format # "cpio"
    \/ hunt'.from = Landing(hit) /\ dump.format = "cpio" /\ Whole(hit, Span(hit))

LEMMA TurnCosts ==
  ASSUME HuntInv, NEW hit, FirstHeader(hit),
         RefusesHeader(hit) \/ LeavesUnjudged(hit) \/ FindsEntry(hit) \/ FindsCpioEntry(hit)
  PROVE  /\ hunt'.spent <= hunt.spent + FullBill(hit) + TargetBill(hit) + LookBill(hit)
         /\ hunt.spent + FullBill(hit) + TargetBill(hit) + LookBill(hit) <= dump.allowance
              => unjudged' = unjudged
         /\ GoesOn(hit)
  <1>1. /\ hit \in DOMAIN dump.headers /\ DOMAIN hunt = HuntFields
        /\ hunt.spent \in 0 .. dump.allowance /\ dump.allowance \in Nat /\ Known
        /\ FullBill(hit) \in Nat /\ TargetBill(hit) \in Nat /\ LookBill(hit) \in Nat
    BY BillsType, AllowanceType DEF FirstHeader, HuntInv, ScannerInv
  <1>2. PICK spent0 \in Nat : spent0 = hunt.spent
    BY <1>1
  <1>3. PICK paid0 \in 0 .. dump.allowance :
          /\ paid0 = Paid(hit, hunt.spent) /\ paid0 <= spent0 + FullBill(hit)
          /\ spent0 + FullBill(hit) <= dump.allowance => Judged(hit, hunt.spent)
    BY <1>1, <1>2, PaidIs
  <1>4. CASE RefusesHeader(hit)
    <2>1. hunt'.spent = paid0 /\ unjudged' = unjudged /\ hunt'.from = hit + 1
      BY <1>1, <1>3, <1>4 DEF RefusesHeader, PassesOver, HuntFields
    <2>. QED BY <1>1, <1>2, <1>3, <2>1 DEF GoesOn
  <1>5. CASE LeavesUnjudged(hit)
    <2>1. hunt'.spent = paid0 /\ ~Judged(hit, hunt.spent) /\ hunt'.from = hit + 1
      BY <1>1, <1>3, <1>5 DEF LeavesUnjudged, NotJudged, PassesOver, Told, HuntFields
    <2>. QED BY <1>1, <1>2, <1>3, <2>1 DEF GoesOn
  <1>6. CASE FindsEntry(hit)
    <2>1. hunt'.spent = paid0 /\ unjudged' = unjudged /\ hunt'.from = EngineGoesTo(hit)
          /\ dump.format # "cpio"
      BY <1>1, <1>3, <1>6 DEF FindsEntry, HuntFields
    <2>. QED BY <1>1, <1>2, <1>3, <2>1 DEF GoesOn
  <1>7. CASE FindsCpioEntry(hit)
    <2>. DEFINE looks == Whole(hit, Span(hit))
                next == Landing(hit)
                paid == Paid(hit, hunt.spent)
                backed == looks /\ Backs(next, paid)
                asked == looks /\ MayBePadding(next)
                spent == IF looks THEN PaidToLook(next, paid) ELSE paid
                target == IF dump.headers[hit].is = "symlink" /\ looks THEN Span(hit) ELSE 0
                h == [hunt EXCEPT !.spent = spent, !.memo = IF asked THEN MemoAfter(next) ELSE @]
    <2>1. /\ dump.format = "cpio"
          /\ \/ spent + target > dump.allowance /\ NotJudged(hit, h)
             \/ /\ hunt' = [h EXCEPT !.spent = @ + target, !.from = IF backed THEN next ELSE hit + 1]
                /\ unjudged' = unjudged
      BY <1>7 DEF FindsCpioEntry
    <2>2. target = TargetBill(hit)
      BY <2>1 DEF TargetBill
    <2>3. spent \in 0 .. dump.allowance /\ spent <= spent0 + FullBill(hit) + LookBill(hit)
      <3>1. CASE looks
        <4>1. /\ PaidToLook(next, paid0) \in 0 .. dump.allowance
              /\ PaidToLook(next, paid0) <= paid0 + (IF HeaderThere(next) THEN FullBill(next) ELSE 0)
          BY <1>1, LookIs
        <4>2. LookBill(hit) = (IF HeaderThere(next) THEN FullBill(next) ELSE 0)
          BY <2>1, <3>1 DEF LookBill
        <4>3. spent = PaidToLook(next, paid0)
          BY <1>3, <3>1
        <4>. HIDE DEF spent, looks, next, paid
        <4>. QED BY <1>1, <1>3, <4>1, <4>2, <4>3
      <3>2. CASE ~looks
        <4>1. spent = paid0
          BY <1>3, <3>2
        <4>. HIDE DEF spent, looks, next, paid
        <4>. QED BY <1>1, <1>3, <4>1
      <3>. QED BY <3>1, <3>2
    <2>. HIDE DEF spent, target, paid
    <2>4. DOMAIN h = HuntFields /\ h.spent = spent
      BY <1>1 DEF HuntFields
    <2>. HIDE DEF h
    <2>5. CASE spent + target > dump.allowance /\ NotJudged(hit, h)
      <3>1. hunt'.spent = spent /\ hunt'.from = hit + 1
        BY <2>4, <2>5 DEF NotJudged, PassesOver, Told, HuntFields
      <3>2. ~(spent0 + FullBill(hit) + TargetBill(hit) + LookBill(hit) <= dump.allowance)
        BY <1>1, <2>2, <2>3, <2>5
      <3>. QED BY <1>1, <1>2, <2>3, <3>1, <3>2 DEF GoesOn
    <2>6. CASE /\ hunt' = [h EXCEPT !.spent = @ + target, !.from = IF backed THEN next ELSE hit + 1]
               /\ unjudged' = unjudged
      <3>1. hunt'.spent = spent + target /\ hunt'.from = (IF backed THEN next ELSE hit + 1)
        BY <2>4, <2>6 DEF HuntFields
      <3>2. GoesOn(hit)
        BY <2>1, <3>1 DEF GoesOn
      <3>3. hunt'.spent <= spent0 + FullBill(hit) + TargetBill(hit) + LookBill(hit)
        BY <1>1, <2>2, <2>3, <3>1
      <3>. QED BY <1>2, <2>6, <3>2, <3>3
    <2>. QED BY <2>1, <2>5, <2>6
  <1>. QED BY <1>4, <1>5, <1>6, <1>7

(* In a healthy archive the next header is behind all that one spans.       *)
LEMMA HeadersApart ==
  ASSUME Known, NEW a \in DOMAIN dump.headers
  PROVE  /\ a + Fixed + FullBill(a) + TargetBill(a) <= End
         /\ Healthy => \A b \in DOMAIN dump.headers :
              b > a => /\ b >= a + Fixed + FullBill(a) + TargetBill(a)
                       /\ dump.format = "cpio" => b >= Landing(a)
                       /\ dump.format # "cpio" => b >= EngineGoesTo(a)
  <1>1. /\ a \in Nat /\ Fixed \in Nat /\ End \in Nat /\ FullBill(a) \in Nat /\ TargetBill(a) \in Nat
        /\ Body(a) \in Nat /\ VariableEnd(a) \in Nat /\ VariableEnd(a) >= a
        /\ a + Fixed + FullBill(a) <= End /\ a + Fixed + FullBill(a) <= VariableEnd(a)
        /\ Span(a) \in Nat \cup {Absent} /\ (dump.format = "cpio" => Span(a) \in Nat)
        /\ Absent = -1
    BY PartsType, LandingType, BillWithin, BillsType, HuntLimits DEF Absent
  <1>2. Body(a) >= VariableEnd(a)
    <2>1. PICK n \in Nat : n = VariableEnd(a) - a
      BY <1>1
    <2>2. Aligned(n) \in Nat /\ Aligned(n) >= n
      BY AlignedUp
    <2>3. a + Aligned(VariableEnd(a) - a) >= VariableEnd(a)
      BY <1>1, <2>1, <2>2
    <2>4. VariableEnd(a) + 1 >= VariableEnd(a)
      BY <1>1
    <2>. QED BY <1>1, <2>3, <2>4 DEF Body, FileMark
  <1>3. a + Fixed + FullBill(a) + TargetBill(a) <= End
    <2>1. CASE TargetBill(a) = 0
      BY <1>1, <2>1
    <2>2. CASE TargetBill(a) # 0
      <3>1. TargetBill(a) = Span(a) /\ dump.format = "cpio" /\ Whole(a, Span(a))
        BY <2>2 DEF TargetBill
      <3>2. Body(a) + Span(a) <= End
        BY <1>1, <3>1 DEF Whole
      <3>. QED BY <1>1, <1>2, <3>1, <3>2
    <2>. QED BY <2>1, <2>2
  <1>4. ASSUME Healthy, NEW b \in DOMAIN dump.headers, b > a
        PROVE  /\ b >= a + Fixed + FullBill(a) + TargetBill(a)
               /\ dump.format = "cpio" => b >= Landing(a)
               /\ dump.format # "cpio" => b >= EngineGoesTo(a)
    <2>. DEFINE spans(h) == IF dump.format = "cpio" THEN Aligned(Span(h))
                            ELSE IF Span(h) = Absent THEN 0 ELSE Span(h)
    <2>1. \A h \in DOMAIN dump.headers :
            /\ spans(h) \in Nat /\ (dump.format = "cpio" => Span(h) \in Nat /\ Aligned(Span(h)) >= Span(h))
            /\ h \in Nat /\ Body(h) \in Nat
      <3>1. ASSUME NEW h \in DOMAIN dump.headers
            PROVE  /\ spans(h) \in Nat
                   /\ (dump.format = "cpio" => Span(h) \in Nat /\ Aligned(Span(h)) >= Span(h))
                   /\ h \in Nat /\ Body(h) \in Nat
        <4>1. /\ h \in Nat /\ Body(h) \in Nat /\ Span(h) \in Nat \cup {Absent}
              /\ (dump.format = "cpio" => Span(h) \in Nat)
          BY PartsType, LandingType
        <4>2. Span(h) \in Nat => Aligned(Span(h)) \in Nat /\ Aligned(Span(h)) >= Span(h)
          BY AlignedUp
        <4>. QED BY <4>1, <4>2
      <3>. QED BY <3>1
    <2>2. \A h \in DOMAIN dump.headers : Extent(h) = h .. Body(h) + spans(h) - 1
      BY DEF Extent
    <2>. HIDE DEF spans
    <2>3. b \in Extent(b)
      <3>1. /\ VariableEnd(b) \in Nat /\ b + Fixed + FullBill(b) <= VariableEnd(b)
            /\ FullBill(b) \in Nat /\ Fixed \in Nat \ {0} /\ b \in Nat
        BY BillWithin, PartsType, HuntLimits
      <3>2. Body(b) >= b + 1
        <4>1. PICK n \in Nat : n = VariableEnd(b) - b
          BY <3>1
        <4>2. Aligned(n) \in Nat /\ Aligned(n) >= n
          BY AlignedUp
        <4>3. b + Aligned(VariableEnd(b) - b) >= b + 1
          BY <3>1, <4>1, <4>2
        <4>4. VariableEnd(b) + 1 >= b + 1 /\ VariableEnd(b) >= b + 1
          BY <3>1
        <4>. QED BY <4>3, <4>4 DEF Body, FileMark
      <3>3. Body(b) \in Nat /\ spans(b) \in Nat
        BY <2>1
      <3>. QED BY <2>2, <3>1, <3>2, <3>3
    <2>4. b \notin Extent(a)
      <3>1. a # b
        BY <1>1, <1>4, <2>1
      <3>. QED BY <1>4, <2>3, <3>1 DEF Healthy
    <2>5. b >= Body(a) + spans(a)
      <3>1. b \in Nat /\ Body(a) \in Nat /\ spans(a) \in Nat
        BY <2>1
      <3>2. Extent(a) = a .. Body(a) + spans(a) - 1
        BY <2>2
      <3>. QED BY <1>1, <1>4, <2>4, <3>1, <3>2
    <2>6. spans(a) >= TargetBill(a)
      BY <1>1, <2>1 DEF TargetBill, spans
    <2>7. b >= a + Fixed + FullBill(a) + TargetBill(a)
      BY <1>1, <1>2, <2>1, <2>5, <2>6
    <2>8. dump.format = "cpio" => b >= Landing(a)
      BY <2>5 DEF Landing, spans
    <2>9. dump.format # "cpio" => b >= EngineGoesTo(a)
      <3>1. ASSUME dump.format # "cpio", Span(a) \in Nat PROVE b >= a + Span(a)
        <4>1. spans(a) = Span(a)
          BY <1>1, <3>1 DEF spans
        <4>. QED BY <1>1, <1>2, <2>1, <2>5, <3>1, <4>1
      <3>2. b >= a + 1
        BY <1>1, <1>4, <2>1
      <3>3. Span(a) > 0 => Span(a) \in Nat
        BY <1>1
      <3>. QED BY <3>1, <3>2, <3>3 DEF EngineGoesTo
    <2>. QED BY <2>7, <2>8, <2>9
  <1>. QED BY <1>3, <1>4

-------------------------------------------------------------------------------
Behind(t) == {h \in DOMAIN dump.headers : h < t}
Beyond(t) == {h \in DOMAIN dump.headers : h > t}
NextIn(t, S) == t \in S /\ \A h \in S : t <= h

LEMMA Product ==
  ASSUME NEW m \in Nat
  PROVE  Fixed * m \in Nat /\ Fixed * (m + 1) = Fixed * m + Fixed /\ Fixed * 1 = Fixed
         /\ Fixed * 0 = 0
  <1>1. Fixed \in Nat
    BY HuntLimits
  <1>. QED BY <1>1

LEMMA ProductSum ==
  ASSUME NEW m \in Nat, NEW n \in Nat
  PROVE  Fixed * (m + n) = Fixed * m + Fixed * n
  <1>1. Fixed \in Nat
    BY HuntLimits
  <1>. QED BY <1>1

LEMMA HeadersSplit ==
  ASSUME Known, NEW t \in DOMAIN dump.headers
  PROVE  /\ Cardinality(Behind(t)) \in Nat /\ Cardinality(Beyond(t)) \in Nat
         /\ Cardinality(DOMAIN dump.headers) = Cardinality(Behind(t)) + 1 + Cardinality(Beyond(t))
  <1>1. /\ IsFiniteSet(Behind(t)) /\ Cardinality(Behind(t)) \in Nat
        /\ IsFiniteSet(Beyond(t)) /\ Cardinality(Beyond(t)) \in Nat
        /\ \A h \in DOMAIN dump.headers : h \in Nat
    <2>1. Behind(t) \subseteq DOMAIN dump.headers /\ Beyond(t) \subseteq DOMAIN dump.headers
      BY DEF Behind, Beyond
    <2>. QED BY <2>1, PlacesFinite
  <1>2. t \notin Behind(t) /\ Behind(t) \cup {t} \cup Beyond(t) = DOMAIN dump.headers
        /\ (Behind(t) \cup {t}) \cap Beyond(t) = {}
    BY <1>1 DEF Behind, Beyond
  <1>3. IsFiniteSet(Behind(t) \cup {t}) /\ Cardinality(Behind(t) \cup {t}) = Cardinality(Behind(t)) + 1
    BY <1>1, <1>2, FS_AddElement
  <1>4. Cardinality((Behind(t) \cup {t}) \cup Beyond(t))
          = Cardinality(Behind(t) \cup {t}) + Cardinality(Beyond(t))
              - Cardinality((Behind(t) \cup {t}) \cap Beyond(t))
    BY <1>1, <1>3, FS_Union
  <1>5. Cardinality((Behind(t) \cup {t}) \cap Beyond(t)) = 0
    BY <1>2, FS_EmptySet
  <1>6. PICK a \in Nat : a = Cardinality(Behind(t))
    BY <1>1
  <1>7. PICK b \in Nat : b = Cardinality(Beyond(t))
    BY <1>1
  <1>8. Cardinality((Behind(t) \cup {t}) \cup Beyond(t)) = a + 1 + b
    BY <1>3, <1>4, <1>5, <1>6, <1>7
  <1>. QED BY <1>2, <1>6, <1>7, <1>8

(* The next header's own are one more than those below this one.            *)
LEMMA NextBelow ==
  ASSUME Known, NEW t \in DOMAIN dump.headers, NEW u, NextIn(u, Beyond(t))
  PROVE  /\ Behind(u) = Behind(t) \cup {t} /\ Beyond(t) = Beyond(u) \cup {u} /\ u \in DOMAIN dump.headers
         /\ Cardinality(Behind(u)) = Cardinality(Behind(t)) + 1
         /\ Cardinality(Beyond(t)) = Cardinality(Beyond(u)) + 1
  <1>1. \A h \in DOMAIN dump.headers : h \in Nat
    BY PlacesFinite
  <1>2. u \in DOMAIN dump.headers /\ t < u /\ \A h \in DOMAIN dump.headers : h > t => u <= h
    BY DEF NextIn, Beyond
  <1>3. Behind(u) = Behind(t) \cup {t} /\ t \notin Behind(t)
    BY <1>1, <1>2 DEF Behind
  <1>4. Beyond(t) = Beyond(u) \cup {u} /\ u \notin Beyond(u)
    BY <1>1, <1>2 DEF Beyond
  <1>5. IsFiniteSet(Behind(t)) /\ IsFiniteSet(Beyond(u))
    <2>1. Behind(t) \subseteq DOMAIN dump.headers /\ Beyond(u) \subseteq DOMAIN dump.headers
      BY DEF Behind, Beyond
    <2>. QED BY <2>1, PlacesFinite
  <1>. QED BY <1>2, <1>3, <1>4, <1>5, FS_AddElement

LEMMA NextExists ==
  ASSUME Known, NEW t, Beyond(t) # {}
  PROVE  \E u : NextIn(u, Beyond(t))
  <1>1. Beyond(t) \subseteq Nat
    <2>1. Beyond(t) \subseteq DOMAIN dump.headers
      BY DEF Beyond
    <2>. QED BY <2>1, PlacesFinite
  <1>2. Min(Beyond(t)) \in Beyond(t) /\ \A k \in Beyond(t) : Min(Beyond(t)) <= k
    BY <1>1, LeastOf
  <1>. QED BY <1>2 DEF NextIn

(* There is room for the headers that follow, and for what each costs.      *)
LEMMA RoomAhead ==
  ASSUME Known, Healthy, NEW t \in DOMAIN dump.headers
  PROVE  t + FullBill(t) + Fixed * (Cardinality(Beyond(t)) + 1) <= End
  <1>. DEFINE Fitting(h) == h + FullBill(h) + Fixed * (Cardinality(Beyond(h)) + 1) <= End
              S == {h \in DOMAIN dump.headers : ~Fitting(h)}
  <1>1. /\ End \in Nat /\ Fixed \in Nat
        /\ \A h \in DOMAIN dump.headers : h \in Nat /\ FullBill(h) \in Nat /\ TargetBill(h) \in Nat
    BY PlacesFinite, BillsType, HuntLimits
  <1>2. S = {}
    <2>1. SUFFICES ASSUME S # {} PROVE FALSE
      OBVIOUS
    <2>2. PICK h \in S : \A g \in S : g <= h
      <3>1. S \subseteq 0 .. End
        <4>1. \A h \in DOMAIN dump.headers : h \in 0 .. End
          <5>1. DOMAIN dump.headers \subseteq Places
            BY PlacesFinite
          <5>. QED BY <1>1, <5>1 DEF Places
        <4>. HIDE DEF Fitting
        <4>. QED BY <4>1
      <3>. HIDE DEF S
      <3>. QED BY <1>1, <2>1, <3>1, GreatestOf
    <2>3. h \in DOMAIN dump.headers /\ ~Fitting(h)
      BY <2>2
    <2>4. h + Fixed + FullBill(h) + TargetBill(h) <= End
      BY <2>3, HeadersApart
    <2>5. CASE Beyond(h) = {}
      <3>1. Cardinality(Beyond(h)) = 0
        BY <2>5, FS_EmptySet
      <3>2. Fixed * (Cardinality(Beyond(h)) + 1) = Fixed
        BY <1>1, <3>1
      <3>3. h \in Nat /\ FullBill(h) \in Nat /\ TargetBill(h) \in Nat
        BY <1>1, <2>3
      <3>4. Fitting(h)
        BY <1>1, <2>4, <3>2, <3>3
      <3>. QED BY <2>3, <3>4
    <2>6. CASE Beyond(h) # {}
      <3>1. PICK u : NextIn(u, Beyond(h))
        BY <2>6, NextExists
      <3>2. /\ u \in DOMAIN dump.headers /\ u > h
            /\ Cardinality(Beyond(h)) = Cardinality(Beyond(u)) + 1
            /\ Cardinality(Beyond(u)) \in Nat
        BY <2>3, <3>1, NextBelow, HeadersSplit DEF NextIn, Beyond
      <3>3. u \notin S
        BY <1>1, <2>2, <2>3, <3>2
      <3>. HIDE DEF S
      <3>4. PICK c \in Nat : c = Cardinality(Beyond(u))
        BY <3>2
      <3>5. u + FullBill(u) + Fixed * (c + 1) <= End
        BY <3>2, <3>3, <3>4 DEF S
      <3>6. u >= h + Fixed + FullBill(h) + TargetBill(h)
        BY <2>3, <3>2, HeadersApart
      <3>7. PICK r \in Nat : r = Fixed * (c + 1)
        BY <3>4, Product
      <3>8. Fixed * (Cardinality(Beyond(h)) + 1) = r + Fixed
        <4>1. Cardinality(Beyond(h)) + 1 = (c + 1) + 1
          BY <3>2, <3>4
        <4>2. Fixed * ((c + 1) + 1) = Fixed * (c + 1) + Fixed
          BY <3>4, Product
        <4>. QED BY <3>7, <4>1, <4>2
      <3>9. /\ h \in Nat /\ FullBill(h) \in Nat /\ TargetBill(h) \in Nat
            /\ u \in Nat /\ FullBill(u) \in Nat
        BY <1>1, <2>3, <3>2
      <3>10. h + FullBill(h) + (r + Fixed) <= End
        BY <1>1, <3>5, <3>6, <3>7, <3>9
      <3>11. Fitting(h)
        BY <3>8, <3>10
      <3>. QED BY <2>3, <3>11
    <2>. QED BY <2>5, <2>6
  <1>3. Fitting(t)
    BY <1>2
  <1>. QED BY <1>3

(* What the headers before t may have cost, with the look at t itself.      *)
Limit(t) == 2 * (t - Fixed * Cardinality(Behind(t))) + FullBill(t)

LEMMA TurnBudget ==
  ASSUME Known, Healthy, NEW hit \in DOMAIN dump.headers, NEW spent \in Nat, spent <= Limit(hit),
         NEW cost, cost = spent + FullBill(hit) + TargetBill(hit) + LookBill(hit)
  PROVE  /\ \A u : NextIn(u, Beyond(hit)) => cost <= Limit(u)
         /\ cost <= 2 * (End - Fixed * Cardinality(DOMAIN dump.headers))
  <1>1. /\ End \in Nat /\ Fixed \in Nat /\ hit \in Nat /\ FullBill(hit) \in Nat
        /\ TargetBill(hit) \in Nat /\ LookBill(hit) \in Nat
    BY PlacesFinite, BillsType, HuntLimits
  <1>2. PICK m \in Nat : m = Cardinality(Behind(hit))
    BY HeadersSplit
  <1>3. PICK f \in Nat : f = Fixed * m
    BY Product
  <1>4. spent <= 2 * (hit - f) + FullBill(hit) /\ Fixed * (m + 1) = f + Fixed
    BY <1>2, <1>3, Product DEF Limit
  <1>5. hit + Fixed + FullBill(hit) + TargetBill(hit) <= End
    BY HeadersApart
  <1>6. LookBill(hit) # 0 =>
           HeaderThere(Landing(hit)) /\ Landing(hit) \in Beyond(hit) /\ dump.format = "cpio"
           /\ LookBill(hit) = FullBill(Landing(hit))
    <2>1. ASSUME LookBill(hit) # 0
          PROVE  /\ dump.format = "cpio" /\ Whole(hit, Span(hit)) /\ HeaderThere(Landing(hit))
                 /\ LookBill(hit) = FullBill(Landing(hit))
      BY <2>1 DEF LookBill
    <2>2. dump.format = "cpio" /\ Whole(hit, Span(hit)) => Landing(hit) > hit
      BY NextWithin
    <2>. QED BY <2>1, <2>2 DEF Beyond, HeaderThere
  <1>7. CASE Beyond(hit) = {}
    <2>1. LookBill(hit) = 0
      BY <1>6, <1>7
    <2>2. Cardinality(DOMAIN dump.headers) = m + 1
      <3>1. Cardinality(Beyond(hit)) = 0
        BY <1>7, FS_EmptySet
      <3>. QED BY <1>2, <3>1, HeadersSplit
    <2>3. cost <= 2 * (End - (f + Fixed))
      BY <1>1, <1>3, <1>4, <1>5, <2>1
    <2>4. \A u : ~NextIn(u, Beyond(hit))
      BY <1>7 DEF NextIn
    <2>. QED BY <1>4, <2>2, <2>3, <2>4
  <1>8. ASSUME NEW u, NextIn(u, Beyond(hit))
        PROVE  /\ cost <= Limit(u)
               /\ cost <= 2 * (End - Fixed * Cardinality(DOMAIN dump.headers))
    <2>1. /\ u \in DOMAIN dump.headers /\ u > hit /\ u \in Nat /\ FullBill(u) \in Nat
          /\ Cardinality(Behind(u)) = m + 1
      BY <1>2, <1>8, NextBelow, BillsType, PlacesFinite DEF NextIn, Beyond
    <2>2. u >= hit + Fixed + FullBill(hit) + TargetBill(hit)
      BY <2>1, HeadersApart
    <2>3. LookBill(hit) <= FullBill(u)
      <3>1. CASE LookBill(hit) = 0
        BY <2>1, <3>1
      <3>2. CASE LookBill(hit) # 0
        <4>1. Landing(hit) \in DOMAIN dump.headers /\ u <= Landing(hit) /\ Landing(hit) <= u
              /\ LookBill(hit) = FullBill(Landing(hit)) /\ Landing(hit) \in Nat
          <5>1. Landing(hit) \in DOMAIN dump.headers /\ u <= Landing(hit)
                /\ LookBill(hit) = FullBill(Landing(hit))
            BY <1>6, <1>8, <3>2 DEF NextIn, HeaderThere
          <5>2. u >= Landing(hit)
            BY <1>6, <2>1, <3>2, HeadersApart
          <5>3. Landing(hit) \in Nat
            BY <5>1, PlacesFinite
          <5>. QED BY <2>1, <5>1, <5>2, <5>3
        <4>2. Landing(hit) = u
          BY <2>1, <4>1
        <4>. QED BY <2>1, <4>1, <4>2
      <3>. QED BY <3>1, <3>2
    <2>4. cost <= 2 * (u - (f + Fixed)) + FullBill(u)
      BY <1>1, <1>3, <1>4, <2>1, <2>2, <2>3
    <2>5. cost <= Limit(u)
      BY <1>4, <2>1, <2>4 DEF Limit
    <2>6. PICK c \in Nat : c = Cardinality(Beyond(u)) + 1 /\ Cardinality(DOMAIN dump.headers) = (m + 1) + c
      <3>1. /\ Cardinality(Beyond(u)) \in Nat
            /\ Cardinality(DOMAIN dump.headers) = Cardinality(Behind(u)) + 1 + Cardinality(Beyond(u))
        BY <2>1, HeadersSplit
      <3>. QED BY <2>1, <3>1
    <2>7. u + FullBill(u) + Fixed * c <= End
      BY <2>1, <2>6, RoomAhead
    <2>8. PICK g \in Nat : g = Fixed * c
      BY <2>6, Product
    <2>9. Fixed * Cardinality(DOMAIN dump.headers) = (f + Fixed) + g
      BY <1>4, <2>6, <2>8, ProductSum
    <2>10. cost <= 2 * (End - ((f + Fixed) + g))
      BY <1>1, <1>3, <2>1, <2>4, <2>7, <2>8
    <2>. QED BY <2>5, <2>9, <2>10
  <1>9. CASE Beyond(hit) # {}
    <2>1. PICK u : NextIn(u, Beyond(hit))
      BY <1>9, NextExists
    <2>. QED BY <1>8, <2>1
  <1>. QED BY <1>7, <1>8, <1>9

-------------------------------------------------------------------------------
Ahead == {h \in DOMAIN dump.headers : h >= hunt.from}

(* What a healthy archive's scan has spent when it comes to a header, and at *)
(* any time.                                                                *)
CostInv ==
    Healthy =>
      /\ hunt.stage = "search" => \A t : NextIn(t, Ahead) => hunt.spent <= Limit(t)
      /\ hunt.spent <= 2 * (End - Fixed * Cardinality(DOMAIN dump.headers))
      /\ dump.allowance = 2 * End => unjudged = {}

LEMMA SameBills ==
  ASSUME UNCHANGED dump
  PROVE  Healthy' = Healthy /\ \A t : (Limit(t))' = Limit(t)
  <1>1. Healthy' = Healthy
    BY DEF Healthy, Extent, Body, VariableEnd, PieceAfter, Parts, Span, Aligned
  <1>2. ASSUME NEW t PROVE (Limit(t))' = Limit(t)
    <2>1. Behind(t)' = Behind(t)
      BY DEF Behind
    <2>2. Pieces(t)' = Pieces(t)
      BY DEF Pieces, Intact, InChain, VariableEnd, PieceAfter, Parts, ReadableTo, Bill, Max
    <2>3. FullBill(t)' = FullBill(t)
      BY <2>2 DEF FullBill, Bill, Parts
    <2>. QED BY <2>1, <2>3 DEF Limit
  <1>. QED BY <1>1, <1>2

(* The search stops at every header of a healthy archive.                   *)
LEMMA AllAhead ==
  ASSUME HuntInv, Healthy, NEW hit, FirstHeader(hit), Turns(hit), GoesOn(hit), HuntInv'
  PROVE  Ahead' = Beyond(hit)
  <1>1. /\ hit \in DOMAIN dump.headers /\ hit \in Nat /\ dump' = dump /\ hunt'.from > hit
        /\ \A h \in DOMAIN dump.headers : h \in Nat
        /\ hunt'.from \in Nat /\ Known
    BY PlacesFinite DEF FirstHeader, Turns, HuntInv, ScannerInv
  <1>2. ASSUME NEW h \in DOMAIN dump.headers, h > hit PROVE h >= hunt'.from
    <2>1. CASE hunt'.from = hit + 1
      BY <1>1, <1>2, <2>1
    <2>2. CASE hunt'.from = EngineGoesTo(hit) /\ dump.format # "cpio"
      BY <1>1, <1>2, <2>2, HeadersApart
    <2>3. CASE hunt'.from = Landing(hit) /\ dump.format = "cpio"
      BY <1>1, <1>2, <2>3, HeadersApart
    <2>. QED BY <2>1, <2>2, <2>3 DEF GoesOn
  <1>3. ASSUME NEW h \in DOMAIN dump.headers, h >= hunt'.from PROVE h > hit
    BY <1>1, <1>3
  <1>. QED BY <1>1, <1>2, <1>3 DEF Ahead, Beyond

LEMMA TurnPays ==
  ASSUME HuntInv, CostInv, NEW hit, FirstHeader(hit), Turns(hit), HuntInv',
         RefusesHeader(hit) \/ LeavesUnjudged(hit) \/ FindsEntry(hit) \/ FindsCpioEntry(hit)
  PROVE  CostInv'
  <1>1. /\ hit \in DOMAIN dump.headers /\ dump' = dump /\ hunt.stage = "search" /\ Known
        /\ NextIn(hit, Ahead) /\ hunt.spent \in Nat /\ hunt'.spent \in Nat
        /\ FullBill(hit) \in Nat /\ TargetBill(hit) \in Nat /\ LookBill(hit) \in Nat
        /\ dump.allowance \in Nat /\ End \in Nat /\ Fixed \in Nat
    <2>1. hunt.spent \in 0 .. dump.allowance /\ dump.allowance \in Nat /\ hunt'.spent \in 0 .. dump'.allowance
      BY AllowanceType DEF HuntInv, ScannerInv
    <2>. QED BY <2>1, BillsType, AllowanceType, HuntLimits
         DEF FirstHeader, Turns, HuntInv, NextIn, Ahead
  <1>2. (Healthy' = Healthy) /\ \A t : (Limit(t))' = Limit(t)
    BY <1>1, SameBills
  <1>3. SUFFICES ASSUME Healthy
                 PROVE  /\ \A t : NextIn(t, Ahead') => hunt'.spent <= Limit(t)
                        /\ hunt'.spent <= 2 * (End - Fixed * Cardinality(DOMAIN dump.headers))
                        /\ dump.allowance = 2 * End => unjudged' = {}
    BY <1>1, <1>2 DEF CostInv, NextIn
  <1>4. PICK cost \in Nat : cost = hunt.spent + FullBill(hit) + TargetBill(hit) + LookBill(hit)
    BY <1>1
  <1>5. /\ hunt'.spent <= cost /\ (cost <= dump.allowance => unjudged' = unjudged) /\ GoesOn(hit)
    BY <1>4, TurnCosts
  <1>6. hunt.spent <= Limit(hit)
    BY <1>1, <1>3 DEF CostInv
  <1>7. /\ \A u : NextIn(u, Beyond(hit)) => cost <= Limit(u)
        /\ cost <= 2 * (End - Fixed * Cardinality(DOMAIN dump.headers))
    BY <1>1, <1>3, <1>4, <1>6, TurnBudget
  <1>8. Ahead' = Beyond(hit)
    BY <1>3, <1>5, AllAhead
  <1>9. ASSUME NEW t, NextIn(t, Ahead') PROVE hunt'.spent <= Limit(t)
    <2>1. t \in DOMAIN dump.headers /\ NextIn(t, Beyond(hit))
      BY <1>8, <1>9 DEF NextIn, Beyond
    <2>2. Limit(t) \in Int
      <3>1. /\ t \in Nat /\ FullBill(t) \in Nat /\ Cardinality(Behind(t)) \in Nat
        BY <1>1, <2>1, PlacesFinite, BillsType, HeadersSplit
      <3>2. PICK f \in Nat : f = Fixed * Cardinality(Behind(t))
        BY <3>1, Product
      <3>. QED BY <3>1, <3>2 DEF Limit
    <2>3. cost <= Limit(t)
      BY <1>7, <2>1
    <2>. QED BY <1>1, <1>4, <1>5, <2>2, <2>3
  <1>10. PICK f \in Nat : f = Fixed * Cardinality(DOMAIN dump.headers)
    <2>1. Cardinality(DOMAIN dump.headers) \in Nat
      BY <1>1, PlacesFinite
    <2>. QED BY <2>1, Product
  <1>11. hunt'.spent <= 2 * (End - f) /\ cost <= 2 * (End - f)
    BY <1>1, <1>4, <1>5, <1>7, <1>10
  <1>12. dump.allowance = 2 * End => unjudged' = {}
    <2>1. dump.allowance = 2 * End => cost <= dump.allowance
      BY <1>1, <1>4, <1>10, <1>11
    <2>2. dump.allowance = 2 * End => unjudged = {}
      BY <1>3 DEF CostInv
    <2>. QED BY <1>5, <2>1, <2>2
  <1>. QED BY <1>9, <1>10, <1>11, <1>12

LEMMA RestPays ==
  ASSUME HuntInv, CostInv, EndsSearch \/ Reconciles \/ Concludes
  PROVE  CostInv'
  <1>1. /\ dump' = dump /\ hunt'.spent = hunt.spent /\ unjudged' = unjudged
        /\ hunt'.stage # "search"
    BY DEF EndsSearch, Reconciles, Concludes, HuntInv, ScannerInv, HuntFields
  <1>2. Healthy' = Healthy
    BY <1>1, SameBills
  <1>. QED BY <1>1, <1>2 DEF CostInv

LEMMA PayingStarts ==
  ASSUME dump \in Dumps, HuntStart
  PROVE  CostInv
  <1>1. hunt.stage = "search" /\ hunt.from = 0 /\ hunt.spent = 0 /\ unjudged = {} /\ Known
    BY DEF HuntStart, Known
  <1>2. /\ End \in Nat /\ Fixed \in Nat /\ \A h \in DOMAIN dump.headers : h \in Nat
    BY <1>1, PlacesFinite, HuntLimits
  <1>3. Ahead = DOMAIN dump.headers
    BY <1>1, <1>2 DEF Ahead
  <1>4. ASSUME Healthy, NEW t, NextIn(t, Ahead)
        PROVE  hunt.spent <= Limit(t) /\ hunt.spent <= 2 * (End - Fixed * Cardinality(DOMAIN dump.headers))
    <2>1. t \in DOMAIN dump.headers /\ t \in Nat /\ FullBill(t) \in Nat
      BY <1>1, <1>2, <1>3, <1>4, BillsType DEF NextIn
    <2>2. Behind(t) = {}
      BY <1>2, <1>3, <1>4, <2>1 DEF Behind, NextIn
    <2>3. Cardinality(Behind(t)) = 0 /\ Fixed * Cardinality(Behind(t)) = 0
      BY <1>2, <2>2, FS_EmptySet
    <2>4. PICK c \in Nat : c = Cardinality(Beyond(t)) + 1 /\ Cardinality(DOMAIN dump.headers) = c
      <3>1. /\ Cardinality(Beyond(t)) \in Nat
            /\ Cardinality(DOMAIN dump.headers) = Cardinality(Behind(t)) + 1 + Cardinality(Beyond(t))
        BY <1>1, <2>1, HeadersSplit
      <3>. QED BY <2>3, <3>1
    <2>5. t + FullBill(t) + Fixed * c <= End
      BY <1>1, <1>4, <2>1, <2>4, RoomAhead
    <2>6. PICK f \in Nat : f = Fixed * c
      BY <2>4, Product
    <2>7. 0 <= 2 * (End - f)
      BY <1>2, <2>1, <2>5, <2>6
    <2>8. 0 <= Limit(t)
      BY <2>1, <2>3 DEF Limit
    <2>. QED BY <1>1, <2>4, <2>6, <2>7, <2>8
  <1>5. CASE DOMAIN dump.headers = {}
    <2>1. Cardinality(DOMAIN dump.headers) = 0
      BY <1>5, FS_EmptySet
    <2>2. 0 <= 2 * (End - Fixed * 0)
      BY <1>2
    <2>3. \A t : ~NextIn(t, Ahead)
      BY <1>3, <1>5 DEF NextIn
    <2>. QED BY <1>1, <2>1, <2>2, <2>3 DEF CostInv
  <1>6. CASE DOMAIN dump.headers # {}
    <2>1. PICK t : NextIn(t, Ahead)
      <3>1. Ahead \subseteq Nat /\ Ahead # {}
        BY <1>2, <1>3, <1>6
      <3>. QED BY <3>1, LeastOf DEF NextIn
    <2>. QED BY <1>1, <1>4, <2>1 DEF CostInv
  <1>. QED BY <1>5, <1>6

-------------------------------------------------------------------------------
(* The whole of a header scan's promise.                                    *)
AllHuntInv == HuntInv /\ ToldInv /\ RowsInv /\ VariantsInv /\ CostInv

LEMMA AllStarts == dump \in Dumps /\ HuntStart => AllHuntInv
  BY HuntStarts, TellingStarts, RowsStart, CountingStarts, PayingStarts DEF AllHuntInv

LEMMA AllStays ==
  ASSUME AllHuntInv, UNCHANGED hunting
  PROVE  AllHuntInv'
  <1>1. HuntInv'
    BY HuntKeeps DEF AllHuntInv
  <1>2. UNCHANGED <<dump, hunt, recovered, unjudged, zeroReads>>
    BY DEF hunting
  <1>3. /\ RecoveredAt' = RecoveredAt /\ Spoken' = Spoken
        /\ \A p : /\ (InDirectory(p))' = InDirectory(p)
    BY <1>2 DEF RecoveredAt, Spoken, InDirectory
  <1>4. SightingsExact' = SightingsExact
    BY <1>2, <1>3 DEF SightingsExact, Lowest, Min
  <1>5. ToldInv'
    BY <1>2, <1>3, <1>4 DEF AllHuntInv, ToldInv, LogOf, Listing
  <1>6. RowsInv'
    <2>1. \A n : Settled(n) => Settled(n)'
      BY <1>2, <1>3, StillSettled
    <2>2. DirectoryRecovered' = DirectoryRecovered
      BY <1>2, <1>3 DEF DirectoryRecovered, HeaderThere, Intact, VariableEnd, PieceAfter, Parts
    <2>. QED BY <1>2, <2>1, <2>2 DEF AllHuntInv, RowsInv, Distinct, Ascending
  <1>7. VariantsInv'
    <2>1. \A p : JumpedOver(p) => JumpedOver(p)'
      BY <1>2, JumpsStay DEF AllHuntInv, HuntInv, RecoveredInv
    <2>2. \A p : (Passed(p))' = Passed(p)
      BY <1>2 DEF Passed
    <2>3. Ungated' \subseteq Ungated \cup {}
      BY <1>2, <2>1, <2>2, SameVariants DEF Ungated
    <2>4. hunt.variants.total \in Nat
      BY DEF AllHuntInv, ToldInv, LogOf
    <2>. QED BY <1>2, <2>3, <2>4, StillCounted DEF AllHuntInv
  <1>8. CostInv'
    <2>1. Healthy' = Healthy /\ \A t : (Limit(t))' = Limit(t)
      BY <1>2, SameBills
    <2>. QED BY <1>2, <2>1 DEF AllHuntInv, CostInv, NextIn, Ahead
  <1>. QED BY <1>1, <1>5, <1>6, <1>7, <1>8 DEF AllHuntInv

LEMMA AllKeeps == AllHuntInv /\ [HuntNext]_hunting => AllHuntInv'
  <1>. SUFFICES ASSUME AllHuntInv, [HuntNext]_hunting PROVE AllHuntInv'
    OBVIOUS
  <1>1. HuntInv /\ ToldInv /\ RowsInv /\ VariantsInv /\ CostInv
    BY DEF AllHuntInv
  <1>2. ASSUME NEW hit \in DOMAIN dump.headers, FirstHeader(hit),
               RefusesHeader(hit) \/ LeavesUnjudged(hit) \/ FindsEntry(hit) \/ FindsCpioEntry(hit)
        PROVE  AllHuntInv'
    <2>1. HuntInv' /\ Turns(hit)
      BY <1>1, <1>2, TurnIs
    <2>2. ToldInv' /\ RowsInv' /\ VariantsInv'
      BY <1>1, <1>2, <2>1, TurnTells, TurnKeepsRows, TurnCounts
    <2>3. CostInv'
      BY <1>1, <1>2, <2>1, TurnPays
    <2>. QED BY <2>1, <2>2, <2>3 DEF AllHuntInv
  <1>3. CASE EndsSearch
    BY <1>1, <1>3, EndsSearchKeeps, EndTells, EndKeepsRows, RestCounts, RestPays DEF AllHuntInv
  <1>4. CASE Reconciles
    BY <1>1, <1>4, ReconcilesKeeps, RecordTells, RecordKeepsRows, RestCounts, RestPays
       DEF AllHuntInv
  <1>5. CASE Concludes
    BY <1>1, <1>5, ConcludesKeeps, ConcludingTells, ConcludingKeepsRows, RestCounts, RestPays
       DEF AllHuntInv
  <1>6. CASE UNCHANGED hunting
    BY <1>6, AllStays
  <1>. QED BY <1>2, <1>3, <1>4, <1>5, <1>6 DEF HuntNext

LEMMA AllTyped == AllHuntInv => HuntTypeOK
  <1>. SUFFICES ASSUME AllHuntInv PROVE HuntTypeOK
    OBVIOUS
  <1>1. /\ hunt.from \in Nat /\ hunt.from <= End + Align - 1 /\ hunt.spent \in 0 .. dump.allowance
        /\ hunt.stage \in {"search", "directory", "done"}
        /\ LogOf(hunt.bounded) /\ LogOf(hunt.variants)
        /\ ToSet(hunt.held) = unjudged \ Spoken /\ unjudged \subseteq Places
        /\ End \in Nat /\ Align \in Nat
    BY PlacesFinite, HuntLimits DEF AllHuntInv, HuntInv, ScannerInv, ToldInv
  <1>2. hunt.from \in 0 .. End + Align - 1
    BY <1>1
  <1>3. ToSet(hunt.held) \subseteq unjudged
    BY <1>1
  <1>4. \A log \in {hunt.bounded, hunt.variants} :
           log.stored \in Seq(Places) /\ log.total \in Nat /\ Len(log.stored) <= LogCap
    BY <1>1 DEF LogOf
  <1>. QED BY <1>1, <1>2, <1>3, <1>4 DEF HuntTypeOK

LEMMA AllNoneLost == AllHuntInv => HeadersNoneLost
  <1>. SUFFICES ASSUME AllHuntInv PROVE HeadersNoneLost
    OBVIOUS
  <1>1. EntriesFoundOrTold /\ FewerThanDeclared
    BY DEF AllHuntInv, HuntInv, RecoveredInv, LeavesFewer, FewerThanDeclared
  <1>2. ZerosReadOnce
    <2>1. ASSUME NEW i \in DOMAIN zeroReads PROVE zeroReads[i] <= 1
      BY DEF AllHuntInv, HuntInv, ReadInv
    <2>. QED BY <2>1 DEF AllHuntInv, HuntInv, MemoInv, RunInv, ZerosReadOnce
  <1>3. VariantsCounted
    BY AllCounted DEF AllHuntInv
  <1>4. SightingsExact /\ DirectoryRecovered /\ HealthyWithinBudget
    BY DEF AllHuntInv, ToldInv, RowsInv, CostInv, HealthyWithinBudget
  <1>. QED BY <1>1, <1>2, <1>3, <1>4 DEF HeadersNoneLost

(* For any archive, limits and budget the scanner keeps its types.          *)
THEOREM HuntTypes == HuntSpec => []HuntTypeOK
  BY AllStarts, AllKeeps, AllTyped, PTL DEF HuntSpec

(* No entry, no header without a gate and no unjudged header is lost        *)
(* silently; what zip's directory names is recovered; a healthy archive is   *)
(* judged within its budget; no zero is read twice.                         *)
THEOREM HeadersLoseNone == HuntSpec => []HeadersNoneLost
  BY AllStarts, AllKeeps, AllNoneLost, PTL DEF HuntSpec
============================================================================
