----------------------------- MODULE TarSalvage -----------------------------
(***************************************************************************)
(* The tar scanner of `salvage` (tar_salvage.rs TarSalvage) under the      *)
(* engine that drives it (salvage.rs collect_candidates).                  *)
(*                                                                         *)
(* A damaged archive is what its bytes read as at each offset where a      *)
(* block's checksum agrees: a header, an extension of the header that follows it (GNU long name `L`   *)
(* and long link `K`, pax `x`), a header in a shape the scan cannot gate,  *)
(* or one that looks like a shifted copy of another.  Blocks that read as  *)
(* headers may overlap: the search moves byte by byte.  An extension's     *)
(* payload is read only once the chain it heads is known to reach a        *)
(* header, a few times for each header reached (MAX_CHAINS_PER_HEADER),    *)
(* within a budget for the scan (extension_read_budget), and while few     *)
(* enough headers are tracked (MAX_TRACKED_TERMINALS); what is refused for *)
(* it is logged as a sighting.                                             *)
(***************************************************************************)
EXTENDS Naturals, Sequences, FiniteSets

CONSTANTS
    Tapes,          \* the archives: see TapesType
    Block,          \* BLOCK
    FileLen,        \* file_len
    MaxShift,       \* how late a copy of a header may be seen (7)
    MaxChains,      \* MAX_CHAINS_PER_HEADER
    TrackingCap,    \* MAX_TRACKED_TERMINALS
    ReadLimit       \* extension_read_budget(file_len)

VARIABLES
    tape,       \* offsets of the blocks whose checksum agrees -> what they read as
    scan,       \* TarSalvage and the position the engine searches from
    candidates, \* the candidates, in the order found
    chains      \* history: the chains read for each header in the whole scan

scanning == <<tape, scan, candidates, chains>>

Offsets == 0 .. FileLen - Block
Extensions == {"L", "K", "x"}
Roles == Extensions \cup {"real", "ungateable", "copy"}
Names == {"none", "empty", "name"}

\* A block's role, the name it gives and the length its size field declares.
Readings == [role : Roles, says : Names, span : Nat]

ASSUME TapesType == \A t \in Tapes : DOMAIN t \subseteq Offsets /\ t \in [DOMAIN t -> Readings]
ASSUME LimitsType ==
    /\ Block \in Nat \ {0} /\ FileLen \in Nat /\ FileLen >= Block
    /\ MaxShift \in Nat
    /\ MaxChains \in Nat \ {0} /\ TrackingCap \in Nat /\ ReadLimit \in Nat

(***************************************************************************)
(* The bytes.                                                              *)
(***************************************************************************)
RoundUp(n) == ((n + Block - 1) \div Block) * Block
Payload(at) == at + Block

\* read_block, header_checksum_agrees, clears_criterion_3.
ClearsGate(at) == at \in DOMAIN tape /\ tape[at].role \in Extensions \cup {"real"}

\* find_next_header.
Agreeing(from) == {at \in DOMAIN tape : at >= from}

Fits(at) == Payload(at) + tape[at].span <= FileLen
NextHeader(at) == Payload(at) + RoundUp(tape[at].span)

(***************************************************************************)
(* The logs of refused headers (TerminalLog): pending while the search may *)
(* reach the header again, so that each is logged once, then settled.      *)
(***************************************************************************)
NoLog == [pending |-> {}, settled |-> {}, below |-> 0]
EmptyLog(log) == log.pending = {} /\ log.settled = {}
Logged(log) == log.pending \cup log.settled

Inserted(log, at) ==
    IF Cardinality(log.pending) >= TrackingCap /\ at \notin log.pending
    THEN [log EXCEPT !.settled = @ \cup {at}]
    ELSE [log EXCEPT !.pending = @ \cup {at}]

SettledBelow(log, from) ==
    LET past == {at \in log.pending : at < from}
    IN  [pending |-> log.pending \ past,
         settled |-> log.settled \cup past,
         below |-> IF log.below > from THEN log.below ELSE from]

(***************************************************************************)
(* A chain, walked by its headers alone (the first pass of gate_chain_at), *)
(* as the scan s stands.                                                   *)
(***************************************************************************)
\* Variant: only what the search may still reach counts as starved.
PendingStarved(s) == s.starved.pending # {}

\* ChainBudget::scan_budget_spent.
BudgetSpent(s) == ~EmptyLog(s.starved)

\* Where the header after the one at `at` would be, and the k-th of the chain
\* headed at p.
After(at) == IF at \in DOMAIN tape THEN NextHeader(at) ELSE at
MaxExtensions == 3
Hop(p) ==
    [k \in 0 .. MaxExtensions |-> IF k = 0 THEN p
                                  ELSE IF k = 1 THEN After(p)
                                  ELSE IF k = 2 THEN After(After(p))
                                  ELSE After(After(After(p)))]

\* A header read for often enough, or once the budget is spent, is refused
\* before its block is read again.
ReadEnough(s, at) == at \in DOMAIN s.tracked /\ s.tracked[at] >= MaxChains
Exhausted(s, at) == ReadEnough(s, at) \/ (at \in DOMAIN s.tracked /\ BudgetSpent(s))

\* An extension is passed over when it is the first of its kind and fits.
Passable(p, k) ==
    LET at == Hop(p)
    IN  /\ ClearsGate(at[k]) /\ tape[at[k]].role \in Extensions /\ Fits(at[k])
        /\ \A j \in 0 .. k - 1 : tape[at[j]].role # tape[at[k]].role

WalksTo(s, p, k) ==
    \A j \in 0 .. k - 1 : Passable(p, j) /\ (j = 0 \/ ~Exhausted(s, Hop(p)[j]))

\* The chain headed at p stops at its k-th header, refused unread.
StopsRefused(s, p, k) == k > 0 /\ WalksTo(s, p, k) /\ Exhausted(s, Hop(p)[k])

\* It reaches a real header there.
IsHeader(p, k) == ClearsGate(Hop(p)[k]) /\ tape[Hop(p)[k]].role = "real"
Reaches(s, p, k) == WalksTo(s, p, k) /\ ~StopsRefused(s, p, k) /\ IsHeader(p, k)

\* candidate_from: the name is `L`'s, else pax's `path`, else the header's.
NameOf(p, k) ==
    LET at == Hop(p)
        From(role) == {j \in 0 .. k - 1 : tape[at[j]].role = role /\ tape[at[j]].says # "none"}
        giver == IF From("L") # {} THEN From("L")
                 ELSE IF From("x") # {} THEN From("x") ELSE {k}
    IN  tape[at[CHOOSE j \in giver : TRUE]].says

\* The extension bytes a reading of the chain costs.
Planned(p, k) ==
    LET Of(j) == IF j < k THEN tape[Hop(p)[j]].span ELSE 0
    IN  Of(0) + Of(1) + Of(2)

(***************************************************************************)
(* Where the search goes on.                                               *)
(***************************************************************************)
Candidate(p, k) ==
    LET at == Hop(p)[k]
    IN  [head |-> p, offset |-> at, says |-> NameOf(p, k), span |-> tape[at].span,
         whole |-> Fits(at), next |-> NextHeader(at)]

\* Variant: the bytes a truncated candidate has left are passed too.
AdvanceByAvailable(c) ==
    IF c.whole THEN IF c.span = 0 THEN 1 ELSE c.span ELSE FileLen - Payload(c.offset)

\* collect_candidates: a declared length that does not fit is not trusted.
Advance(c) == IF c.whole /\ c.span # 0 THEN c.span ELSE 1

\* A whole candidate's payload is jumped to the next block (resume).
ResumesAt(c) ==
    LET from == c.offset + Advance(c)
    IN  IF c.whole /\ from > c.offset /\ from <= c.next THEN c.next ELSE from

\* A block that is no header is passed one byte on.
OneFurther(hit) == hit + 1

(***************************************************************************)
(* One turn of next_candidate's loop, on the first block that agrees.      *)
(***************************************************************************)
\* What no chain headed at or after the search position can reach is dropped.
Pruned(s) == [at \in {t \in DOMAIN s.tracked : t >= s.from} |-> s.tracked[at]]

Turned ==
    [scan EXCEPT !.tracked = Pruned(scan),
                 !.converged = SettledBelow(@, scan.from),
                 !.starved = SettledBelow(@, scan.from),
                 !.capped = SettledBelow(@, scan.from)]

Hits(hit) ==
    /\ ~scan.over /\ hit \in Agreeing(scan.from)
    /\ \A at \in Agreeing(scan.from) : hit <= at

\* What was found at hit is passed, the scan as s.
Passes(hit, s) ==
    /\ scan' = [s EXCEPT !.from = OneFurther(hit)]
    /\ UNCHANGED <<tape, candidates>>

\* sighting_at: refused by criterion 3 alone; an ungateable header within
\* MaxShift of the last one seen is its copy.
Sights(hit) ==
    /\ tape[hit].role \in {"ungateable", "copy"}
    /\ LET late == hit - scan.lastSeen
           isCopy == \/ tape[hit].role = "copy"
                     \/ scan.lastSeen <= hit /\ late \in 1 .. MaxShift
           s == Turned
       IN  Passes(hit, IF isCopy THEN [s EXCEPT !.copies = @ \cup {hit}]
                       ELSE [s EXCEPT !.seen = @ \cup {hit}, !.lastSeen = hit])
    /\ UNCHANGED chains

\* The chain reaches a header read for often enough already, or, once the
\* budget is spent, one that was read for (converged, starved).
RefusesUnread(hit) ==
    LET s == Turned
    IN  \E k \in 1 .. MaxExtensions :
            LET t == Hop(hit)[k]
            IN  /\ ClearsGate(hit) /\ StopsRefused(s, hit, k)
                /\ Passes(hit, IF ReadEnough(s, t)
                               THEN [s EXCEPT !.converged = Inserted(@, t)]
                               ELSE [s EXCEPT !.starved = Inserted(@, t)])
    /\ UNCHANGED chains

\* The readings counted for t, and the counts with n for t.
Count(s, t) == IF t \in DOMAIN s.tracked THEN s.tracked[t] ELSE 0
Tracking(s, t, n) ==
    [u \in DOMAIN s.tracked \cup {t} |-> IF u = t THEN n ELSE s.tracked[u]]

\* Its extensions' payloads are left unread: too many headers are tracked
\* to start on another (capped), or the budget is short (starved).
HasPayloads(k) == k > 0
CapReached(s, t) == t \notin DOMAIN s.tracked /\ Cardinality(DOMAIN s.tracked) >= TrackingCap
OverBudget(s, p, k) == BudgetSpent(s) \/ s.payloadRead + Planned(p, k) > ReadLimit

RefusesPayloads(hit) ==
    LET s == Turned
    IN  \E k \in 1 .. MaxExtensions :
            LET t == Hop(hit)[k]
            IN  /\ ClearsGate(hit) /\ Reaches(s, hit, k) /\ HasPayloads(k)
                /\ \/ /\ CapReached(s, t)
                      /\ Passes(hit, [s EXCEPT !.capped = Inserted(@, t)])
                   \/ /\ ~CapReached(s, t) /\ OverBudget(s, hit, k)
                      /\ Passes(hit, [s EXCEPT !.tracked = Tracking(s, t, Count(s, t)),
                                               !.starved = Inserted(@, t)])
    /\ UNCHANGED chains

\* Variant: the reading is not counted for its header.
NotCounted(s, p, k) == [s EXCEPT !.payloadRead = @ + Planned(p, k)]

Counted(s, p, k) ==
    LET t == Hop(p)[k]
    IN  [s EXCEPT !.tracked = Tracking(s, t, Count(s, t) + 1),
                  !.payloadRead = @ + Planned(p, k)]

\* The chain is read: a candidate if it ends up with a name (criterion 5).
ReadsChain(hit) ==
    LET s == Turned
    IN  \E k \in 0 .. MaxExtensions :
            /\ ClearsGate(hit) /\ Reaches(s, hit, k)
            /\ HasPayloads(k) => ~CapReached(s, Hop(hit)[k]) /\ ~OverBudget(s, hit, k)
            /\ LET after == IF HasPayloads(k) THEN Counted(s, hit, k) ELSE s
                   c == Candidate(hit, k)
               IN  IF c.says = "empty" THEN Passes(hit, after)
                   ELSE /\ scan' = [after EXCEPT !.from = ResumesAt(c)]
                        /\ candidates' = Append(candidates, c) /\ UNCHANGED tape
            /\ chains' = [chains EXCEPT ![Hop(hit)[k]] = @ + (IF HasPayloads(k) THEN 1 ELSE 0)]

\* An extension chain that reaches no header.
Breaks(hit) ==
    LET s == Turned
    IN  /\ ClearsGate(hit)
        /\ \A k \in 0 .. MaxExtensions : ~StopsRefused(s, hit, k) /\ ~Reaches(s, hit, k)
        /\ Passes(hit, s) /\ UNCHANGED chains

EndsScan ==
    /\ ~scan.over /\ Agreeing(scan.from) = {}
    /\ scan' = [scan EXCEPT !.over = TRUE]
    /\ UNCHANGED <<tape, candidates, chains>>

ScanStart ==
    /\ scan = [from |-> 0, tracked |-> <<>>, payloadRead |-> 0, seen |-> {}, lastSeen |-> FileLen,
               copies |-> {}, converged |-> NoLog, starved |-> NoLog, capped |-> NoLog,
               over |-> FALSE]
    /\ candidates = <<>>
    /\ chains = [at \in Offsets |-> 0]

ScanNext ==
    \/ \E hit \in DOMAIN tape :
        /\ Hits(hit)
        /\ Sights(hit) \/ RefusesUnread(hit) \/ RefusesPayloads(hit) \/ ReadsChain(hit) \/ Breaks(hit)
    \/ EndsScan

ScanSpec == tape \in Tapes /\ ScanStart /\ [][ScanNext]_scanning

\* salvage_tar, into_sightings: of the copies, those on the recovered entries'
\* block grid; every refused header.
Grid == {candidates[n].offset % Block : n \in DOMAIN candidates}
Refusals == Logged(scan.converged) \cup Logged(scan.starved) \cup Logged(scan.capped)
Sightings == scan.seen \cup {at \in scan.copies : at % Block \in Grid} \cup Refusals

(***************************************************************************)
(* Properties.                                                             *)
(***************************************************************************)
Log == [pending : SUBSET Offsets, settled : SUBSET Offsets, below : Nat]

\* The scan's counts, logs and candidates are of their kinds.
ScanTypeOK ==
    /\ scan.from \in Nat /\ scan.payloadRead \in 0 .. ReadLimit /\ scan.over \in BOOLEAN
    /\ DOMAIN scan.tracked \subseteq Offsets
    /\ \A t \in DOMAIN scan.tracked : scan.tracked[t] \in 0 .. MaxChains
    /\ scan.converged \in Log /\ scan.starved \in Log /\ scan.capped \in Log
    /\ scan.seen \subseteq Offsets /\ scan.copies \subseteq Offsets
    /\ scan.lastSeen \in 0 .. FileLen
    /\ chains \in [Offsets -> Nat]

\* Consumed: within the chain or the whole payload of a candidate.
Consumed(p) ==
    \E n \in DOMAIN candidates :
        LET c == candidates[n]
        IN  c.head <= p /\ p < (IF c.whole THEN c.next ELSE c.offset + 1)

\* No entry is lost silently: once the scan is over, the header any chain of
\* extensions reaches with a name is a candidate, a sighting, or part of what
\* a candidate consumed, and a header the scan has no gate for is a sighting,
\* or within MaxShift of one (tar_salvage.rs:974 "a real entry skipped that way is
\* named, never lost silently"; salvage.rs:1650).
TarNoneLost ==
    scan.over =>
      \A p \in DOMAIN tape :
        /\ \A k \in 0 .. MaxExtensions :
            /\ ClearsGate(p) /\ IsHeader(p, k) /\ \A j \in 0 .. k - 1 : Passable(p, j)
            /\ NameOf(p, k) # "empty"
            => Hop(p)[k] \in Refusals \/ Consumed(p)
        /\ tape[p].role = "ungateable" =>
              \/ p \in Sightings \/ Consumed(p)
              \/ \E q \in scan.seen : p - q \in 1 .. MaxShift

\* No header's chains are read more than MAX_CHAINS_PER_HEADER times in the
\* whole scan, although its count is dropped once the search has passed it;
\* a refused header is logged pending only while it is still counted, and
\* never behind the search (the debug_assert of TerminalLog::insert).
ChainReadsBounded ==
    /\ \A t \in Offsets : chains[t] <= MaxChains
    /\ Cardinality(DOMAIN scan.tracked) <= TrackingCap
    /\ scan.converged.pending \cup scan.starved.pending \subseteq DOMAIN scan.tracked
    /\ \A log \in {scan.converged, scan.starved, scan.capped} :
          \A t \in log.pending : t >= log.below

\* Once one chain was refused for the budget, no chain's payload is read, the
\* small ones included (scan_budget_spent), wherever the search has got to.
SpentStaysSpent ==
    [][Logged(scan.starved) # {} => chains' = chains]_scanning
=============================================================================
