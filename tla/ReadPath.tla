------------------------------- MODULE ReadPath -------------------------------
(***************************************************************************)
(* Reading an archive's payloads, whatever the verb (entries.rs, ladder.rs, *)
(* source/limit.rs and source/spill.rs): the file's bytes are tallied as    *)
(* the codec takes them (Counting), the decoded stream is held to           *)
(* --max-ratio as it is taken (RatioGuard), by the container itself or by   *)
(* the spool a container that must seek is given (ladder::resolve,          *)
(* SpillSource); each payload is held to its declared length and charged as *)
(* it passes (EntryPayload, ArchiveBudget); and the stream is read to its   *)
(* end after the last entry, where the codec's own check is (DrainAtEnd).   *)
(* A byte is a unit; an entry's header is one.                              *)
(***************************************************************************)
EXTENDS Integers, Sequences, Totals

CONSTANTS
  Layouts,     (* the archives: see LayoutsType                              *)
  Requests,    (* what is asked of one: see RequestsType                     *)
  ReadVerbs,   (* SpillPolicy::default, as [mem, total]                      *)
  Floor,       (* RATIO_FLOOR                                                *)
  TallyMax     (* u64::MAX                                                   *)

VARIABLES
  layout,      (* the archive                                                *)
  asked,       (* the request                                                *)
  tally,       (* Counting: bytes of the file the codec has taken            *)
  produced,    (* RatioGuard: bytes of the stream the container has taken    *)
  charged,     (* ArchiveBudget: decoded_so_far                              *)
  entry,       (* the entry at hand, 0 before the first                      *)
  rung,        (* how the container was opened: "unopened", "exact",         *)
               (* "forward" or "spilled"                                     *)
  backing,     (* SpillWriter: its bytes in memory and in its file           *)
  delivered,   (* EntryPayload: bytes of its payload handed out              *)
  phase,       (* "open", "next", "payload", "settle", "drain" or "over"     *)
  failure,     (* EntryPayload: the failure kept, or "none"                  *)
  outcome,     (* "running", "ok", "corrupt" or "limit"                      *)
  got,         (* history: got[i], bytes of i's payload a writer has         *)
  settled      (* history: the entries reported as read                      *)

readVars == <<layout, asked, tally, produced, charged, entry, rung, backing, delivered, phase,
              failure, outcome, got, settled>>

Undeclared == -1

(* An entry in the stream: its header and its payload, unless the container *)
(* packs that itself.  The whole stream: the entries and the tail.          *)
Units(l) == [i \in DOMAIN l.entries |-> 1 + (IF l.packed THEN 0 ELSE l.entries[i].carries)]
Length(l) == Total(DOMAIN l.entries, Units(l)) + l.tail

(* A bare archive's stream is the file.                                     *)
ASSUME LayoutsType ==
  \A l \in Layouts :
    /\ l \in [entries : Seq([declared : Nat \cup {Undeclared}, carries : Nat]),
              tail : Nat, coded : BOOLEAN, packed : BOOLEAN, intact : BOOLEAN, size : Nat,
              seeks : {"never", "convert", "always"}]
    /\ ~l.coded => l.size = Length(l)
ASSUME RequestsType ==
  /\ Requests \subseteq [ratio : Nat, sized : BOOLEAN, converts : BOOLEAN, upTo : Nat,
                         spill : [mem : Nat, total : Nat]]
  /\ ReadVerbs \in [mem : Nat, total : Nat]
  /\ Floor \in Nat /\ TallyMax \in Nat

(* saturating_add, checked_mul with the permissive answer.                  *)
Saturated(n) == IF n > TallyMax THEN TallyMax ELSE n

(* A payload's bytes in the stream: none when the container packs it itself.*)
InStream(n) == IF layout.packed THEN 0 ELSE n

Carried == layout.entries[entry].carries
Declared == IF asked.converts THEN layout.entries[entry].declared ELSE Undeclared

(* ArchiveBudget::ceiling: of the file's size, or on a pipe of its bytes so *)
(* far.                                                                     *)
Ceiling ==
  LET bound == Saturated((IF asked.sized THEN layout.size ELSE tally) * asked.ratio)
  IN  IF bound < Floor THEN Floor ELSE bound

(* RatioGuard::record, of the stream n bytes further, m of the file taken.  *)
Implausible(n, m) ==
  n > Floor /\ n \div (IF m = 0 THEN 1 ELSE m) > asked.ratio

(* SharedSource: what is under a codec cannot seek.                         *)
Seekable == asked.sized /\ ~layout.coded

(* needs_seek (ARJ), and convert_read_policy over a trailing index (zip).   *)
MustSeek == layout.seeks = "always" \/ (layout.seeks = "convert" /\ asked.converts)

(* The policy of the spool: convert's own for a zip, without one no byte.   *)
Spill == IF layout.seeks = "convert" THEN asked.spill ELSE ReadVerbs

ReadInit ==
  /\ layout \in Layouts /\ asked \in Requests
  /\ tally = 0 /\ produced = 0 /\ charged = 0
  /\ entry = 0 /\ delivered = 0 /\ got = [i \in DOMAIN layout.entries |-> 0]
  /\ settled = {} /\ rung = "unopened" /\ backing = [mem |-> 0, disk |-> 0]
  /\ phase = "open" /\ failure = "none" /\ outcome = "running"

-------------------------------------------------------------------------------
In(p) == phase = p /\ UNCHANGED <<layout, asked>>
Opened(p) == In(p) /\ UNCHANGED <<rung, backing>>

Ends(how) == phase' = "over" /\ outcome' = how

(* n bytes of the stream are taken; without a codec they are the file's own.*)
Pulls(n) ==
  /\ produced' = Saturated(produced + n)
  /\ tally' = IF layout.coded THEN tally ELSE tally + n

(* The container takes n bytes: of the stream, or of a spool or a file it   *)
(* seeks in, past the guard.                                                *)
Takes(n) ==
  IF rung = "spilled" \/ (rung = "exact" /\ layout.seeks # "never")
  THEN UNCHANGED <<produced, tally>>
  ELSE Pulls(n)

Refused == Implausible(produced', tally')

(* The codec reads ahead.                                                   *)
Refill ==
  /\ phase # "over" /\ layout.coded /\ tally < layout.size
  /\ tally' \in tally + 1 .. layout.size
  /\ UNCHANGED <<layout, asked, produced, charged, entry, rung, backing, delivered, phase, failure,
                 outcome, got, settled>>

(* ladder::resolve: the file itself, or the stream as it comes.             *)
OpenInPlace ==
  /\ In("open")
  /\ Seekable \/ ~MustSeek
  /\ rung' = IF Seekable THEN "exact" ELSE "forward"
  /\ phase' = "next"
  /\ UNCHANGED <<tally, produced, charged, entry, backing, delivered, failure, outcome, got, settled>>

StreamLength == Length(layout)
Spooled == backing.mem + backing.disk

(* SpillSource::materialize, SpillWriter::push: in memory up to its cap, all*)
(* of it in a file past that, refused past the limit.                       *)
SpoolSome(n) ==
  LET total == Spooled + n
  IN  /\ In("open") /\ MustSeek /\ ~Seekable /\ total <= StreamLength
      /\ Pulls(n)
      /\ IF Refused \/ total > Spill.total THEN Ends("limit") /\ UNCHANGED backing
         ELSE /\ backing' = IF backing.disk = 0 /\ total <= Spill.mem
                          THEN [mem |-> total, disk |-> 0] ELSE [mem |-> 0, disk |-> total]
              /\ UNCHANGED <<phase, outcome>>
      /\ UNCHANGED <<charged, entry, rung, delivered, failure, got, settled>>

(* The whole stream, to the codec's own check.                              *)
SpoolEnds ==
  /\ In("open") /\ MustSeek /\ ~Seekable /\ Spooled = StreamLength /\ tally = layout.size
  /\ IF layout.intact THEN rung' = "spilled" /\ phase' = "next" /\ UNCHANGED outcome
     ELSE Ends("corrupt") /\ UNCHANGED rung
  /\ UNCHANGED <<tally, produced, charged, entry, backing, delivered, failure, got, settled>>

(* next_entry: what is left of the last payload is passed over.             *)
NextEntry ==
  /\ Opened("next") /\ entry < Len(layout.entries) /\ (asked.upTo = 0 \/ entry < asked.upTo)
  /\ Takes(1 + (IF entry = 0 THEN 0 ELSE InStream(Carried - delivered)))
  /\ IF Refused THEN Ends("limit") /\ UNCHANGED <<entry, delivered>>
     ELSE /\ entry' = entry + 1 /\ delivered' = 0 /\ phase' = "payload"
          /\ UNCHANGED outcome
  /\ UNCHANGED <<charged, failure, got, settled>>

(* The verb wants only the entry's header.                                  *)
PassOver ==
  /\ Opened("payload") /\ delivered = 0
  /\ phase' = "next"
  /\ UNCHANGED <<tally, produced, charged, entry, delivered, failure, outcome, got, settled>>

(* EntryPayload::fail.                                                      *)
Stash(kind) ==
  /\ failure' = kind /\ phase' = "settle"
  /\ UNCHANGED <<delivered, got>>

(* EntryPayload::read: n bytes, at most what is declared, charged before    *)
(* they are handed out (ArchiveBudget::charge).                             *)
ReadSome(n) ==
  /\ Opened("payload") /\ delivered + n <= Carried
  /\ Declared # Undeclared => delivered + n <= Declared
  /\ Takes(InStream(n))
  /\ IF Refused THEN Stash("limit") /\ UNCHANGED charged
     ELSE /\ charged' = IF n > Ceiling' THEN charged ELSE Saturated(charged + n)
          /\ IF n > Ceiling' \/ charged' > Ceiling' THEN Stash("limit")
             ELSE /\ delivered' = delivered + n
                  /\ got' = [got EXCEPT ![entry] = @ + n]
                  /\ UNCHANGED <<phase, failure>>
  /\ UNCHANGED <<entry, outcome, settled>>

(* The payload ends before its declared length, or the byte after it is     *)
(* there: corrupt, never padded and never clipped; else it is read.         *)
ReadEnd ==
  LET longer == delivered = Declared /\ delivered < Carried
  IN  /\ Opened("payload")
      /\ delivered = Carried \/ longer
      /\ Takes(IF longer THEN InStream(1) ELSE 0)
      /\ IF Refused THEN Stash("limit")
         ELSE IF Declared # Undeclared /\ Declared # Carried THEN Stash("corrupt")
         ELSE phase' = "settle" /\ UNCHANGED <<delivered, failure, got>>
      /\ UNCHANGED <<charged, entry, outcome, settled>>

(* settle: the failure kept is the answer, though the writer swallowed it.  *)
Settle ==
  /\ Opened("settle")
  /\ IF failure = "none" THEN phase' = "next" /\ settled' = settled \cup {entry} /\ UNCHANGED outcome
     ELSE Ends(failure) /\ UNCHANGED settled
  /\ UNCHANGED <<tally, produced, charged, entry, delivered, failure, got>>

(* cat or unpack --index: the last entry asked for is delivered.            *)
StopEarly ==
  /\ Opened("next") /\ asked.upTo # 0 /\ entry = asked.upTo
  /\ Ends("ok")
  /\ UNCHANGED <<tally, produced, charged, entry, delivered, failure, got, settled>>

WalkEnds ==
  /\ Opened("next") /\ entry = Len(layout.entries) /\ (asked.upTo = 0 \/ entry < asked.upTo)
  /\ Takes(IF entry = 0 THEN 0 ELSE InStream(Carried - delivered))

(* Variant: nothing is read past the marker.                                *)
EndsAtMarker ==
  /\ WalkEnds
  /\ Ends(IF Refused THEN "limit" ELSE "ok")
  /\ UNCHANGED <<charged, entry, delivered, failure, got, settled>>

(* The container's own end marker; over a codec, the drain follows.         *)
EndMarker ==
  /\ WalkEnds
  /\ IF Refused THEN Ends("limit")
     ELSE IF layout.coded THEN phase' = "drain" /\ UNCHANGED outcome ELSE Ends("ok")
  /\ UNCHANGED <<charged, entry, delivered, failure, got, settled>>

(* The rest of the stream, through the guard, to the codec's check.         *)
Drain ==
  /\ Opened("drain")
  /\ Takes(layout.tail)
  /\ Refused \/ tally = layout.size
  /\ Ends(IF Refused THEN "limit" ELSE IF layout.intact THEN "ok" ELSE "corrupt")
  /\ UNCHANGED <<charged, entry, delivered, failure, got, settled>>

ReadNext ==
  \/ Refill \/ OpenInPlace \/ (\E n \in 1 .. 2 : SpoolSome(n)) \/ SpoolEnds
  \/ NextEntry \/ PassOver \/ (\E n \in 1 .. 2 : ReadSome(n)) \/ ReadEnd
  \/ Settle \/ StopEarly \/ EndMarker \/ Drain

-------------------------------------------------------------------------------
ReadTypeOK ==
  /\ produced \in 0 .. TallyMax /\ charged \in 0 .. TallyMax
  /\ tally \in 0 .. layout.size
  /\ entry \in 0 .. Len(layout.entries)
  /\ rung \in {"unopened", "exact", "forward", "spilled"} /\ backing \in [mem : Nat, disk : Nat]
  /\ failure \in {"none", "corrupt", "limit"}
  /\ outcome \in {"running", "ok", "corrupt", "limit"}

(* No byte past the ceiling that --max-ratio sets is handed to a writer.    *)
WithinRatio == Total(DOMAIN got, got) <= Ceiling \/ Ceiling >= TallyMax

(* An entry reported as read was delivered whole, and was as long as        *)
(* declared where that is held to.                                          *)
DeliveredWhole ==
  \A i \in settled :
    LET e == layout.entries[i]
    IN  got[i] = e.carries /\ (asked.converts => e.declared \in {Undeclared, e.carries})

(* A walk to its end, over a codec.                                         *)
WalkedOut == outcome = "ok" /\ layout.coded /\ (asked.upTo = 0 \/ entry < asked.upTo)

(* An archive is reported for what it is, however its bytes reach the verb: *)
(* --max-ratio holds on a pipe as of a file, no 64-bit count wrapping into  *)
(* a smaller one; an entry reported as read is whole; a failure is the      *)
(* answer whatever the writer made of it; a spool stays within its policy,  *)
(* and is the whole stream when it is read; and a walk to the end is clean  *)
(* only if the whole stream was read and the codec's check passed           *)
(* ("reported it clean at exit 0 while gzip -t rejected the file",          *)
(* entries.rs:262).                                                         *)
ReadAsPromised ==
  /\ WithinRatio /\ DeliveredWhole
  /\ phase = "over" /\ failure # "none" => outcome = failure
  /\ backing.mem <= Spill.mem /\ Spooled <= Spill.total
  /\ rung = "spilled" => Spooled = StreamLength
  /\ WalkedOut => layout.intact /\ produced = Saturated(StreamLength)
===============================================================================
