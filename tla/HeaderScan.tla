----------------------------- MODULE HeaderScan -----------------------------
(***************************************************************************)
(* The scanners of `salvage` that find an entry by its own header alone:   *)
(* zip, zoo, lha, arj, arc and cpio (zip_salvage.rs, cpio_salvage.rs,      *)
(* legacy/{zoo,lha,arj,arc}_salvage.rs), under collect_candidates. They    *)
(* share a loop: the next header whose fixed part could be one is judged   *)
(* by what follows it, read piece by piece within a budget for the whole   *)
(* scan (ScanBudget), and one that cannot be paid for is not judged, but   *)
(* told of (SightingLog). cpio jumps a payload only where what it lands on *)
(* backs the size, and remembers the zeros it read to find out; zip asks   *)
(* its central directory for what the scan did not recover.                *)
(*                                                                         *)
(* A byte is a unit. What the bytes of a header say is in the dump: the    *)
(* pieces its verdict reads, and what it then turns out to be.             *)
(***************************************************************************)
EXTENDS Integers, Sequences, FiniteSets, FiniteSetsExt, SequencesExt

CONSTANTS
    Dumps,      \* the archives: see DumpsType
    End,        \* file_len
    Fixed,      \* the length of a header's fixed part
    Align,      \* what cpio pads a name and a payload to (4)
    MagicLen,   \* cpio's MAGIC_LEN
    LogCap      \* SightingLog's cap

VARIABLES
    dump,       \* the archive
    hunt,       \* the scanner, and how far the engine and it have got
    recovered,  \* the candidates
    unjudged,   \* history: the headers refused for the budget
    zeroReads   \* history: how often each zero was read to see how far a run goes

hunting == <<dump, hunt, recovered, unjudged, zeroReads>>

Absent == -1
Places == 0 .. End - Fixed

(***************************************************************************)
(* What is found at an offset: the pieces the verdict reads (zip's name in *)
(* growing pieces, zoo's variable part, lha's extension headers, arj's     *)
(* content and the sizes of its extended headers, cpio's name; none of     *)
(* arc, whose header is its fixed part), with what has been charged (bill) *)
(* and passed (len) once each is read; what it is; its payload's length,   *)
(* which a zip header may leave to its directory (Absent). `noise` is what *)
(* a criterion refuses once the pieces are read; `variant` a header this   *)
(* build has no gate for; a `symlink` has a target short enough to read.   *)
(* The allowance (ScanBudget::for_input) is at most 2 * End, what the code *)
(* gives every archive of that length: a shorter one stands for a longer   *)
(* archive that spent the rest before these headers.                       *)
(***************************************************************************)
Turnouts == {"entry", "symlink", "variant", "trailer", "noise"}

PiecesType(parts) ==
    /\ parts \in Seq([bill : Nat, len : Nat])
    /\ \A k \in DOMAIN parts :
          LET before == IF k = 1 THEN [bill |-> 0, len |-> 0] ELSE parts[k - 1]
          IN  parts[k].bill - before.bill \in 0 .. parts[k].len - before.len

ASSUME DumpsType ==
    \A d \in Dumps :
        /\ d.format \in {"zip", "zoo", "lha", "arj", "arc", "cpio"}
        /\ DOMAIN d.headers \subseteq Places
        /\ \A at \in DOMAIN d.headers :
              /\ PiecesType(d.headers[at].parts)
              /\ d.headers[at].is \in Turnouts
              /\ d.headers[at].span \in Nat \cup {Absent}
        /\ d.format = "arc" => \A at \in DOMAIN d.headers :
              d.headers[at].parts = <<>> /\ d.headers[at].is = "entry"
        /\ d.format \in {"zoo", "cpio"} => \A at \in DOMAIN d.headers : Len(d.headers[at].parts) <= 1
        /\ d.directory \in Seq([at : Places, span : Nat])
        /\ d.format # "zip" => /\ d.directory = <<>>
                               /\ \A at \in DOMAIN d.headers : d.headers[at].span # Absent
        /\ d.zeros \subseteq (0 .. End - 1) \ DOMAIN d.headers
        /\ d.allowance \in 0 .. 2 * End
ASSUME HuntLimits ==
    /\ End \in Nat /\ Align \in Nat \ {0} /\ MagicLen \in Nat \ {0}
    /\ Fixed \in Nat /\ Fixed >= MagicLen /\ LogCap \in Nat \ {0}

Parts(at) == dump.headers[at].parts
Span(at) == dump.headers[at].span
Aligned(n) == ((n + Align - 1) \div Align) * Align

(***************************************************************************)
(* The verdict on the header at `at`.                                      *)
(***************************************************************************)
\* What the first k of its pieces cost, and where the next begins.
Bill(at, k) == IF k = 0 THEN 0 ELSE Parts(at)[k].bill
PieceAfter(at, k) == at + Fixed + (IF k = 0 THEN 0 ELSE Parts(at)[k].len)

VariableEnd(at) == PieceAfter(at, Len(Parts(at)))
Intact(at) == VariableEnd(at) <= End
Sound(at) == Intact(at) /\ dump.headers[at].is # "noise"

\* Reading its k-th piece goes no further than this: some are passed rather
\* than read.
ReadableTo(at, k) == PieceAfter(at, k - 1) + Bill(at, k) - Bill(at, k - 1)

\* A length that runs past the end refuses the header: at once where one
\* field gives it, and where it is met by lha (level 1) and arj, who walk a
\* chain.
InChain == dump.format \in {"lha", "arj"}
Pieces(at) ==
    IF Intact(at) THEN Len(Parts(at))
    ELSE IF InChain THEN Max({k \in 0 .. Len(Parts(at)) : k > 0 => ReadableTo(at, k) <= End})
    ELSE 0

\* Each piece is charged before it is read (try_spend); one that does not
\* fit ends the reading, and what was paid stays paid.
Afforded(at, spent) == Max({k \in 0 .. Pieces(at) : spent + Bill(at, k) <= dump.allowance})
Judged(at, spent) == Afforded(at, spent) = Pieces(at)
Paid(at, spent) == spent + Bill(at, Afforded(at, spent))

(***************************************************************************)
(* What was told (SightingLog): the first LogCap offsets, and how many     *)
(* there were.                                                             *)
(***************************************************************************)
NoSightings == [stored |-> <<>>, total |-> 0]
FirstOf(offsets) == SubSeq(offsets, 1, Min({Len(offsets), LogCap}))
Push(log, at) == [stored |-> FirstOf(Append(log.stored, at)), total |-> log.total + 1]

(***************************************************************************)
(* The candidate a header gives, with the payload length it declares.      *)
(***************************************************************************)
\* cpio pads a name, and zoo puts a mark before a payload (SIZ_FLDR): a payload
\* may begin past the end.
FileMark == 1
Body(at) ==
    CASE dump.format = "cpio" -> at + Aligned(VariableEnd(at) - at)
      [] dump.format = "zoo" -> VariableEnd(at) + FileMark
      [] OTHER -> VariableEnd(at)

\* available_len: the bytes there are, when they are fewer than declared.
Whole(at, span) ==
    \/ span = Absent
    \/ Body(at) + span <= End
    \/ dump.format \in {"zoo", "lha", "arj"} /\ span = 0
Left(at, span) ==
    IF Whole(at, span) THEN Absent ELSE IF Body(at) > End THEN 0 ELSE End - Body(at)

Gives(at, span, indexed) ==
    [offset |-> at, body |-> Body(at), span |-> span, left |-> Left(at, span), indexed |-> indexed]

\* collect_candidates: a declared length that does not fit is not trusted.
EngineGoesTo(at) ==
    at + (IF Whole(at, Span(at)) /\ Span(at) > 0 THEN Span(at) ELSE 1)

(***************************************************************************)
(* cpio: nothing attests a size but what it lands on                       *)
(* (corroborates_the_size, zeros_to_eof).                                  *)
(***************************************************************************)
Landing(at) == Body(at) + Aligned(Span(at))

\* hunt.memo: where a run of zeros was read from -> where it ends, and
\* whether that is the end of the file.
RunBefore(from) == Max({start \in DOMAIN hunt.memo : start <= from})
Remembered(from) ==
    /\ \E start \in DOMAIN hunt.memo : start <= from
    /\ LET run == hunt.memo[RunBefore(from)]
       IN  from < run.end \/ (from = run.end /\ ~run.eof)
RecalledToEnd(from) == LET run == hunt.memo[RunBefore(from)] IN from < run.end /\ run.eof

\* The reading goes on to a byte that is not zero, a run already known, whose
\* record it takes over, or the end.
StopsAt(from) ==
    Min({End} \cup ((from .. End - 1) \ dump.zeros) \cup {start \in DOMAIN hunt.memo : start > from})
RunFrom(from) ==
    LET stop == StopsAt(from)
    IN  IF stop \in DOMAIN hunt.memo THEN hunt.memo[stop] ELSE [end |-> stop, eof |-> stop = End]
ZerosToEnd(from) == IF Remembered(from) THEN RecalledToEnd(from) ELSE RunFrom(from).eof
MemoAfter(from) ==
    IF Remembered(from) \/ StopsAt(from) = from THEN hunt.memo
    ELSE [start \in (DOMAIN hunt.memo \ {StopsAt(from)}) \cup {from} |->
            IF start = from THEN RunFrom(from) ELSE hunt.memo[start]]
ZerosRead(from) == IF Remembered(from) THEN {} ELSE from .. StopsAt(from) - 1

\* A whole payload's landing is looked at: a header there is paid for as any
\* other; zeros are followed unless one of the first MagicLen bytes is none.
HeaderThere(next) == next \in DOMAIN dump.headers
MayBePadding(next) ==
    /\ next < End /\ ~HeaderThere(next)
    /\ next + MagicLen > End \/ next .. next + MagicLen - 1 \subseteq dump.zeros
Backs(next, spent) ==
    \/ next >= End
    \/ HeaderThere(next) /\ Judged(next, spent) /\ Sound(next)
    \/ MayBePadding(next) /\ ZerosToEnd(next)
PaidToLook(next, spent) == IF HeaderThere(next) THEN Paid(next, spent) ELSE spent

(***************************************************************************)
(* One turn of next_candidate's loop, on the first header found.           *)
(***************************************************************************)
FirstHeader(hit) ==
    /\ hunt.stage = "search" /\ hit \in DOMAIN dump.headers /\ hit >= hunt.from
    /\ \A at \in DOMAIN dump.headers : at >= hunt.from => hit <= at

\* The search goes on one byte past a header it passes over.
PassesOver(hit, h) ==
    /\ hunt' = [h EXCEPT !.from = hit + 1]
    /\ UNCHANGED <<dump, recovered>>

\* It is read, and is no entry.
NoEntry(hit) == ~Sound(hit) \/ dump.headers[hit].is \in {"variant", "trailer"}
RefusesHeader(hit) ==
    /\ Judged(hit, hunt.spent) /\ NoEntry(hit)
    /\ LET paid == [hunt EXCEPT !.spent = Paid(hit, @)]
       IN  PassesOver(hit, IF Sound(hit) /\ dump.headers[hit].is = "variant"
                           THEN [paid EXCEPT !.variants = Push(@, hit)] ELSE paid)
    /\ UNCHANGED <<unjudged, zeroReads>>

\* It is told of, unless zip's directory names it and so may recover it yet.
InDirectory(at) == \E n \in DOMAIN dump.directory : dump.directory[n].at = at
Told(h, hit) ==
    IF InDirectory(hit) THEN [h EXCEPT !.held = Append(@, hit)]
    ELSE [h EXCEPT !.bounded = Push(@, hit)]
NotJudged(hit, h) == PassesOver(hit, Told(h, hit)) /\ unjudged' = unjudged \cup {hit}

LeavesUnjudged(hit) ==
    /\ ~Judged(hit, hunt.spent)
    /\ NotJudged(hit, [hunt EXCEPT !.spent = Paid(hit, @)])
    /\ UNCHANGED zeroReads

IsEntry(hit) == Judged(hit, hunt.spent) /\ ~NoEntry(hit)
FindsEntry(hit) ==
    /\ dump.format # "cpio" /\ IsEntry(hit)
    /\ recovered' = Append(recovered, Gives(hit, Span(hit), FALSE))
    /\ hunt' = [hunt EXCEPT !.spent = Paid(hit, @), !.from = EngineGoesTo(hit)]
    /\ UNCHANGED <<dump, unjudged, zeroReads>>

\* cpio's candidate_from: the landing is looked at, then a symlink's target,
\* which is its payload, is read; where that cannot be paid for the header is
\* not judged, whatever was paid and remembered.
FindsCpioEntry(hit) ==
    /\ dump.format = "cpio" /\ IsEntry(hit)
    /\ LET looks == Whole(hit, Span(hit))
           next == Landing(hit)
           backed == looks /\ Backs(next, Paid(hit, hunt.spent))
           asked == looks /\ MayBePadding(next)
           spent == IF looks THEN PaidToLook(next, Paid(hit, hunt.spent)) ELSE Paid(hit, hunt.spent)
           target == IF dump.headers[hit].is = "symlink" /\ looks THEN Span(hit) ELSE 0
           h == [hunt EXCEPT !.spent = spent, !.memo = IF asked THEN MemoAfter(next) ELSE @]
       IN  /\ zeroReads' = [i \in DOMAIN zeroReads |->
                              zeroReads[i] + (IF asked /\ i \in ZerosRead(next) THEN 1 ELSE 0)]
           /\ \/ spent + target > dump.allowance /\ NotJudged(hit, h)
              \/ /\ spent + target <= dump.allowance
                 /\ recovered' = Append(recovered, Gives(hit, Span(hit), FALSE))
                 /\ hunt' = [h EXCEPT !.spent = @ + target,
                                      !.from = IF backed THEN next ELSE hit + 1]
                 /\ UNCHANGED <<dump, unjudged>>

\* zip goes on to its directory (salvage_zip).
EndsSearch ==
    /\ hunt.stage = "search" /\ \A at \in DOMAIN dump.headers : at < hunt.from
    /\ hunt' = [hunt EXCEPT !.stage = IF dump.format = "zip" THEN "directory" ELSE "done"]
    /\ UNCHANGED <<dump, recovered, unjudged, zeroReads>>

RecoveredAt == {recovered[n].offset : n \in DOMAIN recovered}

\* One record: a header is there, whatever the gate said of it, and no
\* candidate is (candidate_from_cd_record).
Reconciles ==
    /\ hunt.stage = "directory" /\ hunt.row <= Len(dump.directory)
    /\ LET record == dump.directory[hunt.row]
       IN  recovered' =
             IF record.at \notin RecoveredAt /\ HeaderThere(record.at) /\ Intact(record.at)
             THEN Append(recovered, Gives(record.at, record.span, TRUE)) ELSE recovered
    /\ hunt' = [hunt EXCEPT !.row = @ + 1]
    /\ UNCHANGED <<dump, unjudged, zeroReads>>

\* The candidates in file order (a stable sort), and what was held back of
\* the sightings and is not recovered merged into them (budget_sightings):
\* the lowest offsets are stored.
InFileOrder ==
    LET Before(j, k) == \/ recovered[j].offset < recovered[k].offset
                        \/ recovered[j].offset = recovered[k].offset /\ j < k
        orders == {f \in [DOMAIN recovered -> DOMAIN recovered] :
                     \A j, k \in DOMAIN recovered : j < k => Before(f[j], f[k])}
    IN  {[k \in DOMAIN recovered |-> recovered[f[k]]] : f \in orders}

Lowest(S) ==
    {s \in [1 .. Min({Cardinality(S), LogCap}) -> S] :
        /\ \A j, k \in DOMAIN s : j < k => s[j] < s[k]
        /\ \A x \in S, k \in DOMAIN s : x <= s[k] => x \in ToSet(s)}

\* Variant: a header is told of although the directory recovered it.
EveryHeld == ToSet(hunt.held)

StillHeld == {at \in ToSet(hunt.held) : at \notin RecoveredAt}
Merged ==
    IF StillHeld = {} THEN {hunt.bounded}
    ELSE {[stored |-> lowest, total |-> hunt.bounded.total + Cardinality(StillHeld)] :
             lowest \in Lowest(StillHeld \cup ToSet(hunt.bounded.stored))}
Concludes ==
    /\ hunt.stage = "directory" /\ hunt.row > Len(dump.directory)
    /\ recovered' \in InFileOrder
    /\ \E log \in Merged : hunt' = [hunt EXCEPT !.bounded = log, !.stage = "done"]
    /\ UNCHANGED <<dump, unjudged, zeroReads>>

HuntStart ==
    /\ hunt = [from |-> 0, spent |-> 0, bounded |-> NoSightings, variants |-> NoSightings,
               held |-> <<>>, memo |-> <<>>, row |-> 1, stage |-> "search"]
    /\ recovered = <<>> /\ unjudged = {}
    /\ zeroReads = [i \in 0 .. End - 1 |-> 0]

HuntNext ==
    \/ \E hit \in DOMAIN dump.headers :
        /\ FirstHeader(hit)
        /\ RefusesHeader(hit) \/ LeavesUnjudged(hit) \/ FindsEntry(hit) \/ FindsCpioEntry(hit)
    \/ EndsSearch \/ Reconciles \/ Concludes

HuntSpec == dump \in Dumps /\ HuntStart /\ [][HuntNext]_hunting

(***************************************************************************)
(* Properties.                                                             *)
(***************************************************************************)
HuntTypeOK ==
    /\ hunt.from \in 0 .. End + Align - 1 /\ hunt.spent \in 0 .. dump.allowance
    /\ hunt.stage \in {"search", "directory", "done"}
    /\ \A log \in {hunt.bounded, hunt.variants} :
          log.stored \in Seq(Places) /\ log.total \in Nat /\ Len(log.stored) <= LogCap
    /\ unjudged \subseteq Places /\ ToSet(hunt.held) \subseteq unjudged

\* Some candidate's payload was jumped over p: all of it was there, and, for
\* cpio, what it lands on is a header, padding to the end, or the end.
JumpedOver(p) ==
    \E n \in DOMAIN recovered :
        LET c == recovered[n]
            next == c.body + Aligned(c.span)
        IN  /\ ~c.indexed /\ c.left = Absent /\ p > c.offset
            /\ IF dump.format = "cpio"
               THEN /\ p < next
                    /\ \/ next >= End
                       \/ HeaderThere(next) /\ Sound(next)
                       \/ next .. End - 1 \subseteq dump.zeros
               ELSE p < c.offset + c.span

\* No header is within what another spans.
Extent(at) == at .. Body(at) + (IF dump.format = "cpio" THEN Aligned(Span(at))
                                ELSE IF Span(at) = Absent THEN 0 ELSE Span(at)) - 1
Healthy ==
    \A at, b \in DOMAIN dump.headers : at # b => Extent(at) \cap Extent(b) = {}

\* No entry is lost silently: each header the search has passed that is an
\* entry's is a candidate, or was left unjudged and is told of, or was within
\* a payload jumped for good reason (salvage.rs:1650).
EntriesFoundOrTold ==
    \A p \in DOMAIN dump.headers :
        ~(hunt.stage = "search" /\ p >= hunt.from) /\ Sound(p)
        /\ dump.headers[p].is \in {"entry", "symlink"}
            => p \in RecoveredAt \/ p \in unjudged \/ JumpedOver(p)

\* So is each header this build has no gate for.
VariantsCounted ==
    hunt.stage = "done" =>
        Cardinality({p \in DOMAIN dump.headers : /\ Sound(p) /\ dump.headers[p].is = "variant"
                                                 /\ p \notin unjudged /\ ~JumpedOver(p)})
            <= hunt.variants.total

\* Every unjudged header is counted that zip's directory did not recover, and
\* the first are named (zip_salvage.rs:1040 "filtered BEFORE the cap, so the
\* count stays exact").
SightingsExact ==
    hunt.stage = "done" =>
        LET silent == unjudged \ RecoveredAt
        IN  /\ hunt.bounded.total = Cardinality(silent)
            /\ hunt.bounded.stored \in Lowest(silent)

\* What a directory's record names is recovered where a header is, and no
\* header twice, in file order.
DirectoryRecovered ==
    hunt.stage = "done" =>
      /\ \A n \in DOMAIN dump.directory :
            LET at == dump.directory[n].at
            IN  HeaderThere(at) /\ Intact(at) => at \in RecoveredAt
      /\ \A n \in 1 .. Len(recovered) - 1 : recovered[n].offset < recovered[n + 1].offset

\* An archive whose headers are apart is judged to its last header within
\* what ScanBudget gives it: no byte behind a header is charged for more than
\* twice, although cpio pays for a name where it looks and again where it
\* reads.
HealthyWithinBudget ==
    Healthy =>
      /\ hunt.spent <= 2 * (End - Fixed * Cardinality(DOMAIN dump.headers))
      /\ dump.allowance = 2 * End => unjudged = {}

\* What is remembered of the zeros is true, and none is read twice, however
\* many payloads land among them (cpio_salvage.rs:669 "a zero byte is read at
\* most once").
ZerosReadOnce ==
    /\ \A start \in DOMAIN hunt.memo :
          LET run == hunt.memo[start]
          IN  /\ start < run.end /\ start .. run.end - 1 \subseteq dump.zeros
              /\ run.eof <=> run.end = End
              /\ ~run.eof => run.end \notin dump.zeros
    /\ \A i \in DOMAIN zeroReads : zeroReads[i] <= 1

\* Fewer bytes are there than a truncated entry declares (Candidate's
\* available_len); cpio's padding may begin past the end.
FewerThanDeclared ==
    \A n \in DOMAIN recovered :
        LET c == recovered[n]
        IN  c.left # Absent => c.left < c.span \/ (dump.format = "cpio" /\ c.body > End)

HeadersNoneLost ==
    /\ EntriesFoundOrTold /\ VariantsCounted /\ SightingsExact /\ DirectoryRecovered
    /\ HealthyWithinBudget /\ ZerosReadOnce /\ FewerThanDeclared
=============================================================================
