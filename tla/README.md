# A formal model of stuffr

stuffr compresses, decompresses, packs, unpacks, salvages, lists and converts
archives, and ships *personalities*: programs that behave as `gzip`, `xz`,
`bzip2`, `zstd`, `compress`, `zip`, `zipsplit` and others do. Most of it is
sequential code over bytes. What is hard to test in it is elsewhere: in what a
signal, a crash, a second program or a second thread can find half done, in
counters shared by threads, in what a damaged or contradictory archive makes of
a long run, and in what a file system that folds names makes of a record of it.
This project models those parts in TLA+, checks them with TLC and proves the
central ones with TLAPS.

Paths below are relative to the repository's root, where `crates/` holds
`stuffr-core`, `stuffr-formats`, `stuffr` (the library) and `stuffr-cli`.

## The system's parts

| Part | Code | State it keeps | Operations | What makes it correct | Modules |
|---|---|---|---|---|---|
| Worker and memory governor | `stuffr-core/src/governor/mod.rs` | `workers_out`, `bytes_out` under one mutex; the live `LeaseSet`s | `acquire_many`, `acquire`, `try_acquire`, `LeaseSet::drop` | the counters are the sum of the leases; no wakeup is lost; every call returns; memory bounds voluntary parallelism | `CorePool`, `Governor` |
| Thread budget | `governor/budget.rs`, `cgroup.rs` | none | `resolve_workers`, the quotas, the memory limit | a fixed precedence; never zero workers; never more than a control group gives | `ThreadBudget` |
| Signal slot | `stuffr-cli/src/compat/host.rs` 140-279 | `state`, `readers[2]`, `bufs[2]` | `publish`, `disarm`, `read` (in a handler) | no read overlaps a write; after `disarm` nobody acts on the value | `SignalSlot`, `HandlerSlot` |
| Compat output lifecycle | `host.rs`; `gzip/gnu`, `gzip/bsd`, `xz`, `zstd`, `bzip2`, `ncompress` | the armed path, the temporary, the blocked signals, bzip2's flag | create and arm, write, publish, discard, remove the input, disarm; the handlers | each file exists as its input or its whole output; nothing stranded; nobody else's file touched | `Conversion`, `ArmedOutput` (partly) |
| Zip archive replacement | `compat/zip/sink.rs`, `update.rs`, `split.rs` | the archive, the armed temporary, held signals | `mkstemp`, `replace`, `copy_over`, the drops | the archive is whole under one of two names at every step | `ZipReplace` (partly) |
| zipsplit's parts | `compat/zip/zipsplit.rs`, `host.rs` 766-880 | `Made`, and the two words its handler reads | `make_part`, `create_part`, `redo`, `Made::destroy`, the handler | all of the parts or none, however it ends | `ZipSplit`, `ZipTools` |
| Output of stuffr's own verbs | `stuffr/src/ops.rs` | temporaries, `NEXT_TMP`, the destination | `create`, `create_temp_file`, `publish`, `discard` | never a torn destination; what was synced survives | `AtomicOutput` (partly) |
| pack | `stuffr/src/walk.rs`, `entries.rs` `create_archive` | the walk's stack, the plan, the reader of one file | list, examine, plan, open, read, end | what stood still is stored as it is or named; no healthy archive replaced by nothing | `Pack`, `Outputs` (partly) |
| Link cache | `stuffr/src/link_cache.rs` | kept payloads, running counters, eviction order | `wants`, `spool`, `keep`, `keep_empty`, `copy_of`, `link_seen`, `forget` | within its policy; counters exact; oldest first | `LinkCache` |
| convert's entry loop | `stuffr/src/entries.rs` 4696-4910 | the cache, `written`, `symlinks` | one turn per entry | a link stands for what the source means by its target | `ConvertLinks`, `Convert` (partly) |
| Archive budget and ratio guard | `entries.rs` 30-160, `source/limit.rs` | bytes tallied, produced, charged; the failure kept | `charge`, `EntryPayload`, `RatioGuard`, `DrainAtEnd` | no missed or double charge; a damaged payload is never reported as read | `ReadPath` |
| Spilling source | `stuffr-core/src/source/spill.rs` | a spool in memory, then in a file | `materialize`, `push` | within its two limits | `ReadPath` |
| Capability ladder | `stuffr-core/src/ladder.rs` | the rung taken | `resolve` | an archive is opened in a way its container supports | `ReadPath` (partly) |
| Extraction (unpack) | `entries.rs` 5882-6505 | `MadeByRun`, pending directory modes | `place`, links, modes | nothing outside the root, nothing held taken away, no record of a file that is gone | `Destination`, `Extract`, `Unpacking` |
| Salvage placement | `entries.rs` 2184-3490 | `Claimed`, `MadeByRun` | placement of each record, disambiguation | what is told as recovered is there, whole unless told partial | `Salvage` (partly) |
| Salvage scan of a tar | `stuffr-formats/src/tar_salvage.rs` | the search position, the counts per header, three logs | `next_candidate`, `gate_chain_at` | no entry lost silently; forged chains read a bounded number of times | `TarSalvage` |
| Salvage scans of zip, zoo, lha, arj, arc and cpio | `stuffr-formats/src/zip_salvage.rs`, `cpio_salvage.rs`, `legacy/{zoo,lha,arj,arc}_salvage.rs` | the search position, what is spent, two logs, the zeros remembered | each `next_candidate`, `zeros_to_eof`, `salvage_zip` | no entry lost silently, within the budget; sightings exact; a zero read once | `HeaderScan` (partly) |
| Salvage engine | `stuffr-core/src/salvage.rs` | the candidates | `collect_candidates`, `ScanBudget`, `SightingLog`, `annotate_candidates` | each annotation is true of the whole list | `TarSalvage`, `HeaderScan`, `Annotation` (partly) |
| Other source wrappers; registry and probing; quarantine attribute; other compat signal handling; outputs of `lz4`, `brotli` and Apple `compress`; the rest of the zip and unzip personalities; the scanner of ar; command line, listing, benchmarks; codecs and containers | | | | | not modelled |

How they meet. A verb in `stuffr` opens its destination through `Output::create`
(`AtomicOutput`), asks the governor for workers when the codec can use them
(`Governor`, made with what `ThreadBudget` resolves), reads an archive through
the ladder and its budgets (`ReadPath`), and, when it converts, drives the link
cache (`ConvertLinks` over `LinkCache`). `unpack` and `salvage` write into a
directory through one set of rules, `place` and `MadeByRun` (`Destination`);
`salvage` first scans the whole archive (`TarSalvage`, `HeaderScan`), annotates what it found
(`Annotation`) and then places it (`Salvage`). A personality opens its output
through `host.rs`: `held_back` blocks the signals, `create_temp_armed` creates a
file and publishes its path into the slot (`HandlerSlot`), the tool writes,
`publish` gives the file its name, and a guard's drop disarms. A handler may
interrupt any of this on any thread that does not block the signal; it takes the
path from the slot, unlinks it and ends the process. Codec worker threads do not
block the signals, so "any thread" is meant.

## The modules

```
CorePool   <== refined by == Governor          Totals (sums)   ThreadBudget (operators)
SignalSlot <== refined by == HandlerSlot       used by ArmedOutput and ZipReplace
Conversion <== refined by == ArmedOutput
ZipReplace , ZipSplit          composed by ZipTools
AtomicOutput , Pack            composed by Outputs
LinkCache <- ConvertLinks , ReadPath           composed by Convert
Destination <- Extract , Salvage ; TarSalvage , HeaderScan   composed by Verbs
Annotation (operators)
Unpacking  <== refined by == Verbs (its unpack)
proofs: GovernorProofs, HandlerSlotProofs, ArmedOutputProofs, ZipToolsProofs,
        OutputsProofs, ConvertProofs, ScanProofs <- VerbsProofs
instances for TLC: MC*
```

The compositions of the second kind (`ZipTools`, `Outputs`, `Convert`, `Verbs`)
are of programs that share a handler, a destination, a cache or a set of rules
but not a run: an initial state chooses which of them runs.

**CorePool, Governor.** `CorePool` is what the governor promises: so many cores,
taken and given back, never more than there are. `Governor` is the code: a
critical section of the mutex is one action, and waiting is two (fall asleep
inside the critical section, wake and run the loop body again), so that every
order of check, sleep, notification and spurious wakeup happens. `Grant` is the
clamp of `acquire_many`, the one-worker floor included, and arithmetic saturates
at `U64Max` as the code's does. A unit asks again only after it gave its lease
back, which is how the codecs use the governor; the code's comment forbids a
thread to ask while it holds. A drop may forget bytes when the counter had
saturated; the history variable of the leases is what the invariants compare
the counters with.

**ThreadBudget.** Pure operators: the first source with an opinion, half of what
the host and the control groups give otherwise, whole CPUs from a quota and a
period, a quarter of the least memory. `MCGovernor` compares them with what
their documentation asks, over every small input (`BudgetAsDocumented`,
`QuotaAsDocumented`, `MemoryAsDocumented`, evaluated at the start of the run
`governor`).

**SignalSlot, HandlerSlot.** `SignalSlot` is the slot its users think of: one
armed value or none; `Take` in a handler takes it; a disarm returns only when
nobody acts on it. `HandlerSlot` is the double buffer with its reader counts.
Every atomic access is `SeqCst` in the code, hence one action each, freely
interleaved; filling and reading a buffer are spans of states, and a buffer
being filled holds `Torn`. A handler on the writer's own thread runs to
completion over it (`WriterRuns`). Calls of `publish` and `disarm` come in any
order, as any caller might make them.

**Conversion, ArmedOutput.** `Conversion` says, of each file, that its input
goes only when its output is there and stays. `ArmedOutput` is a run of a tool
over its operands, one action per system call, for both `gzip`s, `xz`, `zstd`,
`bzip2` and `ncompress`. The tools differ in where the output is written (a
temporary, or its own name), how it is published (hard link or rename), when it
is disarmed (before or after the input is removed) and in `bzip2`'s handler,
which only sets a flag that the run polls; each difference is a guard of an
action, so that a path through the actions is a tool's code. The slot is used
through `SignalSlot`'s actions, which `HandlerSlotProofs` shows the real one
implements. Handlers run on the main thread and on a codec worker, `Killed` may
strike at any step, and `OtherCreates` is another program making the output's
name. Failing calls are modelled where the code reacts to them (creation,
writing, publishing, the unlink of a temporary a handler took).

**ZipReplace, ZipSplit, ZipTools.** `ZipReplace` is the last step of `zip`, and
each part of a `-sp` archive: the removal and rename, the copy over a shared
archive or across devices, the failures at each call, the held signals and the
disarm inside the hold. `ZipSplit` is `zipsplit`: names made in place, counted
once by the run and once in two words the handler forms the names from, the
count taken before the file is made and taken back when the name is a link
(deviation 32), `-p`'s redo, and the removal of everything by `Made::destroy` or
by the handler. Both have one thread, so their handler runs over it, and both
share that handler (`on_zip_abort`), hence `ZipTools`.

**AtomicOutput, Pack, Outputs.** `AtomicOutput` is calls of one process that
write one destination. The file system is two copies, what the program sees and
what is durable; the second follows the first in any order, name by name and
file by file, except where the code fsyncs. `Killed` ends the process, `Crash`
the machine. Only a destination that is absent or a regular file is modelled:
any other is written through in place, for which the code promises nothing. The
fsync's second handle is the only thing that can fail between creation and
writing, and a failing fsync returns, as in the code, with the temporary in
place. `Pack` is `pack`: the walk of each path named, one action per system
call, the sifting of what it found, the guard against an archive of nothing, and
each file's open, reads and end against the length the header promised, while
another program grows, cuts, removes, replaces and renames what is walked. The
archive itself may lie in the tree, under its name, a hard link or a symlink;
`opened` is the file a destination that is a link is written through.

**LinkCache, ConvertLinks, ReadPath, Convert.** `LinkCache` is operators, each a
method of the code from cache to cache. `ConvertLinks` is `convert_entries` over
every source of `MaxEntries` entries: files, directories, symlinks, special
files and hard links, names repeated freely. A payload is an id; two ghost
variables, `meaning` and `stored`, say what the source means by a name and what
the output holds under it. An entry is one step, but a file's payload passes
unit by unit through the tee, whose spool may overflow its memory into a
temporary file, overflow its room or fail. `ReadPath` is the reading under every
verb: the file's bytes tallied as the codec takes them, the ratio guard over the
decoded stream, the rung of the ladder the container is opened on, the spool
with its two limits, each payload held to its declared length and charged as it
passes, the failure that travels outward, and the drain to the codec's own check
after the last entry. Abstractions: a name's bytes cost one constant `Overhead`;
the container's capabilities are a record (`caps`); the declared length may be
`Unknown`, an arm that the shipped readers do not take for a file with a payload
and the instances leave out; `cat`, which drives the cache in the same order, is
not repeated.

**Destination, Extract, Unpacking, Salvage, Verbs.** `Destination` is a tree of
names over inodes, on a file system that may fold names and reuses an inode once
no name holds it, with the record a run keeps of what it made (`MadeByRun`) and
the one owner of what may sit at an entry's path (`place`). `Extract` is
`unpack`: one action per arm of the loop over the entries, then the deferred
modes of directories, deepest first, while another program may move a directory
this run made away and put its own, or a symlink, in its place. `Unpacking` is
what that promises to someone who sees names and contents only, and
`ImplementsUnpacking` says that `Extract` starts as it does and that each of its
steps is one of the promise's.
`Salvage` is what becomes of each record a scan found: declined, placed,
disambiguated (`NAME.salvaged-N`), partial, failed. `Verbs` composes them with
the scans.

**TarSalvage, HeaderScan, Annotation.** A damaged tar is what its bytes read as wherever a
block's checksum agrees: a header, an extension of the header that follows it, a
header no gate admits, or a shifted copy. `TarSalvage` is `next_candidate` under
`collect_candidates`: one action per way a turn of its loop can end, with the
chains of extensions walked by their headers before a payload is read, the
counts per header dropped once the search has passed it, the budget, the cap on
what is tracked, and the three logs with their pending and settled parts.
`HeaderScan` is the loop that zip, zoo, lha, arj, arc and cpio share. A damaged archive
is its headers, each with the pieces its verdict reads, what each piece is charged,
what the header turns out to be and how long a payload it declares; one action per
way a turn of the loop can end. A header that cannot be paid for is left unjudged
and told of. cpio jumps a payload only to what backs its size (a sound header,
zeros to the end, or the end) and remembers the zeros it read; zip then asks its
central directory for what the scan did not recover, and holds back the sightings
of headers the directory names until it has. `ScanBudget` gives twice the archive's
length; a smaller allowance stands for a longer archive whose earlier headers spent
the rest. `Annotation` is `annotate_candidates` as a fold, checked against a reference
definition on every list of up to three candidates (`AnnotationHolds`).

In each module the definitions that a comment calls a *variant* are plausible
wrong versions of the definition that follows. They are not part of the
specification: each is used to check that a property would notice.

## What is checked

| Run | Instance | What it shows |
|---|---|---|
| `governor` | 3 units over 4 workers and 3 bytes, a "u64" of 5; wants of 2 or 4 workers at 0, 1 or 4 bytes each; 2 calls a unit | types, `NothingReservedTwice` (two floor grants overflow the counter), `NoLostWakeup`, `VoluntaryWithinBudget` (several-worker grants never pass the limit, although the floor may), `EveryCallIsServed`, `ImplementsPool`; and the three assumptions about `ThreadBudget` |
| `slot` | handlers on the writer's thread and one worker, 2 values, 3 tries | types, `WrittenAlone`, `QuietOnceDisarmed`, `ImplementsSignalSlot`, `EveryoneReturns` |
| `output_tools` | the six tools, `-f`, `-k`, hard links or none; 2 operands, 2 temporary names, 2 threads | types, `StrandedOnlyUnarmed`, `ImplementsConversion`, `NotItsToRemove`, `RunEnds` |
| `zip_replace` | `zip` over one archive, or two parts, absent, alone or shared; `zipsplit` over an index and 2 parts, `-i` and `-p`, names free, taken, locked or links | types, `ArchiveKept` at every step, so after a crash there too, `AnsweredWhole` for an interrupt, `LastFailureKeepsNew`, `SplitAllOrNothing` |
| `outputs` | 2 calls, leftovers 0 and 1 of 4 numbers, 3 attempts, `--no-sync` and `--force` each way; and `pack` over four kinds of small tree, changed up to twice | types, `NeverTorn`, `DurableOnceSynced`, `NeverLockedOut`, `KeptWithoutForce`; for pack `PackedAsFound` |
| `convert` | a tar into a zip, a cpio into an ar or a tar: 3 names, 5 entries, payloads of 0, 1 and 3, 1 file; and archives of up to 2 entries read from a file or a pipe, under a codec or bare | types, `WithinPolicy` (the counters exact, too), `NeverDangling`, `CopiedAsMeant`, `ReadAsPromised` |
| `verbs` | `unpack` of every archive of 3 entries from a list of 23 and `salvage` of every scan of 3 records from 11, 4 inodes, folding and not, `--force` and not, over a destination that is empty or holds a file, a directory or the archive; scans of tapes of 9 bytes with up to 4 agreeing blocks of 2 bytes, every limit 1; scans of archives of 7 bytes in six other formats, with up to 3 headers of 3 to 6 kinds, zip with four directories, cpio with five layouts of zeros, and a budget that is full or 3 bytes or 2 | types, `NothingTakenAway`, `ImplementsUnpacking`, `ModesSurviveTheirParents`; for the scans `NoneLostSilently`, and for tar's `ChainReadsBounded`, `SpentStaysSpent`; and `AnnotationHolds` |

`governor` and `verbs` take two to three minutes on two cores, `convert` and
`outputs` about one, the others less.

The properties that are conjunctions are so because their parts are about one
promise. `PackedAsFound` is: what stood still is stored as it is, or named for a
reason there is (`KeptOrTold`); a file stored without a word is, byte for byte,
what one file held, all of it if nobody wrote to a file, and no mere beginning of
what it held at the end (`WholeOrTold`); entries come in their order whatever the file
system lists first (`InOrder`); a file's change never fails the run, nor is an
undisturbed run refused but for a path that cannot be stored (`Steadfast`); a
healthy archive is not replaced by an empty one (`Worthwhile`); hard links are
counted once (`LinksTold`). `NothingTakenAway` is what the destination held
(`KeptWhatWasHeld`) and what was recovered into it (`RecoveredKept`).
`NoneLostSilently` is, for a tar, that every entry is found or its header is in a
log (`TarNoneLost`); for the other formats, that every entry's header the search
passed is found, told of, or within a payload jumped for good reason
(`EntriesFoundOrTold`), that headers of a kind this build cannot open are counted
(`VariantsCounted`), that the sightings are exactly what was left unjudged and not
recovered (`SightingsExact`), that what zip's directory names is recovered, once
and in order (`DirectoryRecovered`), that an archive whose headers are apart is
judged to its last header within the budget (`HealthyWithinBudget`), that no zero
is read twice (`ZerosReadOnce`) and that a truncated payload is told as less than
declared (`FewerThanDeclared`).

Five runs show a disagreement between the code and what it says of itself; each
checks one property, and TLC finds the counterexample.

| Run | Property | What the code does |
|---|---|---|
| `output_ncompress_stranded` | `NothingStranded` | ncompress disarms an output it gives up before it removes it (`ncompress/run.rs:455`): a signal in between exits 1 with the output left |
| `zip_split_failed` | `FailureKeepsNew` | a failed replace of a part before the last keeps its temporary, and `SplitW`'s drop then removes it (`split.rs:344`): the old part may be unlinked or cut, and the new one is gone |
| `atomic_stranded` | `FailureLeavesNothing` | a failed fsync, or handle clone, returns without removing the temporary (`ops.rs:638`, `ops.rs:443`) |
| `convert_totar_stale` | `WrittenAsMeant` | into a tar, a link whose target's latest entry was skipped is stored as a link to an older entry of that name (`entries.rs:4821`) |
| `salvage_short` | `KeptWhole` | a record the scan proved whole, placed beside a taken name, is kept cut and told as whole when its second decode falls short (`entries.rs:3441`) |

The passing runs still check as much as holds beside these: `StrandedOnlyUnarmed`
names the windows in which something may be left (ncompress's; `xz`'s probe of
the output's name, `xz/file_io.rs:788`, which stands unarmed until it is
removed; and what a fatal error of zstd's leaves), and `Destroyed` in
`ZipReplace` names the parts `SplitW` removes. `NotItsToRemove` names one more: ncompress removes an output that
gained nothing while it is still armed, so a signal just after unlinks whatever
another program has created there. `AnsweredWhole` leaves out the window in
which zip, having disarmed an archive it gives up, has yet to remove its
temporary. `SplitAllOrNothing` leaves out `Mistaken`: between a link's being
found and its count's being taken back (`zipsplit.rs:457-467`) an interrupt
removes the link that deviation 32 says is left. `RecoveredKept` leaves whether
the bytes are whole to what the record's name says, `salvage_short` aside.

### Why the bounds are enough

- *Governor.* Two units suffice for a lost wakeup, three for one wakeup spent on
  the wrong sleeper; a second call per unit meets the counters another left. The
  saturating counter needs two grants above it. The proofs remove all bounds.
- *Slot.* The overwrite needs a handler stalled across two publishes, and the
  retreat more than one try; one worker's handler does both. More handlers only
  raise a count, and the proofs take any number.
- *Outputs of the tools.* The second operand reuses the slot and the thread's
  state after the first; two temporary names let one be taken. A worker beside
  the main thread is the least that makes a handler run while the main thread
  does. The proofs take any number of each.
- *Zip.* An index and two parts let one be whole, one at hand; the removal runs
  over both. The proofs take any number of parts.
- *Atomic outputs.* Two calls meet at the name and at the destination; leftovers
  are fewer than the attempts, as the assumption states. In the code
  `MAX_TMP_ATTEMPTS` is large; what matters is that it exceeds the leftovers.
- *Pack.* Each tree holds one case of each kind the walk tells apart (a file, a
  directory, a link to each, a special file, what cannot be listed, examined,
  read or named); two changes let a file be swapped between its stat and its
  open and again before its end.
- *Convert.* Three names and five entries let a target be superseded, evicted
  and linked twice. Sizes are chosen around the policy: empty, small, and one
  that two of cannot be held. A second entry meets what the first left in the
  tallies, and `TallyMax` is passed by the sums.
- *Verbs.* A third entry meets a name the first made and the second replaced,
  folded or linked. Four inodes let one be freed and reused while a record of it
  is held. Limits of one are what make every refusal happen on a tape of four
  blocks; the two bounds on chains are proved for any. Three headers let one be
  jumped, one be where a payload lands and one be left unjudged after both; seven
  bytes hold three headers with a name and a payload each.

`SYMMETRY` is used in runs without liveness properties only (units, calls,
names, parts, inodes): the modules treat those values alike. `CHECK_DEADLOCK
FALSE` is said where a system simply ends: the calls of `AtomicOutput` have
returned, the source of `ConvertLinks` is exhausted, the verb is over. Elsewhere
the end is an explicit stutter (`Finished`, `Ended`) and deadlock is checked.

### Fairness

- *Governor*: weak fairness of taking the lock and of giving a lease back. The
  scheduler runs a ready thread, and a lease goes when its codec is dropped.
  Nothing obliges a unit to ask, and spurious wakeups are nobody's duty. That
  `EveryCallIsServed` needs no strong fairness rests on the bounded number of
  calls: with ever new callers, a condition variable promises a waiter nothing.
- *Slot*: weak fairness of the writer's steps inside `publish` and `disarm` and
  of each handler's steps: running threads progress. None for the calls or for
  the delivery of signals.
- *Outputs of the tools*: weak fairness of the main thread, of joining the
  workers and of each handler.

The other modules state no liveness: their programs are loops over finite input
in one thread, and what ends them is their input.

## What is proved

All proofs are by `tlapm`, for every value of the constants that satisfies the
modules' named assumptions (for example `GovernorAssumption`: finitely many
units, at least one worker).

| Module | Theorem | Statement |
|---|---|---|
| `GovernorProofs` | `TypeCorrect`, `WorkersNeverOutnumberThePool`, `NoPhantomReservation`, `NoWakeupIsLost`, `VoluntaryStaysWithinBudget` | the invariants `TypeOK`, `WorkersAccounted`, `NothingReservedTwice`, `NoLostWakeup`, `VoluntaryWithinBudget` |
| | `GovernorImplementsPool` | `Spec => ImplementsPool` |
| | `BudgetIsNeverZero` | whatever the sources say, the budget is at least one worker |
| `HandlerSlotProofs` | `SlotTypeCorrect`, `FillIsExclusive`, `NothingReadTorn`, `DisarmIsFinal` | the invariants `TypeOK`, `WrittenAlone`, `ReadsWhole`, `QuietOnceDisarmed` |
| | `BufferHoldsStill`, `SlotImplementsSignalSlot` | the action property `ReadIsStable`, and the refinement |
| `ArmedOutputProofs` | `OutputTypeCorrect`, `StrandsOnlyUnarmed` | the invariants `TypeOK`, `StrandedOnlyUnarmed` |
| | `RemovesOnlyItsOwn`, `OutputImplementsConversion` | the action property `NotItsToRemove`, and the refinement |
| `ZipToolsProofs` | `ToolsTypeCorrect`, `ArchiveAlwaysKept`, `AnsweredAlwaysWhole`, `FailureAlwaysKeepsNew`, `SplitLeavesAllOrNothing` | the five properties of `zip_replace` |
| `OutputsProofs` | `NoTornDestination`, `NeverReplacedUnforced` | `NeverTorn`, `KeptWithoutForce` |
| | `AtomicTypes`, `SyncedOutlivesCrash`, `LeftoversLockNobodyOut` | `TypeOK`, `DurableOnceSynced`, and `NeverLockedOut` when the numbers are the naturals |
| | `PackTyped`, `PackPacksWhatItFinds` | of `pack`, `PackTypeOK` and all six parts of `PackedAsFound` |
| `ConvertProofs` | `ConvertTyped`, `CacheWithinPolicy`, `NoLinkDangles`, `LinksCopiedAsMeant`, `ArchivesReadAsPromised` | the five properties of `convert`: `ConvertTypeOK`, `WithinPolicy`, `NeverDangling`, `CopiedAsMeant`, `ReadAsPromised` |
| `ScanProofs` | `TarTypes`, `TarLosesNone` | of a tar's scan by itself, `ScanTypeOK` and `TarNoneLost` |
| | `ChainReads`, `Spent` | `ChainReadsBounded`, `SpentStaysSpent` |
| | `HuntTypes`, `HeadersLoseNone` | of a scan for headers by itself, `HuntTypeOK` and all seven parts of `HeadersNoneLost` |
| | `BudgetIsKept` | no more is charged than the budget allows |
| `VerbsProofs` | `VerbsInvariant`, `NothingIsTakenAway`, `ParentsWaitForChildren` | `NothingTakenAway` and the invariant it follows from; `ModesSurviveTheirParents` |
| | `UnpackKeepsItsPromise` | `Spec => ImplementsUnpacking` |
| | `VerbsTyped`, `NoScanLosesSilently` | `TypeOK` and `NoneLostSilently` of `Verbs`, whatever it runs |

The arguments:

- *Governor.* The invariants speak of sums over the units. `Totals` defines the
  sum as the size of a set of parts, and lemmas say what a change of one share
  does to it. With these, each action keeps the counter
  equal to the sum of the leases (at most equal to it, for the saturating
  bytes). `NoLostWakeup` follows because a sleeper went to sleep with no worker
  free and every drop wakes everyone. For `VoluntaryWithinBudget`, a counter
  that has forgotten bytes does not agree with the leases again before they are
  gone.
- *Slot.* The properties are not inductive. `SlotInv` adds that each reader count
  is exactly the number of handlers between increment and decrement, that a
  handler inside its loop still has tries left, that the writer fills a buffer
  that is not published and nobody reads, and which buffers a reader may be on
  given where the writer is: after `publish` has switched, readers of the other
  buffer may remain; during `disarm`, readers of a buffer already waited for may
  not. The refinement then follows step by step: `publish`'s store is the
  abstract `Arm`, clearing the bit is `Disarm`, the end of the second wait is
  `Disarmed`, the passed second check is `Take`.
- *Outputs of the tools.* `IInv` says, place by place of the main thread, what is
  armed (`SlotInv`), which threads may have a signal on its way (`SignalInv`),
  which tools come there (`PlaceInv`), where a temporary, a partial and a whole
  output may be (`TempInv`, `PartialInv`, `WholeInv`, `OutputInv`), and that an
  input is gone only once its output is no longer at stake (`InputInv`). `EndInv`
  is then inductive: a handler that has done its work has left nothing, and the
  run makes nothing more before it ends. The refinement maps every action to a
  publication, a removal of an input, or a stutter.
- *Zip.* `ZipInv` is the same for one archive in hand (`HandInv`, `ArmedInv`),
  the ones before it and after it (`OthersInv`), and an answered signal
  (`AnsweredInv`). `SplitInv` relates what the run counted, what it has told the
  handler, and what is there: the name at hand is the last that may be counted
  (`NumberInv`), what is counted was made (`MadeInv`) or is the link just looked
  at (`LinkInv`), what the handler reads is behind by at most the word being
  stored (`ToldInv`), and a removal leaves nothing behind it (`DestroyInv`,
  `SweepInv`).
- *Atomic output.* The destination, in memory and on disk, leads to nothing, to
  the old file, or to the file of a call that has renamed; such a file was
  finished before, so it is whole while the machine runs, and if the calls sync
  it is whole on disk before the rename, so also after a crash. For
  `KeptWithoutForce`: without `--force` and with an old file, durable from the
  start, no call ever passes the check. For the names, it is added that a number is
  one call's (`NamesInv`), that what is durable of the destination's name is no
  older than any synced output (`DurableInv`), and that a call meets each
  leftover once (`LockInv`), so that fewer leftovers than attempts lock nobody
  out.
- *Pack.* `PackInv` joins the parts, each kept by every step of `pack` and of
  the program beside it. Paths first: what a path leads to is a fold over its
  components, so a change at a path leaves alone what is led to without passing
  it (`OwnPath`), and by the same way what is beneath a root is reached under the
  root's path and beneath what can be searched (`Met`). Then:
  - *Kept or told* (`KeptInv`). Each steady name of each walked root is, at any
    moment, ahead of the walk, held by its stack or by the directory being
    listed, planned, or settled: stored as it is, or covered by an item that is
    told of. Each action moves a name on along this chain and drops none; the
    file in hand is read as it is because nobody writes to it (`Reading`).
  - *Whole or told* (`WholeInv`): what the reader has drawn is, byte for byte,
    some version of one file, and if nobody wrote, the beginning of it.
  - *In order* (`OrderInv`, `StoredInv`): what is found, then the stack, is in
    the order of names; the plan stays so root by root, since one root claims
    its first component; and the container is given the plan in its order.
  - *Steadfast* (`FilesStay`, `Excused`, `RefusedInv`): a planned file's path
    leads to a directory, or to a fifo, only if one was put, or a link; and in
    an undisturbed run the names planned are of the paths walked (`HeadsKnown`),
    so that a name met twice is one asked for twice.
  - *Worthwhile* (`WorthInv`): a file or link is still to come until it is
    stored or found unreadable.
  - *Links told*: undisturbed, every planned file is one of the tree, of that
    name and link_id (`SourcedInv`), every file that can be stored is planned
    (`PlannedInv`, from `KeptInv`), and two roots of one name can only be the
    archive's own (`RootsInv`); so the files planned and the files there are one
    for one (`NamesApart`, `PlacesApart`), and their counts agree.

  The instances say less than the proof asked for, and four properties had been
  stated too strongly for trees TLC was not given: of a path asked for through a
  link, a change elsewhere may lead it to another place (`Steady`); a file that
  is written to between two reads is stored as parts of two versions, of its full
  length and without a word (`WholeOrTold`); a file's name may become a link to
  a fifo, too (`Steadfast`); and the summary counts two paths asked for that
  reach one file only if that file has two names (`LinksTold`). It rests on
  `PackAssumption`: a scene is a tree of finitely many names, each in a directory.
- *Convert.* First the cache, method by method: `Sound` says that the two
  queues list what is kept, each once and under its own place (`Listed`), that
  the four counters are the sums of what is kept (`Counted`), and that with the
  overhead these stay within the policy (`Bounded`). Room is made by evictions
  counted from none up: each leaves the cache sound and holds one payload less,
  so the fewest that make room exist. Sums over a set are counted as in
  `Governor`. `EntriesInv` adds that what is kept under a name, and the symlink
  remembered of it, is what the source means by the name at that moment
  (`Meant`), and that a file still passing through the tee was promised room the
  policy has beside what is kept (`InPassing`). `ReadInv` is of one archive:
  what the guard counted is what the container took and no more than the file
  has (`Streamed`), what writers have was charged before, unless the count
  stands at its end (`Charges`), each payload is delivered up to where the walk
  is (`Delivery`), and the spool is whole or still being filled, within its two
  limits (`Spools`).
- *Tar scan.* A header's count is dropped only once the search has passed it, and
  a chain only walks forward: so no chain read later can reach it, and the
  history's count for it is final. A budget once spent leaves a trace in the
  `starved` log, which is never emptied, settled or not. That nothing is lost is
  an invariant of each header behind the search (`Named`): any chain that begins
  there leads to a refusal in a log, or to what a candidate consumed. A turn of
  the loop discharges it for the headers it moves past, of which those a
  candidate covers are `Consumed` and the rest do not agree.
- *Scan for headers.* `HuntInv` is of one turn. The runs of zeros that are
  remembered are zeros, end at a byte that is not or at the end of the file, and
  are apart (`MemoInv`); what was read is in one of them (`ReadInv`). An offset
  that is not remembered is past every run that begins before it, and a reading
  stops at the first run after it, so what it reads is in none. With the record
  true, `Backs` is what it says, so that a payload is jumped only to a sound
  header, to padding or to the end; and a step moves the search past the header
  it looks at, which it has accounted for, and past what lies in a jumped payload
  (`RecoveredInv`). Four layers complete it. `ToldInv`: what is logged is the
  first of the headers left unjudged, and their number, but for those held back
  because zip's directory names them, so that once the directory was asked the
  log has exactly what it did not recover (`SightingsExact`). `RowsInv`:
  candidates are at different offsets, ascending until the directory adds its
  own, and each record of it that was gone through is settled; the sort at the
  end then makes them ascend strictly. `VariantsInv`: the ungated headers are at
  most as many as were counted. `CostInv`: for an archive whose headers are apart,
  when the search comes to the header at `t` it has spent at most twice the bytes before `t`, less twice the fixed part of
  each header there, and what `t` itself costs (`Limit`). The fixed part is free
  because reading it is not charged; a header's variable part is charged at most
  twice, once where cpio looks ahead and once where it reads, and the headers
  being apart, both fit in the bytes it spans. So the whole is within `2 * End`,
  which `ScanBudget` gives, and none is left unjudged.
- *Unpack and salvage.* `DestInv`: whatever the run may not touch still has its
  name, its inode and its content, and that inode is no directory this run made,
  now or when a mode was deferred for it; so the mode applied last is not its
  own. `place` proceeds only to a free name, a directory, or what `--force` may
  replace, and makes its parents out of inodes no name has (`ProceedsSpares`,
  `MakeAtKeeps`). For `RecoveredKept` a salvage only ever adds (`Grown`), since
  each name it opens is free or, of its own, claimed (`FilesClaimed`): that is
  what keeps a freed or folded inode from being written through twice. The scans
  join as they are: an invocation that is no scan leaves both at their start
  (`ScansInv`), where nothing was passed and nothing is lost.
- *The deferred modes.* `Undisturbed`, while no other program has moved anything:
  all that is in the destination is in directories, a directory has one name, and
  the run's own stand where it made them (`Shape`; every arm of the loop keeps
  it, `EntryTidy`, because `place` gives fresh inodes to the missing parents and
  clears no directory). So at the archive's end each deferred directory is found
  by its path, and nothing is shut but what the destination held that way
  (`HeldShut`). From there on the deferred paths never get longer
  (`DeepestAhead`) and nothing above one of them is shut (`OpenAbove`): a mode
  shuts one name only, which is no shorter than any path still to come, and what
  is above a path is shorter. Without the order the last step fails; without the
  one name a mode could shut a parent under another of its names.
  It rests on two assumptions about the environment: `PathsType`, that
  `safe_join` gives sequences of components, and `Searchable`, that what `mkdir`
  makes can be searched, and that no entry lies below a directory of the
  destination that cannot be (the model has no EACCES there; the code fails on
  the create).

- *Unpack's promise.* The promise speaks of names and contents, the program of
  paths, inodes and its record of what it made; so the invariant (`Faithful`) is
  that what the record says is true of the disk. A path recorded is one the
  file system can spell and leads to nothing the destination held but a
  directory; what is recorded there as a symlink is that symlink, unless another
  program moved what is above it (`RecordsTrue`). Every directory this run made
  is one still, there or moved away, and none of the other program's
  (`DirsLive`); a mode that waits is one an entry gives (`DeferredSaid`).
  What `place` and the
  create after it do to the tree is said once, in the program's terms (`Landed`):
  the missing parents are made, of the name itself the entry's node, and every
  other name keeps inode and content. `Spelled`, `LandedNothing` and
  `LandedSomething` say that in the promise's terms, and each arm of the loop is
  one of them or leaves the tree alone (`FilePromised`, `DirPromised`,
  `PlaceSymlinkPromised`, `HardLinkPromised`; a link to itself is recognized by
  the one inode both spellings have, `AlreadyLinkedPromised`). At the end a mode
  goes to the directory the record means or to none (`MetadataPromised`).
  The attempt showed the promise had been stated too strongly: a hard link to its
  own name was said to change nothing. When another program has moved the
  directory above it away and the file system then refuses a name, `place` has
  made the parents before it fails; what the code keeps is that such an entry
  never costs a file of that name (`EntrySkipped`). It rests on two more
  assumptions: `FoldsPaths`, that the file system folds every name an entry may
  have, and `TheirsApart`, that the data which marks another program's directory
  in the model is no mode of an archive's.

Checked by TLC only: all liveness (`EveryCallIsServed`, `EveryoneReturns`,
`RunEnds`), which the prover cannot do, and `AnnotationHolds`: `Annotation` folds
over sequences, and what a fold computes for every list would take induction over
data, also out of the prover's reach.
Elsewhere the definitions are written so that it is not needed: a sort is the
choice of a sequence that is in order and has the same members (`InFileOrder`,
`DeepestFirst`), and what is first of a log is a set of lists (`Lowest`).

## What the models show beside their properties

Reading the code for the models turned up these; each is smaller than a finding
with a run of its own, or is outside what a run can show.

- `pack DIR -o DIR/link.tar --force`, where `link.tar` is a symlink to a regular
  file in `DIR`: `canonical_output_path` resolves the directory and not the link,
  so the file it leads to is not recognized as the archive; it is truncated by
  `create_direct` and then packed as whatever it then holds, told as a change of
  size only (`entries.rs:4089` says the archive "is not stored inside itself").
- The guard against replacing a healthy archive with an empty one
  (`entries.rs:4160-4169`) looks at the plan, not at what the container can hold:
  last night's `ar` and a symlink, packed into `ar`, gives an archive of nothing.
  `Worthwhile` is therefore stated of containers that hold links.
- A file replaced by a fifo between its stat and its open blocks `pack` until
  somebody writes to it (`stage = "waiting"`).
- `hardlink_count` counts planned files that then could not be opened.
- `into_sightings`' comment that no two groups share an offset
  (`tar_salvage.rs:748`) does not hold for `capped` beside the other two; the
  sightings are merely told twice.
- zipsplit counts an existing file it could not open for writing as made, and
  removes it on an error (`zipsplit.rs:16` documents it).
- On a file system that folds names, after `d/x` an entry for the directory `D`
  finds no record of its own making, and its mode is not applied, without a
  warning (`entries.rs:1146`).
- cpio's scanner reports `Some(0)` of a declared 0 for an empty entry whose name's
  padding lies past the end of the file, so that a complete empty file there is
  called partial; the comment at `cpio_salvage.rs:820` says `Some(n)` always
  means fewer than declared, and the zoo, lha and arj scanners guard for it.

## What is not modelled

- Bit-stream codecs and container formats, and the vendored C libraries: data,
  not protocols. A payload is whole, cut or not there.
- Probing, the registry, the command line, listing and benchmarks: tables,
  parsing and rendering. The quarantine attribute: one call of I/O.
- The outputs of `lz4`, `brotli` and Apple `compress`: they catch no signal but
  one, write under the output's own name and remove it on failure, with nothing
  to interleave. The rest of the zip and unzip personalities: option parsing,
  prompting and extraction in their own wording, one thread after another call.
- The salvage scanner of ar, which walks a chain of members rather than searches.
- In `ArmedOutput`: metadata copied to the output, a failing removal of the
  tool's own files, an output that is the input itself, zstd's one output of
  several inputs. In `ZipReplace`: `-s`'s part held open for its header, faults
  that are not held back. In `ZipSplit`: which entries go to which part. In
  `AtomicOutput`: stdout, and destinations written through in place. In `Pack`:
  a container on standard output, ownership, modes and times, a write that
  fails. In `ConvertLinks`: NUL names, ownership warnings. In `ReadPath`: access
  by index, the ladder's degraded rung (no container registers it). In `Extract`
  and `Salvage`: the times and modes of files, `--select`, `--list`. In
  `TarSalvage`: which bytes agree, a checksum's spelling, read errors. In
  `HeaderScan`: what the gates parse, the search's window (`ForwardSearch`) and the
  bytes a chunk of zeros is read beyond the first that is none, read errors,
  `verify` and `write_payload`, and the refusal of an archive with nothing in it.

## Plan

What is left: unzip's extraction beside `Extract`, whose rules differ, and the
scanner of ar, which walks a chain of members.
