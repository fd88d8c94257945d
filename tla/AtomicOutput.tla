----------------------------- MODULE AtomicOutput -----------------------------
(***************************************************************************)
(* How stuffr itself writes an output (crates/stuffr/src/ops.rs): a         *)
(* temporary beside the destination, written whole, fsynced, renamed onto   *)
(* it, and the directory fsynced.  Threads of one process write the same    *)
(* destination; the process may be killed and the machine may crash.  What  *)
(* the program sees (dir, data) reaches the disk (diskDir, diskData) in any *)
(* order unless it is fsynced.  Only a destination that is a regular file,  *)
(* or absent, is modelled: any other is written through in place.           *)
(***************************************************************************)
EXTENDS Naturals, FiniteSets, Sequences

CONSTANTS
  Runs,         (* the calls writing the destination                         *)
  Numbers,      (* the numbers of temporary names                            *)
  Debris,       (* those an earlier process of the same pid may have left    *)
  MaxAttempts,  (* MAX_TMP_ATTEMPTS                                          *)
  Options       (* the options a process may be given                        *)

ASSUME AtomicAssumption ==
  /\ Numbers \subseteq Nat
  /\ Debris \subseteq Numbers /\ IsFiniteSet(Debris)
  /\ MaxAttempts \in Nat /\ Cardinality(Debris) < MaxAttempts
  /\ Options \subseteq [sync : BOOLEAN, forced : BOOLEAN]

Dest == <<"target">>
Tmp(n) == <<"tmp", n>>
Names == {Dest} \cup {Tmp(n) : n \in Numbers}

(* The files, wherever they are linked.                                     *)
None == <<"none">>
Old == <<"old">>
Litter == <<"litter">>
New(r) == <<"new", r>>
Inodes == {Old, Litter} \cup {New(r) : r \in Runs}

VARIABLES
  options,    (* this one's: not --no-sync, and --force                      *)
  dir,        (* dir[n]: the file the name n leads to                        *)
  data,       (* data[i]: the file's content: "junk", "part" or "whole"      *)
  diskDir,    (* what is durable of dir ...                                  *)
  diskData,   (* ... and of data                                             *)
  next,       (* NEXT_TMP                                                    *)
  number,     (* number[r]: the number of the temporary name r tries, or has *)
  attempt,    (* attempt[r]: names r found taken                             *)
  pc,         (* pc[r]: where run r is                                       *)
  renamed,    (* the runs whose output got the name, in order                *)
  durable,    (* runs that returned after the directory was fsynced          *)
  life        (* "up", or how the process ended: "killed" or "crashed"       *)

disk == <<diskDir, diskData>>
fs == <<dir, data>>
run == <<next, number, attempt, renamed, durable>>
vars == <<options, fs, disk, run, pc, life>>

Sync == options.sync
Forced == options.forced

Init ==
  /\ options \in Options
  /\ dir \in [Names -> {None, Old, Litter}]
  /\ dir[Dest] # Litter
  /\ \A n \in Numbers : dir[Tmp(n)] \in (IF n \in Debris THEN {None, Litter} ELSE {None})
  /\ data = [i \in Inodes |-> IF i = Old THEN "whole" ELSE IF i = Litter THEN "part" ELSE "junk"]
  /\ diskDir = dir
  /\ diskData = data
  /\ next = 0
  /\ number = [r \in Runs |-> 0]
  /\ attempt = [r \in Runs |-> 0]
  /\ pc = [r \in Runs |-> "begin"]
  /\ renamed = << >>
  /\ durable = {}
  /\ life = "up"

-------------------------------------------------------------------------------
Goes(r, from, to) ==
  /\ life = "up"
  /\ pc[r] = from
  /\ pc' = [pc EXCEPT ![r] = to]
  /\ UNCHANGED <<life, options>>

(* Output::create refuses an existing file unless --force (variant: the     *)
(* file is replaced whatever was asked).                                    *)
BeginAnyway(r) ==
  /\ Goes(r, "begin", "number")
  /\ UNCHANGED <<fs, disk, run>>

Begin(r) ==
  /\ Goes(r, "begin", IF ~ Forced /\ dir[Dest] # None THEN "refused" ELSE "number")
  /\ UNCHANGED <<fs, disk, run>>

(* create_temp_file: a number nobody else has; a name found taken is stepped*)
(* over, MaxAttempts times.  (Variant: the number is not taken.)            *)
PeekNumber(r) ==
  /\ Goes(r, "number", "open")
  /\ number' = [number EXCEPT ![r] = next]
  /\ UNCHANGED <<fs, disk, next, attempt, renamed, durable>>

TakeNumber(r) ==
  /\ Goes(r, "number", "open")
  /\ number' = [number EXCEPT ![r] = next]
  /\ next' = next + 1
  /\ UNCHANGED <<fs, disk, attempt, renamed, durable>>

Temp(r) == Tmp(number[r])

OpenTemp(r) ==
  /\ Goes(r, "open", "opened")
  /\ dir[Temp(r)] = None
  /\ dir' = [dir EXCEPT ![Temp(r)] = New(r)]
  /\ UNCHANGED <<data, disk, run>>

TempTaken(r) ==
  /\ Goes(r, "open", IF attempt[r] + 1 >= MaxAttempts THEN "locked" ELSE "number")
  /\ dir[Temp(r)] # None
  /\ attempt' = [attempt EXCEPT ![r] = @ + 1]
  /\ UNCHANGED <<fs, disk, next, number, renamed, durable>>

(* The second handle, for the fsync; without it create fails.               *)
CloneHandle(r) ==
  /\ Goes(r, "opened", "write") \/ Goes(r, "opened", "failed")
  /\ UNCHANGED <<fs, disk, run>>

WriteSome(r) ==
  /\ Goes(r, "write", "write")
  /\ data[New(r)] = "junk"
  /\ data' = [data EXCEPT ![New(r)] = "part"]
  /\ UNCHANGED <<dir, disk, run>>

(* The payload to its end and the codec's trailer, or an error on the way.  *)
FinishSink(r) ==
  /\ Goes(r, "write", "sync")
  /\ data' = [data EXCEPT ![New(r)] = "whole"]
  /\ UNCHANGED <<dir, disk, run>>

WriteFails(r) ==
  /\ Goes(r, "write", "discard")
  /\ UNCHANGED <<fs, disk, run>>

(* publish: the file's fsync (variant: it is left to the system) ...        *)
SyncNothing(r) ==
  /\ Goes(r, "sync", "rename")
  /\ UNCHANGED <<fs, disk, run>>

SyncFile(r) ==
  /\ Goes(r, "sync", "rename")
  /\ diskData' = IF Sync THEN [diskData EXCEPT ![New(r)] = data[New(r)]] ELSE diskData
  /\ UNCHANGED <<fs, diskDir, run>>

SyncFails(r) ==
  /\ Sync
  /\ Goes(r, "sync", "failed")
  /\ UNCHANGED <<fs, disk, run>>

(* ... the rename (variant: a link, the temporary's name kept) ...          *)
LinkOver(r) ==
  /\ Goes(r, "rename", "syncdir")
  /\ dir' = [dir EXCEPT ![Dest] = New(r)]
  /\ renamed' = Append(renamed, r)
  /\ UNCHANGED <<data, disk, next, number, attempt, durable>>

Rename(r) ==
  /\ Goes(r, "rename", "syncdir")
  /\ dir' = [dir EXCEPT ![Dest] = New(r), ![Temp(r)] = None]
  /\ renamed' = Append(renamed, r)
  /\ UNCHANGED <<data, disk, next, number, attempt, durable>>

RenameFails(r) ==
  /\ Goes(r, "rename", "discard")
  /\ UNCHANGED <<fs, disk, run>>

(* ... and the directory's fsync, whose failure is dropped (variant: it     *)
(* reaches the file again, not the directory).                              *)
SyncFileAgain(r) ==
  /\ Sync
  /\ Goes(r, "syncdir", "ok")
  /\ diskData' = [diskData EXCEPT ![New(r)] = data[New(r)]]
  /\ durable' = durable \cup {r}
  /\ UNCHANGED <<fs, diskDir, next, number, attempt, renamed>>

SyncDir(r) ==
  /\ Sync
  /\ Goes(r, "syncdir", "ok")
  /\ diskDir' = dir
  /\ durable' = durable \cup {r}
  /\ UNCHANGED <<fs, diskData, next, number, attempt, renamed>>

SkipDir(r) ==
  /\ Goes(r, "syncdir", "ok")
  /\ UNCHANGED <<fs, disk, run>>

Discard(r) ==
  /\ Goes(r, "discard", "failed")
  /\ dir' = [dir EXCEPT ![Temp(r)] = None]
  /\ UNCHANGED <<data, disk, run>>

Step(r) ==
  \/ Begin(r) \/ TakeNumber(r) \/ OpenTemp(r) \/ TempTaken(r) \/ CloneHandle(r)
  \/ WriteSome(r) \/ FinishSink(r) \/ WriteFails(r)
  \/ SyncFile(r) \/ SyncFails(r) \/ Rename(r) \/ RenameFails(r)
  \/ SyncDir(r) \/ SkipDir(r) \/ Discard(r)

-------------------------------------------------------------------------------
(* The system writes back what it likes, when it likes.                     *)
WriteBackData(i) ==
  /\ life # "crashed"
  /\ diskData' = [diskData EXCEPT ![i] = data[i]]
  /\ UNCHANGED <<options, fs, diskDir, run, pc, life>>

WriteBackName(n) ==
  /\ life # "crashed"
  /\ diskDir' = [diskDir EXCEPT ![n] = dir[n]]
  /\ UNCHANGED <<options, fs, diskData, run, pc, life>>

(* The process dies (stuffr's own verbs catch no signal) ...                *)
Killed ==
  /\ life = "up"
  /\ life' = "killed"
  /\ UNCHANGED <<options, fs, disk, run, pc>>

(* ... or the machine does, and only what reached the disk is left.         *)
Crash ==
  /\ life # "crashed"
  /\ life' = "crashed"
  /\ dir' = diskDir
  /\ data' = diskData
  /\ UNCHANGED <<options, disk, run, pc>>

Next ==
  \/ \E r \in Runs : Step(r)
  \/ \E i \in Inodes : WriteBackData(i)
  \/ \E n \in Names : WriteBackName(n)
  \/ Killed
  \/ Crash

Spec == Init /\ [][Next]_vars

-------------------------------------------------------------------------------
Places ==
  {"begin", "refused", "number", "open", "locked", "opened", "write", "discard", "sync",
   "rename", "syncdir", "ok", "failed"}

(* Types of the state; what a run writes has one name.                      *)
TypeOK ==
  /\ options \in Options
  /\ {dir, diskDir} \subseteq [Names -> Inodes \cup {None}]
  /\ {data, diskData} \subseteq [Inodes -> {"junk", "part", "whole"}]
  /\ \A r \in Runs : Cardinality({n \in Names : dir[n] = New(r)}) <= 1 \/ life = "crashed"
  /\ next \in Nat
  /\ number \in [Runs -> Nat]
  /\ attempt \in [Runs -> Nat]
  /\ pc \in [Runs -> Places]
  /\ renamed \in Seq(Runs)
  /\ durable \subseteq Runs
  /\ life \in {"up", "killed", "crashed"}

(* "Leaving a zero-length or partial file under the real name [is] exactly  *)
(* what temp-then-rename exists to prevent": whatever the threads do and    *)
(* whenever the process dies, the destination leads to a whole file; and    *)
(* whenever the machine crashes, unless --no-sync was asked for.            *)
NeverTorn ==
  Sync \/ life # "crashed" => dir[Dest] = None \/ data[dir[Dest]] = "whole"

(* The rename survives a crash once its directory was fsynced: the          *)
(* destination then leads to that output or to one renamed after it.        *)
DurableOnceSynced ==
  \A r \in durable :
    \E j \in DOMAIN renamed :
      /\ dir[Dest] = New(renamed[j])
      /\ \A i \in DOMAIN renamed : renamed[i] = r => i <= j

(* A destination that exists is never replaced unless --force is given, by  *)
(* any step from the check to the rename, nor by a crash.                   *)
KeptWithoutForce == [][~ Forced /\ dir[Dest] = Old => dir'[Dest] = Old]_vars

(* "Debris from a crashed run should not permanently lock a destination     *)
(* out": fewer leftovers than attempts, and no run gives up for want of a   *)
(* name, however many run at once.                                          *)
NeverLockedOut == \A r \in Runs : pc[r] # "locked"

(* The temporary is "removed on failure": a run that has failed has left no *)
(* name of its own behind.                                                  *)
FailureLeavesNothing ==
  life = "up" => \A r \in Runs : pc[r] = "failed" => \A n \in Names : dir[n] # New(r)
===============================================================================
