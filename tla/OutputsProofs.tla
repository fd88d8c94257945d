---------------------------- MODULE OutputsProofs ----------------------------
(***************************************************************************)
(* Proofs about the outputs of stuffr's own verbs.                          *)
(*                                                                         *)
(* First the calls that publish one destination (AtomicOutput), for any     *)
(* number of calls, leftovers and attempts: the destination never leads to  *)
(* a torn file, without --force it is not replaced, an output that was made *)
(* durable outlives a crash, and leftovers lock no destination out.         *)
(*                                                                         *)
(* Then `pack` (Pack), for any tree, any files, any paths asked for and any *)
(* number of changes another program makes meanwhile: what was there all    *)
(* along is stored as it is or told of, nothing stored without a word is    *)
(* torn, and the rest of PackedAsFound.  The last section composes the two. *)
(***************************************************************************)
EXTENDS Outputs, FiniteSetTheorems, FunctionTheorems, WellFoundedInduction, SequenceTheorems, TLAPS

(* The types the arguments below need.                                      *)
Types ==
  /\ dir \in [Names -> Inodes \cup {None}]
  /\ diskDir \in [Names -> Inodes \cup {None}]
  /\ data \in [Inodes -> {"junk", "part", "whole"}]
  /\ diskData \in [Inodes -> {"junk", "part", "whole"}]
  /\ pc \in [Runs -> Places]
  /\ life \in {"up", "killed", "crashed"}

Renamed == {r \in Runs : pc[r] \in {"syncdir", "ok"}}
Synced == Renamed \cup {r \in Runs : pc[r] = "rename"}
Finished == Synced \cup {r \in Runs : pc[r] = "sync"}

(* The old file is whole, in memory and on disk.                            *)
OldWhole == data[Old] = "whole" /\ diskData[Old] = "whole"

(* The destination leads to it, to nothing, or to what a run that renamed   *)
(* wrote; and so it does on disk.                                           *)
OldOrNew(d) == d[Dest] \in {None, Old} \cup {New(r) : r \in Renamed}

(* What a run has finished is whole until a crash; what it has synced is    *)
(* whole for good.                                                          *)
FinishedWhole == life # "crashed" => \A r \in Finished : data[New(r)] = "whole"
SyncedWhole ==
  Sync => \A r \in Synced : data[New(r)] = "whole" /\ diskData[New(r)] = "whole"

TornInv ==
  /\ Types
  /\ OldWhole
  /\ OldOrNew(dir) /\ OldOrNew(diskDir)
  /\ FinishedWhole
  /\ SyncedWhole

-------------------------------------------------------------------------------
(* The names and the files are what they are told apart by.                 *)
LEMMA Distinct ==
  /\ Dest \in Names
  /\ \A r \in Runs : Temp(r) # Dest
  /\ None \notin Inodes
  /\ Old \in Inodes /\ Litter \in Inodes /\ Litter # Old
  /\ \A r \in Runs : New(r) \in Inodes /\ New(r) # Old /\ New(r) # None
  /\ \A r, s \in Runs : New(r) = New(s) => r = s
BY DEF Dest, Names, Tmp, Temp, None, Inodes, Old, Litter, New

LEMMA TornInit == Init => TornInv
<1> SUFFICES ASSUME Init PROVE TornInv
  OBVIOUS
<1>1. Types
  BY Distinct DEF Init, Types, Places
<1>2. OldWhole
  BY Distinct DEF Init, OldWhole
<1>3. OldOrNew(dir) /\ OldOrNew(diskDir)
  <2>1. dir[Dest] \in {None, Old}
    BY Distinct DEF Init
  <2> QED
    BY <2>1 DEF Init, OldOrNew
<1>4. FinishedWhole /\ SyncedWhole
  BY DEF Init, FinishedWhole, SyncedWhole, Finished, Synced, Renamed
<1> QED
  BY <1>1, <1>2, <1>3, <1>4 DEF TornInv

-------------------------------------------------------------------------------
(* A step that only moves r on, short of finishing, syncing or renaming.    *)
LEMMA QuietMove ==
  ASSUME TornInv, NEW r \in Runs, NEW from, NEW to \in Places, Goes(r, from, to),
         UNCHANGED <<dir, data, diskDir, diskData>>,
         to \notin {"sync", "rename", "syncdir"},
         from = "ok" \/ from = "syncdir" <=> to = "ok"
  PROVE  TornInv'
<1> USE DEF TornInv
<1>1. Types'
  BY DEF Goes, Types
<1>2. Renamed' = Renamed /\ Synced' \subseteq Synced /\ Finished' \subseteq Finished
  BY DEF Goes, Types, Renamed, Synced, Finished
<1>3. OldWhole' /\ OldOrNew(dir)' /\ OldOrNew(diskDir)'
  BY <1>2 DEF OldWhole, OldOrNew
<1>4. FinishedWhole' /\ SyncedWhole'
  BY <1>2 DEF Goes, Sync, FinishedWhole, SyncedWhole
<1> QED
  BY <1>1, <1>3, <1>4

(* One that also gives or takes the temporary's name.                       *)
LEMMA TempMove ==
  ASSUME TornInv, NEW r \in Runs, NEW from, NEW to \in Places, Goes(r, from, to),
         dir' \in [Names -> Inodes \cup {None}], dir'[Dest] = dir[Dest],
         UNCHANGED <<data, diskDir, diskData>>,
         from \notin {"ok", "syncdir"}, to \notin {"sync", "rename", "syncdir", "ok"}
  PROVE  TornInv'
<1> USE DEF TornInv
<1>1. Types'
  BY DEF Goes, Types
<1>2. Renamed' = Renamed /\ Synced' \subseteq Synced /\ Finished' \subseteq Finished
  BY DEF Goes, Types, Renamed, Synced, Finished
<1>3. OldWhole' /\ OldOrNew(dir)' /\ OldOrNew(diskDir)'
  BY <1>2 DEF OldWhole, OldOrNew
<1>4. FinishedWhole' /\ SyncedWhole'
  BY <1>2 DEF Goes, Sync, FinishedWhole, SyncedWhole
<1> QED
  BY <1>1, <1>3, <1>4

(* One that writes r's file, which is not finished before.                  *)
LEMMA WriteMove ==
  ASSUME TornInv, NEW r \in Runs, NEW to \in {"write", "sync"}, Goes(r, "write", to),
         NEW x \in {"part", "whole"}, to = "sync" => x = "whole",
         data' = [data EXCEPT ![New(r)] = x],
         UNCHANGED <<dir, diskDir, diskData>>
  PROVE  TornInv'
<1> USE DEF TornInv
<1>1. Types'
  BY Distinct DEF Goes, Types, Places
<1>2. /\ Renamed' = Renamed /\ Synced' = Synced /\ r \notin Synced
      /\ Finished' \subseteq Finished \cup (IF to = "sync" THEN {r} ELSE {}) /\ r \notin Finished
      /\ Finished \subseteq Runs /\ Synced \subseteq Runs
  BY DEF Goes, Types, Renamed, Synced, Finished
<1>3. /\ data'[New(r)] = x /\ data'[Old] = data[Old]
      /\ \A s \in Runs \ {r} : data'[New(s)] = data[New(s)]
  BY Distinct DEF Types
<1>4. OldWhole' /\ OldOrNew(dir)' /\ OldOrNew(diskDir)'
  BY <1>2, <1>3 DEF OldWhole, OldOrNew
<1>5. FinishedWhole'
  BY <1>2, <1>3 DEF Goes, FinishedWhole
<1>6. SyncedWhole'
  BY <1>2, <1>3 DEF Goes, Sync, SyncedWhole
<1> QED
  BY <1>1, <1>4, <1>5, <1>6

(* The file's fsync: what was finished is durable, if it is asked for.      *)
LEMMA SyncMove ==
  ASSUME TornInv, NEW r \in Runs, SyncFile(r)
  PROVE  TornInv'
<1> USE DEF TornInv
<1>1. Types'
  BY Distinct DEF SyncFile, fs, run, Goes, Types, Places
<1>2. /\ Renamed' = Renamed /\ Synced' = Synced \cup {r} /\ Finished' = Finished /\ r \in Finished
      /\ Synced \subseteq Runs
  BY DEF SyncFile, Goes, Types, Renamed, Synced, Finished
<1>3. data[New(r)] = "whole" /\ data' = data /\ dir' = dir /\ diskDir' = diskDir
  BY <1>2 DEF SyncFile, Goes, fs, run, FinishedWhole
<1>4. /\ diskData'[Old] = diskData[Old]
      /\ Sync' = Sync /\ (Sync => diskData'[New(r)] = "whole")
      /\ \A s \in Runs \ {r} : diskData'[New(s)] = diskData[New(s)]
  BY <1>3, Distinct DEF SyncFile, Goes, Sync, Types
<1>5. OldWhole' /\ OldOrNew(dir)' /\ OldOrNew(diskDir)' /\ FinishedWhole'
  BY <1>2, <1>3, <1>4 DEF SyncFile, Goes, OldWhole, OldOrNew, FinishedWhole
<1>6. SyncedWhole'
  BY <1>2, <1>3, <1>4 DEF SyncedWhole
<1> QED
  BY <1>1, <1>5, <1>6

(* The rename: the destination leads to what is finished, and synced.       *)
LEMMA RenameMove ==
  ASSUME TornInv, NEW r \in Runs, Rename(r)
  PROVE  TornInv'
<1> USE DEF TornInv
<1>1. Types'
  BY Distinct DEF Rename, disk, Goes, Types, Places
<1>2. Renamed' = Renamed \cup {r} /\ Synced' = Synced /\ Finished' = Finished
  BY DEF Rename, Goes, Types, Renamed, Synced, Finished
<1>3. dir'[Dest] = New(r) /\ UNCHANGED <<data, diskDir, diskData, life, options>>
  BY Distinct DEF Rename, Goes, disk, Types
<1>4. OldWhole' /\ OldOrNew(dir)' /\ OldOrNew(diskDir)'
  BY <1>2, <1>3 DEF OldWhole, OldOrNew
<1>5. FinishedWhole' /\ SyncedWhole'
  BY <1>2, <1>3 DEF Sync, FinishedWhole, SyncedWhole
<1> QED
  BY <1>1, <1>4, <1>5

(* The directory's fsync.                                                   *)
LEMMA SyncDirMove ==
  ASSUME TornInv, NEW r \in Runs, SyncDir(r)
  PROVE  TornInv'
<1> USE DEF TornInv
<1>1. Types'
  BY DEF SyncDir, fs, Goes, Types, Places
<1>2. Renamed' = Renamed /\ Synced' = Synced /\ Finished' = Finished
  BY DEF SyncDir, Goes, Types, Renamed, Synced, Finished
<1>3. diskDir' = dir /\ UNCHANGED <<dir, data, diskData, life, options>>
  BY DEF SyncDir, Goes, fs
<1> QED
  BY <1>1, <1>2, <1>3 DEF Sync, OldWhole, OldOrNew, FinishedWhole, SyncedWhole

(* The steps of a run, one by one.                                          *)
LEMMA TornRunStep ==
  ASSUME TornInv, NEW r \in Runs, Step(r)
  PROVE  TornInv'
<1> USE DEF fs, disk, run
<1>1. CASE Begin(r)
  <2> DEFINE to == IF ~ Forced /\ dir[Dest] # None THEN "refused" ELSE "number"
  <2>1. to \in {"refused", "number"}
    OBVIOUS
  <2> QED
    BY <1>1, <2>1, QuietMove DEF Begin, Places
<1>2. CASE TakeNumber(r)
  BY <1>2, QuietMove DEF TakeNumber, Places
<1>3. CASE OpenTemp(r)
  <2>1. dir' \in [Names -> Inodes \cup {None}] /\ dir'[Dest] = dir[Dest]
    BY <1>3, Distinct DEF OpenTemp, TornInv, Types
  <2> QED
    BY <1>3, <2>1, TempMove DEF OpenTemp, Places
<1>4. CASE TempTaken(r)
  <2> DEFINE to == IF attempt[r] + 1 >= MaxAttempts THEN "locked" ELSE "number"
  <2>1. to \in {"locked", "number"}
    OBVIOUS
  <2> QED
    BY <1>4, <2>1, QuietMove DEF TempTaken, Places
<1>5. CASE CloneHandle(r)
  BY <1>5, QuietMove DEF CloneHandle, Places
<1>6. CASE WriteSome(r)
  BY <1>6, WriteMove DEF WriteSome
<1>7. CASE FinishSink(r)
  BY <1>7, WriteMove DEF FinishSink
<1>8. CASE WriteFails(r)
  BY <1>8, QuietMove DEF WriteFails, Places
<1>9. CASE SyncFile(r)
  BY <1>9, SyncMove
<1>10. CASE SyncFails(r)
  BY <1>10, QuietMove DEF SyncFails, Places
<1>11. CASE Rename(r)
  BY <1>11, RenameMove
<1>12. CASE RenameFails(r)
  BY <1>12, QuietMove DEF RenameFails, Places
<1>13. CASE SyncDir(r)
  BY <1>13, SyncDirMove
<1>14. CASE SkipDir(r)
  BY <1>14, QuietMove DEF SkipDir, Places
<1>15. CASE Discard(r)
  <2>1. dir' \in [Names -> Inodes \cup {None}] /\ dir'[Dest] = dir[Dest]
    BY <1>15, Distinct DEF Discard, TornInv, Types
  <2> QED
    BY <1>15, <2>1, TempMove DEF Discard, Places
<1> QED
  BY <1>1, <1>2, <1>3, <1>4, <1>5, <1>6, <1>7, <1>8, <1>9, <1>10, <1>11, <1>12, <1>13,
     <1>14, <1>15 DEF Step

(* What the system does: write back, and end the process or the machine.    *)
LEMMA TornSystemStep ==
  ASSUME TornInv, \/ \E i \in Inodes : WriteBackData(i)
                  \/ \E n \in Names : WriteBackName(n)
                  \/ Killed \/ Crash
  PROVE  TornInv'
<1> USE DEF TornInv, fs, disk, run
<1>0. pc' = pc /\ Sync' = Sync /\ Renamed' = Renamed /\ Synced' = Synced /\ Finished' = Finished
  BY DEF WriteBackData, WriteBackName, Killed, Crash, Sync, Renamed, Synced, Finished
<1>1. Synced \subseteq Finished /\ Finished \subseteq Runs
  BY DEF Finished, Synced, Renamed
<1>2. ASSUME NEW i \in Inodes, WriteBackData(i) PROVE TornInv'
  <2>1. /\ diskData' = [diskData EXCEPT ![i] = data[i]]
        /\ UNCHANGED <<dir, data, diskDir, life>>
    BY <1>2 DEF WriteBackData
  <2>2. Types' /\ OldWhole'
    BY <1>0, <2>1, Distinct DEF Types, OldWhole
  <2>3. SyncedWhole'
    BY <1>0, <1>1, <2>1, Distinct DEF Types, SyncedWhole
  <2> QED
    BY <1>0, <2>1, <2>2, <2>3 DEF OldOrNew, FinishedWhole
<1>3. ASSUME NEW n \in Names, WriteBackName(n) PROVE TornInv'
  <2>1. /\ diskDir' = [diskDir EXCEPT ![n] = dir[n]]
        /\ UNCHANGED <<dir, data, diskData, life>>
    BY <1>3 DEF WriteBackName
  <2>2. Types' /\ diskDir'[Dest] \in {dir[Dest], diskDir[Dest]}
    BY <1>0, <2>1, Distinct DEF Types
  <2> QED
    BY <1>0, <2>1, <2>2 DEF OldOrNew, OldWhole, FinishedWhole, SyncedWhole
<1>4. CASE Killed
  <2>1. UNCHANGED <<dir, data, diskDir, diskData>> /\ life = "up" /\ life' = "killed"
    BY <1>4 DEF Killed
  <2> QED
    BY <1>0, <2>1 DEF Types, OldWhole, OldOrNew, FinishedWhole, SyncedWhole
<1>5. CASE Crash
  <2>1. dir' = diskDir /\ data' = diskData /\ UNCHANGED <<diskDir, diskData>> /\ life' = "crashed"
    BY <1>5 DEF Crash
  <2> QED
    BY <1>0, <2>1 DEF Types, OldWhole, OldOrNew, FinishedWhole, SyncedWhole
<1> QED
  BY <1>2, <1>3, <1>4, <1>5

LEMMA TornStep == TornInv /\ [Next]_vars => TornInv'
<1> SUFFICES ASSUME TornInv, [Next]_vars PROVE TornInv'
  OBVIOUS
<1>1. CASE Next
  BY <1>1, TornRunStep, TornSystemStep DEF Next
<1>2. CASE UNCHANGED vars
  BY <1>2 DEF vars, fs, disk, Sync, TornInv, Types, OldWhole, OldOrNew, FinishedWhole, SyncedWhole,
              Renamed, Synced, Finished
<1> QED
  BY <1>1, <1>2

(* Whatever the runs do and whenever the process dies, the destination      *)
(* leads to a whole file or to none; whenever the machine crashes too,      *)
(* unless --no-sync was given (Output::create, publish).                    *)
THEOREM NoTornDestination == Spec => []NeverTorn
<1>1. TornInv => NeverTorn
  <2> SUFFICES ASSUME TornInv, Sync \/ life # "crashed", dir[Dest] # None
               PROVE  data[dir[Dest]] = "whole"
    BY DEF NeverTorn
  <2>1. CASE dir[Dest] = Old
    BY <2>1 DEF TornInv, OldWhole
  <2>2. ASSUME NEW r \in Renamed, dir[Dest] = New(r) PROVE data[New(r)] = "whole"
    BY <2>2 DEF TornInv, FinishedWhole, SyncedWhole, Finished, Synced
  <2> QED
    BY <2>1, <2>2 DEF TornInv, OldOrNew
<1> QED
  BY <1>1, TornInit, TornStep, PTL DEF Spec

-------------------------------------------------------------------------------
(* Without --force, a destination that exists, exists on disk, and no run   *)
(* is past the check.                                                       *)
AtCheck == \A r \in Runs : pc[r] \in {"begin", "refused"}
UnforcedInv ==
  ~ Forced /\ Old \in {dir[Dest], diskDir[Dest]} =>
    dir[Dest] = Old /\ diskDir[Dest] = Old /\ AtCheck

LEMMA UnforcedInit == Init => UnforcedInv
BY DEF Init, UnforcedInv, AtCheck

(* The destination only ever goes over to a run's own output, and only      *)
(* Begin is a run's step from the check.                                    *)
LEMMA KeptRunStep ==
  ASSUME TornInv, UnforcedInv, NEW r \in Runs, Step(r)
  PROVE  UnforcedInv' /\ (~ Forced /\ dir[Dest] = Old => dir'[Dest] = Old)
<1>0. Forced' = Forced
  BY DEF Step, Begin, TakeNumber, OpenTemp, TempTaken, CloneHandle, WriteSome, FinishSink, WriteFails,
         SyncFile, SyncFails, Rename, RenameFails, SyncDir, SkipDir, Discard, Goes, Forced
<1> SUFFICES ASSUME ~ Forced
             PROVE  UnforcedInv' /\ (dir[Dest] = Old => dir'[Dest] = Old)
  BY <1>0 DEF UnforcedInv
<1>1. dir'[Dest] \in {dir[Dest], New(r)} /\ diskDir'[Dest] \in {diskDir[Dest], dir[Dest]}
  <2>1. CASE OpenTemp(r) \/ Discard(r)
    BY <2>1, Distinct DEF OpenTemp, Discard, disk, TornInv, Types
  <2>2. CASE Rename(r)
    BY <2>2, Distinct DEF Rename, disk, TornInv, Types
  <2>3. CASE SyncDir(r)
    BY <2>3 DEF SyncDir, fs
  <2>4. CASE ~ (OpenTemp(r) \/ Discard(r) \/ Rename(r) \/ SyncDir(r))
    BY <2>4 DEF Step, Begin, TakeNumber, TempTaken, CloneHandle, WriteSome, FinishSink, WriteFails,
                SyncFile, SyncFails, RenameFails, SkipDir, fs, disk
  <2> QED
    BY <2>1, <2>2, <2>3, <2>4
<1>2. CASE Old \notin {dir[Dest], diskDir[Dest]}
  BY <1>1, <1>2, Distinct DEF UnforcedInv
<1>3. CASE Old \in {dir[Dest], diskDir[Dest]}
  <2>1. dir[Dest] = Old /\ diskDir[Dest] = Old /\ AtCheck
    BY <1>3 DEF UnforcedInv
  <2>2. Begin(r)
    BY <2>1 DEF AtCheck, Step, Begin, TakeNumber, OpenTemp, TempTaken, CloneHandle, WriteSome,
                FinishSink, WriteFails, SyncFile, SyncFails, Rename, RenameFails, SyncDir, SkipDir,
                Discard, Goes
  <2>3. AtCheck'
    BY <2>1, <2>2, Distinct DEF Begin, Goes, AtCheck, TornInv, Types
  <2>4. dir' = dir /\ diskDir' = diskDir
    BY <2>2 DEF Begin, fs, disk
  <2> QED
    BY <2>1, <2>3, <2>4 DEF UnforcedInv
<1> QED
  BY <1>2, <1>3

LEMMA UnforcedStep ==
  ASSUME TornInv, UnforcedInv, [Next]_vars
  PROVE  UnforcedInv' /\ (~ Forced /\ dir[Dest] = Old => dir'[Dest] = Old)
<1> USE DEF fs, disk, run
<1>1. ASSUME NEW r \in Runs, Step(r)
      PROVE  UnforcedInv' /\ (~ Forced /\ dir[Dest] = Old => dir'[Dest] = Old)
  BY <1>1, KeptRunStep
<1>2. ASSUME NEW n \in Names, WriteBackName(n)
      PROVE  UnforcedInv' /\ (~ Forced /\ dir[Dest] = Old => dir'[Dest] = Old)
  <2>1. /\ dir' = dir /\ pc' = pc /\ Forced' = Forced
        /\ diskDir'[Dest] \in {dir[Dest], diskDir[Dest]}
    BY <1>2, Distinct DEF WriteBackName, Forced, TornInv, Types
  <2>2. AtCheck' <=> AtCheck
    BY <2>1 DEF AtCheck
  <2> QED
    BY <2>1, <2>2 DEF UnforcedInv
<1>3. CASE Crash
  <2>1. dir' = diskDir /\ diskDir' = diskDir /\ (AtCheck' <=> AtCheck) /\ Forced' = Forced
    BY <1>3 DEF Crash, AtCheck, Forced
  <2>2. UnforcedInv'
    BY <2>1 DEF UnforcedInv
  <2>3. ~ Forced /\ dir[Dest] = Old => dir'[Dest] = Old
    BY <2>1 DEF UnforcedInv
  <2> QED
    BY <2>2, <2>3
<1>4. CASE Killed \/ (\E i \in Inodes : WriteBackData(i)) \/ UNCHANGED vars
  <2>1. dir' = dir /\ diskDir' = diskDir /\ (AtCheck' <=> AtCheck) /\ Forced' = Forced
    BY <1>4 DEF Killed, WriteBackData, vars, AtCheck, Forced
  <2> QED
    BY <2>1 DEF UnforcedInv
<1> QED
  BY <1>1, <1>2, <1>3, <1>4 DEF Next

(* Without --force an existing destination is kept, by every step of every  *)
(* run and by a crash (Output::create).                                     *)
THEOREM NeverReplacedUnforced == Spec => KeptWithoutForce
<1>1. ASSUME TornInv, UnforcedInv, [Next]_vars
      PROVE  [~ Forced /\ dir[Dest] = Old => dir'[Dest] = Old]_vars
  BY <1>1, UnforcedStep
<1>2. TornInv /\ UnforcedInv /\ [Next]_vars => UnforcedInv'
  BY UnforcedStep
<1>3. Spec => []TornInv
  BY TornInit, TornStep, PTL DEF Spec
<1>4. Spec => []UnforcedInv
  BY <1>2, <1>3, UnforcedInit, PTL DEF Spec
<1> QED
  BY <1>1, <1>3, <1>4, PTL DEF Spec, KeptWithoutForce

-------------------------------------------------------------------------------
(* The temporaries' names.                                                  *)

(* The runs that have a temporary's name to themselves, or had.             *)
Holding == {r \in Runs : pc[r] \notin {"begin", "refused", "number", "locked"}}

(* Where a temporary's name may lead: a leftover, or the file of the run    *)
(* that took its number.                                                    *)
Leftover(i, n) == i = Litter /\ n \in Debris
Taken(i, n) ==
  \E r \in Holding : i = New(r) /\ number[r] = n /\ pc[r] \notin {"open", "syncdir", "ok"}

(* Each number is one run's.                                                *)
Counters ==
  /\ next \in Nat /\ number \in [Runs -> Nat] /\ attempt \in [Runs -> Nat]
  /\ renamed \in Seq(Runs) /\ durable \subseteq Runs /\ options \in Options
OwnNumbers ==
  /\ \A r \in Holding : number[r] < next
  /\ \A r, s \in Holding : number[r] = number[s] => r = s
TempNames ==
  life # "crashed" =>
    \A n \in Numbers :
      dir[Tmp(n)] = None \/ Leftover(dir[Tmp(n)], n) \/ Taken(dir[Tmp(n)], n)

NamesInv == TornInv /\ Counters /\ OwnNumbers /\ TempNames

-------------------------------------------------------------------------------
LEMMA MoreDistinct ==
  /\ \A n \in Numbers : Tmp(n) \in Names
  /\ \A n, m \in Numbers : Tmp(n) = Tmp(m) => n = m
  /\ \A n \in Numbers : Tmp(n) # Dest
  /\ \A r \in Runs : New(r) # Litter
  /\ \A x \in Names : x = Dest \/ \E n \in Numbers : x = Tmp(n)
  /\ None # Litter /\ None # Old
BY DEF Dest, Names, Tmp, None, Inodes, Old, Litter, New

LEMMA NamesInit == Init => NamesInv
<1> SUFFICES ASSUME Init PROVE NamesInv
  OBVIOUS
<1>1. TornInv
  BY TornInit
<1>2. Counters
  BY DEF Init, Counters
<1>3. OwnNumbers
  BY DEF Init, OwnNumbers, Holding
<1>4. TempNames
  <2>1. \A n \in Numbers : dir[Tmp(n)] \in (IF n \in Debris THEN {None, Litter} ELSE {None})
    BY DEF Init
  <2> QED
    BY <2>1 DEF TempNames, Leftover
<1> QED
  BY <1>1, <1>2, <1>3, <1>4 DEF NamesInv

(* A run that moves on with its number, or without one, and no name moves.  *)
LEMMA NamesQuiet ==
  ASSUME NamesInv, TornInv', NEW r \in Runs, NEW from, NEW to, Goes(r, from, to),
         dir' = dir, UNCHANGED <<next, number>>,
         attempt' \in [Runs -> Nat], renamed' \in Seq(Runs), durable' \subseteq Runs,
         to \notin {"begin", "refused", "number", "locked"} =>
           from \notin {"begin", "refused", "number", "locked"},
         to \in {"open", "syncdir", "ok", "begin", "refused", "number", "locked"} =>
           from \in {"open", "syncdir", "ok", "begin", "refused", "number", "locked"}
  PROVE  NamesInv'
<1> USE DEF NamesInv
<1>1. Counters'
  BY DEF Counters, Goes
<1>2. /\ Holding' \subseteq Holding
      /\ \A s \in Runs \ {r} : pc'[s] = pc[s] /\ (s \in Holding' <=> s \in Holding)
      /\ pc[r] = from /\ pc'[r] = to /\ life' = life
  BY DEF Goes, Holding, TornInv, Types
<1>3. OwnNumbers'
  BY <1>2 DEF OwnNumbers
<1>4. ASSUME NEW i, NEW n, Taken(i, n) PROVE Taken(i, n)'
  <2>1. PICK s \in Holding : i = New(s) /\ number[s] = n /\ pc[s] \notin {"open", "syncdir", "ok"}
    BY <1>4 DEF Taken
  <2>2. CASE s # r
    BY <1>2, <2>1, <2>2 DEF Taken, Holding
  <2>3. CASE s = r
    <3>1. from \notin {"open", "syncdir", "ok", "begin", "refused", "number", "locked"}
      BY <1>2, <2>1, <2>3 DEF Holding
    <3>2. to \notin {"open", "syncdir", "ok", "begin", "refused", "number", "locked"}
      BY <3>1
    <3>3. s \in Holding' /\ pc'[s] \notin {"open", "syncdir", "ok"}
      BY <1>2, <2>3, <3>2 DEF Holding
    <3> QED
      BY <2>1, <3>3 DEF Taken
  <2> QED
    BY <2>2, <2>3
<1>5. TempNames'
  BY <1>2, <1>4 DEF TempNames, Leftover
<1> QED
  BY <1>1, <1>3, <1>5

(* The counter gives each run a number of its own.                          *)
LEMMA NamesTake ==
  ASSUME NamesInv, TornInv', NEW r \in Runs, TakeNumber(r)
  PROVE  NamesInv'
<1> USE DEF NamesInv
<1>1. /\ number' = [number EXCEPT ![r] = next] /\ next' = next + 1 /\ dir' = dir
      /\ UNCHANGED <<attempt, renamed, durable, life, options>>
      /\ pc[r] = "number" /\ pc' = [pc EXCEPT ![r] = "open"]
  BY DEF TakeNumber, Goes, fs
<1>2. Counters'
  BY <1>1 DEF Counters
<1>3. /\ \A s \in Runs \ {r} : pc'[s] = pc[s] /\ (s \in Holding' <=> s \in Holding)
                               /\ number'[s] = number[s]
      /\ number'[r] = next /\ pc'[r] = "open" /\ r \notin Holding /\ Holding' = Holding \cup {r}
  BY <1>1 DEF Counters, Holding, TornInv, Types
<1>4. OwnNumbers'
  BY <1>1, <1>3 DEF OwnNumbers, Counters, Holding
<1>5. ASSUME NEW i, NEW n, Taken(i, n) PROVE Taken(i, n)'
  BY <1>3, <1>5 DEF Taken, Holding
<1>6. TempNames'
  BY <1>1, <1>5 DEF TempNames, Leftover
<1> QED
  BY <1>2, <1>4, <1>6

(* The name is opened under the run's own number.                           *)
LEMMA NamesOpen ==
  ASSUME NamesInv, TornInv', NEW r \in Runs, OpenTemp(r)
  PROVE  NamesInv'
<1> USE DEF NamesInv
<1>1. /\ dir' = [dir EXCEPT ![Temp(r)] = New(r)] /\ UNCHANGED <<next, number, life, options>>
      /\ pc[r] = "open" /\ pc' = [pc EXCEPT ![r] = "opened"]
      /\ UNCHANGED <<attempt, renamed, durable>>
  BY DEF OpenTemp, Goes, run
<1>2. Counters'
  BY <1>1 DEF Counters
<1>3. /\ \A s \in Runs \ {r} : pc'[s] = pc[s]
      /\ pc'[r] = "opened" /\ r \in Holding /\ Holding' = Holding
  BY <1>1 DEF Holding, TornInv, Types
<1>4. OwnNumbers'
  BY <1>1, <1>3 DEF OwnNumbers
<1>5. ASSUME NEW i, NEW n, Taken(i, n) PROVE Taken(i, n)'
  BY <1>1, <1>3, <1>5 DEF Taken, Holding
<1>6. ASSUME NEW n \in Numbers, life # "crashed"
      PROVE  dir'[Tmp(n)] = None \/ Leftover(dir'[Tmp(n)], n) \/ Taken(dir[Tmp(n)], n)'
  <2>1. CASE Tmp(n) = Temp(r)
    <3>1. number[r] = n
      BY <2>1 DEF Temp, Tmp
    <3>2. dir'[Tmp(n)] = New(r)
      BY <1>1, <2>1, MoreDistinct DEF TornInv, Types
    <3>3. Taken(New(r), n)'
      BY <1>1, <1>3, <3>1 DEF Taken
    <3> QED
      BY <3>2, <3>3 DEF Taken
  <2>2. CASE Tmp(n) # Temp(r)
    <3>1. dir'[Tmp(n)] = dir[Tmp(n)]
      BY <1>1, <2>2, MoreDistinct DEF TornInv, Types
    <3> QED
      BY <1>5, <1>6, <3>1 DEF TempNames
  <2> QED
    BY <2>1, <2>2
<1>7. TempNames'
  BY <1>1, <1>6 DEF TempNames, Leftover, Taken
<1> QED
  BY <1>2, <1>4, <1>7

(* The name is given up, by the rename or the removal.                      *)
LEMMA NamesGive ==
  ASSUME NamesInv, TornInv', NEW r \in Runs, Rename(r) \/ Discard(r)
  PROVE  NamesInv'
<1> USE DEF NamesInv
<1>1. /\ UNCHANGED <<next, number, life, options, attempt, durable>>
      /\ pc[r] \in {"rename", "discard"}
      /\ pc' = [pc EXCEPT ![r] = IF pc[r] = "rename" THEN "syncdir" ELSE "failed"]
      /\ dir' = IF pc[r] = "rename" THEN [dir EXCEPT ![Dest] = New(r), ![Temp(r)] = None]
                ELSE [dir EXCEPT ![Temp(r)] = None]
      /\ renamed' \in {renamed, Append(renamed, r)}
  BY DEF Rename, Discard, Goes, run
<1>2. Counters'
  <2>1. renamed \in Seq(Runs)
    BY DEF Counters
  <2>2. renamed' \in Seq(Runs)
    BY <1>1, <2>1
  <2> QED
    BY <1>1, <2>2 DEF Counters
<1>3. /\ \A s \in Runs \ {r} : pc'[s] = pc[s]
      /\ r \in Holding /\ Holding' = Holding
  BY <1>1 DEF Holding, TornInv, Types
<1>4. OwnNumbers'
  BY <1>1, <1>3 DEF OwnNumbers
<1>5. ASSUME NEW n \in Numbers
      PROVE  /\ n = number[r] => dir'[Tmp(n)] = None
             /\ n # number[r] => dir'[Tmp(n)] = dir[Tmp(n)]
  <2>1. Tmp(n) \in Names /\ Tmp(n) # Dest
    BY MoreDistinct
  <2>2. (Tmp(n) = Temp(r)) <=> (n = number[r])
    BY DEF Temp, Tmp
  <2>3. dir' \in [Names -> Inodes \cup {None}] /\ dir \in [Names -> Inodes \cup {None}]
    BY DEF TornInv, Types
  <2> QED
    BY <1>1, <2>1, <2>2, <2>3
<1>6. ASSUME NEW i, NEW n, n # number[r], Taken(i, n) PROVE Taken(i, n)'
  BY <1>1, <1>3, <1>6 DEF Taken, Holding
<1>7. TempNames'
  BY <1>1, <1>5, <1>6 DEF TempNames, Leftover
<1> QED
  BY <1>2, <1>4, <1>7

LEMMA NamesStep == NamesInv /\ [Next]_vars => NamesInv'
<1> SUFFICES ASSUME NamesInv, [Next]_vars PROVE NamesInv'
  OBVIOUS
<1> USE DEF fs, disk, run
<1>0. TornInv /\ TornInv' /\ Counters
  BY TornStep DEF NamesInv
<1>1. ASSUME NEW r \in Runs, Step(r) PROVE NamesInv'
  <2>1. CASE Begin(r)
    <3> DEFINE to == IF ~ Forced /\ dir[Dest] # None THEN "refused" ELSE "number"
    <3>1. to \in {"refused", "number"} /\ Goes(r, "begin", to)
      BY <2>1 DEF Begin
    <3> HIDE DEF to
    <3> QED
      BY <1>0, <2>1, <3>1, NamesQuiet DEF Begin, Counters
  <2>2. CASE TakeNumber(r)
    BY <1>0, <2>2, NamesTake
  <2>3. CASE OpenTemp(r)
    BY <1>0, <2>3, NamesOpen
  <2>4. CASE TempTaken(r)
    <3> DEFINE to == IF attempt[r] + 1 >= MaxAttempts THEN "locked" ELSE "number"
    <3>1. to \in {"locked", "number"} /\ Goes(r, "open", to)
      BY <2>4 DEF TempTaken
    <3>2. attempt' \in [Runs -> Nat]
      BY <1>0, <2>4 DEF TempTaken, Counters
    <3> HIDE DEF to
    <3> QED
      BY <1>0, <2>4, <3>1, <3>2, NamesQuiet DEF TempTaken, Counters
  <2>5. CASE CloneHandle(r)
    BY <1>0, <2>5, NamesQuiet DEF CloneHandle, Counters
  <2>6. CASE WriteSome(r)
    BY <1>0, <2>6, NamesQuiet DEF WriteSome, Counters
  <2>7. CASE FinishSink(r)
    BY <1>0, <2>7, NamesQuiet DEF FinishSink, Counters
  <2>8. CASE WriteFails(r)
    BY <1>0, <2>8, NamesQuiet DEF WriteFails, Counters
  <2>9. CASE SyncFile(r)
    BY <1>0, <2>9, NamesQuiet DEF SyncFile, Counters
  <2>10. CASE SyncFails(r)
    BY <1>0, <2>10, NamesQuiet DEF SyncFails, Counters
  <2>11. CASE Rename(r) \/ Discard(r)
    BY <1>0, <2>11, NamesGive
  <2>12. CASE RenameFails(r)
    BY <1>0, <2>12, NamesQuiet DEF RenameFails, Counters
  <2>13. CASE SyncDir(r)
    <3>1. durable' \subseteq Runs
      BY <1>0, <2>13 DEF SyncDir, Counters
    <3> QED
      BY <1>0, <2>13, <3>1, NamesQuiet DEF SyncDir, Counters
  <2>14. CASE SkipDir(r)
    BY <1>0, <2>14, NamesQuiet DEF SkipDir, Counters
  <2> QED
    BY <1>1, <2>1, <2>2, <2>3, <2>4, <2>5, <2>6, <2>7, <2>8, <2>9, <2>10, <2>11, <2>12, <2>13,
       <2>14 DEF Step
<1>2. ASSUME UNCHANGED <<options, pc, next, number, attempt, renamed, durable>>,
             life' = "crashed" \/ (dir' = dir /\ life' = life)
      PROVE  NamesInv'
  <2>1. Counters' /\ OwnNumbers' /\ Holding' = Holding
    BY <1>2 DEF NamesInv, Counters, OwnNumbers, Holding
  <2>2. TempNames'
    BY <1>2, <2>1 DEF NamesInv, TempNames, Leftover, Taken
  <2> QED
    BY <1>0, <2>1, <2>2 DEF NamesInv
<1>3. CASE Killed
  <2>1. TempNames'
    BY <1>3 DEF Killed, NamesInv, TempNames, Leftover, Taken, Holding
  <2>2. Counters' /\ OwnNumbers'
    BY <1>3 DEF Killed, NamesInv, Counters, OwnNumbers, Holding
  <2> QED
    BY <1>0, <2>1, <2>2 DEF NamesInv
<1>4. CASE (\E i \in Inodes : WriteBackData(i)) \/ (\E n \in Names : WriteBackName(n)) \/ Crash
  BY <1>2, <1>4 DEF WriteBackData, WriteBackName, Crash
<1>5. CASE UNCHANGED vars
  BY <1>2, <1>5 DEF vars
<1> QED
  BY <1>1, <1>3, <1>4, <1>5 DEF Next

LEMMA NamesAlways == Spec => []NamesInv
BY NamesInit, NamesStep, PTL DEF Spec

-------------------------------------------------------------------------------
(* The state keeps its types, and no run's file has two names while the     *)
(* machine is up.                                                           *)
THEOREM AtomicTypes == Spec => []TypeOK
<1>1. NamesInv => TypeOK
  <2> SUFFICES ASSUME NamesInv PROVE TypeOK
    OBVIOUS
  <2>1. ASSUME NEW r \in Runs, life # "crashed"
        PROVE  Cardinality({n \in Names : dir[n] = New(r)}) <= 1
    <3> DEFINE S == {n \in Names : dir[n] = New(r)}
    <3>1. ASSUME NEW n \in S
          PROVE  \/ n = Dest /\ pc[r] \in {"syncdir", "ok"}
                 \/ n = Tmp(number[r]) /\ pc[r] \notin {"syncdir", "ok"}
      <4>1. CASE n = Dest
        <5>1. New(r) \in {None, Old} \cup {New(s) : s \in Renamed}
          BY <4>1 DEF NamesInv, TornInv, OldOrNew
        <5>2. r \in Renamed
          BY <5>1, Distinct DEF Renamed
        <5> QED
          BY <4>1, <5>2 DEF Renamed
      <4>2. ASSUME NEW m \in Numbers, n = Tmp(m)
            PROVE  n = Tmp(number[r]) /\ pc[r] \notin {"syncdir", "ok"}
        <5>1. Taken(New(r), m)
          BY <2>1, <4>2, Distinct, MoreDistinct DEF NamesInv, TempNames, Leftover
        <5> QED
          BY <4>2, <5>1, Distinct DEF Taken, Holding
      <4> QED
        BY <4>1, <4>2, MoreDistinct
    <3>2. S \subseteq {Dest} \/ S \subseteq {Tmp(number[r])}
      BY <3>1
    <3>3. \A x : IsFiniteSet({x}) /\ Cardinality({x}) = 1
      BY FS_Singleton
    <3>4. \A x : S \subseteq {x} => Cardinality(S) <= 1
      <4> HIDE DEF S
      <4> SUFFICES ASSUME NEW x, S \subseteq {x} PROVE Cardinality(S) <= 1
        OBVIOUS
      <4>1. Cardinality(S) <= Cardinality({x})
        BY <3>3, FS_Subset
      <4> QED
        BY <3>3, <4>1
    <3> QED
      BY <3>2, <3>4
  <2>2. \A r \in Runs : Cardinality({n \in Names : dir[n] = New(r)}) <= 1 \/ life = "crashed"
    BY <2>1
  <2> QED
    BY <2>2 DEF TypeOK, NamesInv, TornInv, Types, Counters
<1> QED
  BY <1>1, NamesAlways, PTL

-------------------------------------------------------------------------------
(* The last output renamed is the one the destination leads to, until a     *)
(* crash; what is durable of the name is no older than any synced output.   *)
LastOf(d, j) == j \in DOMAIN renamed /\ d[Dest] = New(renamed[j])
NoOlder(r, j) == \A i \in DOMAIN renamed : renamed[i] = r => i <= j

RenamedIsListed ==
  /\ Renamed # {} => renamed # << >>
  /\ durable \subseteq {r \in Runs : pc[r] = "ok"}
NameIsLast == life # "crashed" /\ renamed # << >> => LastOf(dir, Len(renamed))
DiskIsRecent == \A r \in durable : \E j \in DOMAIN renamed : LastOf(diskDir, j) /\ NoOlder(r, j)
CrashReadsDisk == life = "crashed" => dir[Dest] = diskDir[Dest]

DurableInv == NamesInv /\ RenamedIsListed /\ NameIsLast /\ DiskIsRecent /\ CrashReadsDisk

LEMMA DurableInit == Init => DurableInv
<1>1. Init => NamesInv
  BY NamesInit
<1>2. Init => RenamedIsListed /\ NameIsLast /\ DiskIsRecent /\ CrashReadsDisk
  BY DEF Init, RenamedIsListed, NameIsLast, DiskIsRecent, CrashReadsDisk, Renamed
<1> QED
  BY <1>1, <1>2 DEF DurableInv

(* A step that renames nothing and moves no run to or from its renaming.    *)
LEMMA DurableQuiet ==
  ASSUME DurableInv, NamesInv', NEW r \in Runs, NEW from, NEW to, Goes(r, from, to),
         dir'[Dest] = dir[Dest], UNCHANGED <<diskDir, renamed, durable>>,
         from \notin {"ok"}, to \in {"syncdir", "ok"} => from = "syncdir"
  PROVE  DurableInv'
<1> USE DEF DurableInv
<1>1. Renamed' \subseteq Renamed /\ life' = life /\ life = "up"
  BY DEF Goes, Renamed, NamesInv, TornInv, Types
<1>2. RenamedIsListed'
  BY <1>1 DEF RenamedIsListed, Goes, NamesInv, TornInv, Types
<1>3. NameIsLast' /\ DiskIsRecent' /\ CrashReadsDisk'
  BY <1>1 DEF NameIsLast, DiskIsRecent, CrashReadsDisk, LastOf, NoOlder
<1> QED
  BY <1>2, <1>3

LEMMA DurableRename ==
  ASSUME DurableInv, NamesInv', NEW r \in Runs, Rename(r)
  PROVE  DurableInv'
<1> USE DEF DurableInv
<1>1. /\ renamed' = Append(renamed, r) /\ UNCHANGED <<diskDir, durable, life>>
      /\ dir' = [dir EXCEPT ![Dest] = New(r), ![Temp(r)] = None]
      /\ pc[r] = "rename" /\ pc' = [pc EXCEPT ![r] = "syncdir"] /\ life = "up"
  BY DEF Rename, Goes, disk
<1>2. dir'[Dest] = New(r)
  BY <1>1, Distinct DEF NamesInv, TornInv, Types
<1>3. renamed \in Seq(Runs)
  BY DEF NamesInv, Counters
<1>4. /\ Len(renamed') = Len(renamed) + 1 /\ Len(renamed) \in Nat
      /\ DOMAIN renamed' = 1 .. Len(renamed) + 1 /\ DOMAIN renamed = 1 .. Len(renamed)
      /\ renamed'[Len(renamed) + 1] = r
      /\ \A i \in DOMAIN renamed : renamed'[i] = renamed[i]
  BY <1>1, <1>3
<1>5. r \notin durable
  BY <1>1 DEF RenamedIsListed
<1>6. RenamedIsListed'
  BY <1>1, <1>4, <1>5 DEF RenamedIsListed, NamesInv, TornInv, Types
<1>7. NameIsLast' /\ CrashReadsDisk'
  BY <1>1, <1>2, <1>4 DEF NameIsLast, LastOf, CrashReadsDisk
<1>8. ASSUME NEW s \in durable
      PROVE  \E j \in DOMAIN renamed' : LastOf(diskDir, j)' /\ NoOlder(s, j)'
  <2>1. PICK j \in DOMAIN renamed : LastOf(diskDir, j) /\ NoOlder(s, j)
    BY DEF DiskIsRecent
  <2>2. LastOf(diskDir, j)' /\ j \in DOMAIN renamed'
    BY <1>1, <1>4, <2>1 DEF LastOf
  <2>3. NoOlder(s, j)'
    BY <1>4, <1>5, <2>1 DEF NoOlder
  <2> QED
    BY <2>2, <2>3
<1>9. DiskIsRecent'
  BY <1>1, <1>8 DEF DiskIsRecent
<1> QED
  BY <1>6, <1>7, <1>9

(* What the program sees of the name reaches the disk.                      *)
LEMMA DurableWrites ==
  ASSUME DurableInv, NamesInv', diskDir'[Dest] \in {dir[Dest], diskDir[Dest]},
         life # "crashed", life' # "crashed", dir' = dir, renamed' = renamed, pc' \in [Runs -> Places],
         \A r \in Runs : pc[r] \in {"syncdir", "ok"} <=> pc'[r] \in {"syncdir", "ok"},
         \A r \in Runs : pc[r] = "ok" => pc'[r] = "ok",
         \A r \in durable' : r \in Runs /\ pc'[r] = "ok" /\ (r \in durable \/ diskDir'[Dest] = dir[Dest])
  PROVE  DurableInv'
<1> USE DEF DurableInv
<1>1. Renamed' = Renamed
  BY DEF Renamed
<1>2. RenamedIsListed' /\ NameIsLast' /\ CrashReadsDisk'
  BY <1>1 DEF RenamedIsListed, NameIsLast, CrashReadsDisk, LastOf
<1>3. ASSUME NEW r \in durable'
      PROVE  \E j \in DOMAIN renamed' : LastOf(diskDir, j)' /\ NoOlder(r, j)'
  <2>1. CASE diskDir'[Dest] = dir[Dest]
    <3>1. renamed # << >>
      BY DEF RenamedIsListed, Renamed
    <3>2. renamed \in Seq(Runs)
      BY DEF NamesInv, Counters
    <3>3. Len(renamed) \in DOMAIN renamed /\ \A i \in DOMAIN renamed : i <= Len(renamed)
      BY <3>1, <3>2
    <3>4. LastOf(diskDir, Len(renamed))' /\ NoOlder(r, Len(renamed))'
      BY <2>1, <3>1, <3>3 DEF NameIsLast, LastOf, NoOlder
    <3> QED
      BY <3>3, <3>4
  <2>2. CASE diskDir'[Dest] # dir[Dest]
    BY <2>2 DEF DiskIsRecent, LastOf, NoOlder
  <2> QED
    BY <2>1, <2>2
<1> QED
  BY <1>2, <1>3 DEF DiskIsRecent

LEMMA DurableStep == DurableInv /\ [Next]_vars => DurableInv'
<1> SUFFICES ASSUME DurableInv, [Next]_vars PROVE DurableInv'
  OBVIOUS
<1> USE DEF fs, disk, run
<1>0. /\ NamesInv /\ NamesInv' /\ pc \in [Runs -> Places] /\ pc' \in [Runs -> Places]
      /\ dir \in [Names -> Inodes \cup {None}] /\ diskDir \in [Names -> Inodes \cup {None}]
  BY NamesStep DEF DurableInv, NamesInv, TornInv, Types
<1>1. ASSUME NEW r \in Runs, Step(r) PROVE DurableInv'
  <2>1. CASE Begin(r)
    <3> DEFINE to == IF ~ Forced /\ dir[Dest] # None THEN "refused" ELSE "number"
    <3>1. to \in {"refused", "number"} /\ Goes(r, "begin", to)
      BY <2>1 DEF Begin
    <3> HIDE DEF to
    <3> QED
      BY <1>0, <2>1, <3>1, DurableQuiet DEF Begin
  <2>2. CASE TakeNumber(r)
    BY <1>0, <2>2, DurableQuiet DEF TakeNumber
  <2>3. CASE OpenTemp(r)
    <3>1. dir'[Dest] = dir[Dest]
      BY <1>0, <2>3, Distinct DEF OpenTemp
    <3> QED
      BY <1>0, <2>3, <3>1, DurableQuiet DEF OpenTemp
  <2>4. CASE TempTaken(r)
    <3> DEFINE to == IF attempt[r] + 1 >= MaxAttempts THEN "locked" ELSE "number"
    <3>1. to \in {"locked", "number"} /\ Goes(r, "open", to)
      BY <2>4 DEF TempTaken
    <3> HIDE DEF to
    <3> QED
      BY <1>0, <2>4, <3>1, DurableQuiet DEF TempTaken
  <2>5. CASE CloneHandle(r)
    BY <1>0, <2>5, DurableQuiet DEF CloneHandle
  <2>6. CASE WriteSome(r)
    BY <1>0, <2>6, DurableQuiet DEF WriteSome
  <2>7. CASE FinishSink(r)
    BY <1>0, <2>7, DurableQuiet DEF FinishSink
  <2>8. CASE WriteFails(r)
    BY <1>0, <2>8, DurableQuiet DEF WriteFails
  <2>9. CASE SyncFile(r)
    BY <1>0, <2>9, DurableQuiet DEF SyncFile
  <2>10. CASE SyncFails(r)
    BY <1>0, <2>10, DurableQuiet DEF SyncFails
  <2>11. CASE Rename(r)
    BY <1>0, <2>11, DurableRename
  <2>12. CASE RenameFails(r)
    BY <1>0, <2>12, DurableQuiet DEF RenameFails
  <2>13. CASE SyncDir(r)
    <3>1. /\ life = "up" /\ life' = "up" /\ pc[r] = "syncdir" /\ pc' = [pc EXCEPT ![r] = "ok"]
          /\ diskDir' = dir /\ dir' = dir /\ renamed' = renamed /\ durable' = durable \cup {r}
      BY <2>13 DEF SyncDir, Goes
    <3>2. /\ \A s \in Runs : pc[s] \in {"syncdir", "ok"} <=> pc'[s] \in {"syncdir", "ok"}
          /\ \A s \in Runs : pc[s] = "ok" => pc'[s] = "ok"
          /\ \A s \in durable' : s \in Runs /\ pc'[s] = "ok"
      BY <1>0, <3>1 DEF DurableInv, RenamedIsListed
    <3> QED
      BY <1>0, <3>1, <3>2, DurableWrites
  <2>14. CASE SkipDir(r)
    BY <1>0, <2>14, DurableQuiet DEF SkipDir
  <2>15. CASE Discard(r)
    <3>1. dir'[Dest] = dir[Dest]
      BY <1>0, <2>15, Distinct DEF Discard
    <3> QED
      BY <1>0, <2>15, <3>1, DurableQuiet DEF Discard
  <2> QED
    BY <1>1, <2>1, <2>2, <2>3, <2>4, <2>5, <2>6, <2>7, <2>8, <2>9, <2>10, <2>11, <2>12, <2>13,
       <2>14, <2>15 DEF Step
<1>2. CASE \E n \in Names : WriteBackName(n)
  <2>1. PICK n \in Names : WriteBackName(n)
    BY <1>2
  <2>2. diskDir'[Dest] \in {dir[Dest], diskDir[Dest]}
    BY <1>0, <2>1, Distinct DEF WriteBackName
  <2>3. \A r \in durable : r \in Runs /\ pc[r] = "ok"
    BY DEF DurableInv, RenamedIsListed
  <2> QED
    BY <1>0, <2>1, <2>2, <2>3, DurableWrites DEF WriteBackName
<1>3. CASE Crash
  BY <1>0, <1>3 DEF Crash, DurableInv, RenamedIsListed, Renamed, NameIsLast, DiskIsRecent,
     CrashReadsDisk, LastOf, NoOlder
<1>4. CASE (\E i \in Inodes : WriteBackData(i)) \/ Killed \/ UNCHANGED vars
  <2>1. /\ UNCHANGED <<dir, diskDir, renamed, durable, pc>>
        /\ life' = life \/ (life = "up" /\ life' = "killed")
    BY <1>4 DEF WriteBackData, Killed, vars
  <2> QED
    BY <1>0, <2>1 DEF DurableInv, RenamedIsListed, Renamed, NameIsLast, DiskIsRecent,
       CrashReadsDisk, LastOf, NoOlder
<1> QED
  BY <1>1, <1>2, <1>3, <1>4 DEF Next

(* What was renamed and its directory fsynced outlives a crash: the         *)
(* destination leads to that output or to one renamed after it.             *)
THEOREM SyncedOutlivesCrash == Spec => []DurableOnceSynced
<1>1. DurableInv => DurableOnceSynced
  <2> SUFFICES ASSUME DurableInv, NEW r \in durable
               PROVE  \E j \in DOMAIN renamed :
                        /\ dir[Dest] = New(renamed[j])
                        /\ \A i \in DOMAIN renamed : renamed[i] = r => i <= j
    BY DEF DurableOnceSynced
  <2>1. CASE life = "crashed"
    BY <2>1 DEF DurableInv, DiskIsRecent, CrashReadsDisk, LastOf, NoOlder
  <2>2. CASE life # "crashed"
    <3>1. renamed # << >> /\ renamed \in Seq(Runs)
      BY DEF DurableInv, RenamedIsListed, Renamed, NamesInv, Counters
    <3>2. Len(renamed) \in DOMAIN renamed /\ \A i \in DOMAIN renamed : i <= Len(renamed)
      BY <3>1
    <3> QED
      BY <2>2, <3>1, <3>2 DEF DurableInv, NameIsLast, LastOf
  <2> QED
    BY <2>1, <2>2
<1> QED
  BY <1>1, DurableInit, DurableStep, PTL DEF Spec

-------------------------------------------------------------------------------
(* Every name a run found taken is a leftover's, and it meets each once.    *)
Below(m) == {n \in Debris : n < m}
UpTo(m) == {n \in Debris : n <= m}

MetOnce(r) ==
  /\ pc[r] # "locked"
  /\ pc[r] = "begin" => attempt[r] = 0
  /\ pc[r] = "open" => attempt[r] <= Cardinality(Below(number[r]))
  /\ pc[r] = "number" =>
       attempt[r] = 0 \/ (number[r] < next /\ attempt[r] <= Cardinality(UpTo(number[r])))

LockInv == NamesInv /\ \A r \in Runs : MetOnce(r)

LEMMA DebrisCounts ==
  /\ \A m : /\ IsFiniteSet(Below(m)) /\ Cardinality(Below(m)) \in Nat
            /\ IsFiniteSet(UpTo(m)) /\ Cardinality(UpTo(m)) \in Nat
            /\ Cardinality(UpTo(m)) <= Cardinality(Debris)
  /\ \A m, k \in Nat : m < k => Cardinality(UpTo(m)) <= Cardinality(Below(k))
  /\ \A m \in Debris : Cardinality(UpTo(m)) = Cardinality(Below(m)) + 1
<1>1. IsFiniteSet(Debris) /\ Debris \subseteq Nat
  BY AtomicAssumption
<1>2. \A m : Below(m) \subseteq Debris /\ UpTo(m) \subseteq Debris
  BY DEF Below, UpTo
<1>3. \A m : /\ IsFiniteSet(Below(m)) /\ Cardinality(Below(m)) \in Nat
            /\ IsFiniteSet(UpTo(m)) /\ Cardinality(UpTo(m)) \in Nat
            /\ Cardinality(UpTo(m)) <= Cardinality(Debris)
  BY <1>1, <1>2, FS_Subset, FS_CardinalityType
<1>4. ASSUME NEW m \in Nat, NEW k \in Nat, m < k
      PROVE  Cardinality(UpTo(m)) <= Cardinality(Below(k))
  <2>1. \A n \in Debris : n <= m => n < k
    BY <1>1, <1>4
  <2>2. UpTo(m) \subseteq Below(k)
    BY <2>1 DEF UpTo, Below
  <2> QED
    BY <1>3, <2>2, FS_Subset
<1>5. ASSUME NEW m \in Debris PROVE Cardinality(UpTo(m)) = Cardinality(Below(m)) + 1
  <2>1. \A n \in Debris : (n <= m <=> n < m \/ n = m) /\ ~ m < m
    BY <1>1
  <2>2. UpTo(m) = Below(m) \cup {m} /\ m \notin Below(m)
    BY <2>1 DEF UpTo, Below
  <2> QED
    BY <1>3, <2>2, FS_AddElement
<1> QED
  BY <1>3, <1>4, <1>5

LEMMA LockInit == Init => LockInv
<1>1. Init => NamesInv
  BY NamesInit
<1>2. Init => \A r \in Runs : MetOnce(r)
  BY DEF Init, MetOnce
<1> QED
  BY <1>1, <1>2 DEF LockInv

(* A taken name was a leftover: it is not the run's own, nor another's.     *)
LEMMA TakenIsLeftover ==
  ASSUME Numbers = Nat, NamesInv, NEW r \in Runs, TempTaken(r)
  PROVE  number[r] \in Debris
<1>1. life = "up" /\ pc[r] = "open" /\ dir[Tmp(number[r])] # None
  BY DEF TempTaken, Goes, Temp
<1>2. number[r] \in Numbers
  BY DEF NamesInv, Counters
<1>3. ~ Taken(dir[Tmp(number[r])], number[r])
  <2>1. r \in Holding
    BY <1>1 DEF Holding
  <2> QED
    BY <1>1, <2>1 DEF Taken, NamesInv, OwnNumbers
<1> QED
  BY <1>1, <1>2, <1>3 DEF NamesInv, TempNames, Leftover

LEMMA LockStep == Numbers = Nat /\ LockInv /\ [Next]_vars => LockInv'
<1> SUFFICES ASSUME Numbers = Nat, LockInv, [Next]_vars PROVE LockInv'
  OBVIOUS
<1> USE DEF fs, disk, run
<1>0. /\ NamesInv /\ NamesInv' /\ pc \in [Runs -> Places]
      /\ next \in Nat /\ number \in [Runs -> Nat] /\ attempt \in [Runs -> Nat]
      /\ \A r \in Runs : MetOnce(r)
  BY NamesStep DEF LockInv, NamesInv, TornInv, Types, Counters
<1>1. ASSUME NEW r \in Runs, Step(r) PROVE \A s \in Runs : MetOnce(s)'
  <2>1. CASE TakeNumber(r)
    <3>1. /\ pc' = [pc EXCEPT ![r] = "open"] /\ pc[r] = "number" /\ next' = next + 1
          /\ number' = [number EXCEPT ![r] = next] /\ attempt' = attempt
      BY <2>1 DEF TakeNumber, Goes
    <3>2. \A s \in Runs \ {r} : MetOnce(s)'
      BY <1>0, <3>1 DEF MetOnce
    <3>3. attempt[r] <= Cardinality(Below(next))
      BY <1>0, <3>1, DebrisCounts DEF MetOnce
    <3>4. pc'[r] = "open" /\ number'[r] = next
      BY <1>0, <3>1
    <3>5. MetOnce(r)'
      BY <3>1, <3>3, <3>4 DEF MetOnce
    <3> QED
      BY <3>2, <3>5
  <2>2. CASE TempTaken(r)
    <3> DEFINE to == IF attempt[r] + 1 >= MaxAttempts THEN "locked" ELSE "number"
    <3>1. /\ pc' = [pc EXCEPT ![r] = to] /\ pc[r] = "open" /\ UNCHANGED <<next, number>>
          /\ attempt' = [attempt EXCEPT ![r] = attempt[r] + 1]
      BY <2>2 DEF TempTaken, Goes
    <3>2. number[r] \in Debris
      BY <1>0, <2>2, TakenIsLeftover
    <3>3. attempt[r] + 1 <= Cardinality(UpTo(number[r]))
      BY <1>0, <3>1, <3>2, DebrisCounts DEF MetOnce
    <3>4. Cardinality(Debris) \in Nat /\ Cardinality(UpTo(number[r])) <= Cardinality(Debris)
      BY AtomicAssumption, DebrisCounts, FS_CardinalityType
    <3>5. to = "number"
      BY <1>0, <3>3, <3>4, DebrisCounts, AtomicAssumption
    <3>6. number[r] < next
      BY <1>0, <3>1 DEF NamesInv, OwnNumbers, Holding
    <3> HIDE DEF to
    <3>7. pc'[r] = "number" /\ attempt'[r] = attempt[r] + 1
      BY <1>0, <3>1, <3>5
    <3>8. MetOnce(r)'
      BY <3>1, <3>3, <3>6, <3>7 DEF MetOnce
    <3>9. \A s \in Runs \ {r} : MetOnce(s)'
      BY <1>0, <3>1 DEF MetOnce
    <3> QED
      BY <3>8, <3>9
  <2>3. CASE Begin(r)
    <3> DEFINE to == IF ~ Forced /\ dir[Dest] # None THEN "refused" ELSE "number"
    <3>1. /\ pc' = [pc EXCEPT ![r] = to] /\ to \in {"refused", "number"} /\ pc[r] = "begin"
          /\ UNCHANGED <<next, number, attempt>>
      BY <2>3 DEF Begin, Goes
    <3> HIDE DEF to
    <3> QED
      BY <1>0, <3>1 DEF MetOnce
  <2>4. ASSUME ~ TakeNumber(r), ~ TempTaken(r), ~ Begin(r)
        PROVE  \A s \in Runs : MetOnce(s)'
    <3>1. /\ UNCHANGED <<next, number, attempt>>
          /\ \E to \in Places \ {"locked", "begin", "open", "number"} : pc' = [pc EXCEPT ![r] = to]
      BY <1>1, <2>4 DEF Step, OpenTemp, CloneHandle, WriteSome, FinishSink, WriteFails, SyncFile,
         SyncFails, Rename, RenameFails, SyncDir, SkipDir, Discard, Goes, Places
    <3> QED
      BY <1>0, <3>1 DEF MetOnce
  <2> QED
    BY <2>1, <2>2, <2>3, <2>4
<1>2. ASSUME UNCHANGED <<pc, next, number, attempt>> PROVE \A s \in Runs : MetOnce(s)'
  BY <1>0, <1>2 DEF MetOnce
<1> QED
  BY <1>0, <1>1, <1>2
     DEF Next, LockInv, WriteBackData, WriteBackName, Killed, Crash, vars

(* However many leftovers an earlier process of the same pid left, fewer    *)
(* than the attempts, and however many runs go on at once: none gives up    *)
(* for want of a name.                                                      *)
THEOREM LeftoversLockNobodyOut ==
  ASSUME Numbers = Nat
  PROVE  Spec => []NeverLockedOut
<1>1. LockInv => NeverLockedOut
  BY DEF LockInv, MetOnce, NeverLockedOut
<1>2. LockInv /\ [Next]_vars => LockInv'
  BY LockStep
<1> QED
  BY <1>1, <1>2, LockInit, PTL DEF Spec

-------------------------------------------------------------------------------
(* Recursion along a path.                                                  *)

LEMMA LeastOf ==
  ASSUME NEW S, S \subseteq Nat, S # {}
  PROVE  \E n \in S : \A k \in S : n <= k
<1> DEFINE R == {ss \in Nat \X Nat : ss[1] < ss[2]}
<1>1. IsWellFoundedOn(R, Nat)
  BY NatLessThanWellFounded DEF OpToRel
<1>2. \A n, k \in Nat : ~ (<<k, n>> \in R) => n <= k
  OBVIOUS
<1> HIDE DEF R
<1>3. PICK n \in S : \A k \in S : ~ (<<k, n>> \in R)
  BY <1>1, WFMin
<1>4. ASSUME NEW k \in S PROVE n <= k
  <2>1. n \in Nat /\ k \in Nat
    OBVIOUS
  <2> QED
    BY <2>1, <1>2, <1>3
<1> QED
  BY <1>4

-------------------------------------------------------------------------------
(* The tree, by itself.                                                     *)

IsIn(t, q, kind) == q \in DOMAIN t /\ t[q].kind = kind
HopIn(t, q) == IF IsIn(t, q, "link") THEN t[q].to ELSE q
LandedIn(t, q) ==
  LET r == HopIn(t, HopIn(t, q)) IN IF r \in DOMAIN t /\ ~ IsIn(t, r, "link") THEN r ELSE Nowhere
IntoIn(t, d, c) ==
  IF (IsIn(t, d, "dir") /\ t[d].enters) /\ Append(d, c) \in DOMAIN t THEN LandedIn(t, Append(d, c)) ELSE Nowhere
LedIn(t, p) == CHOOSE f : f = [k \in 0 .. Len(p) |-> IF k = 0 THEN <<>> ELSE IntoIn(t, f[k - 1], p[k])]

LEMMA CanonicalByTree ==
  \A p : /\ Canonical(p) = LedIn(tree, p)[Len(p)] /\ Canonical(p)' = LedIn(tree', p)[Len(p)]
BY DEF Canonical, LedIn, Into, IntoIn, Searchable, Landed, LandedIn, Hop, HopIn, Is, IsIn

LEMMA LedInSteps ==
  ASSUME NEW t, <<>> \in DOMAIN t, NEW p, Len(p) \in Nat
  PROVE  /\ LedIn(t, p) \in [0 .. Len(p) -> DOMAIN t \cup {Nowhere}] /\ LedIn(t, p)[0] = <<>>
         /\ \A k \in 1 .. Len(p) : LedIn(t, p)[k] = IntoIn(t, LedIn(t, p)[k - 1], p[k])
<1> DEFINE n == Len(p)
           X == DOMAIN t \cup {Nowhere}
           Leads(f, m) == f[0] = <<>> /\ \A k \in 1 .. m : f[k] = IntoIn(t, f[k - 1], p[k])
           Def(f) == [k \in 0 .. n |-> IF k = 0 THEN <<>> ELSE IntoIn(t, f[k - 1], p[k])]
           Bad == {m \in 0 .. n : ~ \E f \in [0 .. m -> X] : Leads(f, m)}
<1>1. \A d, c : IntoIn(t, d, c) \in X
  BY DEF IntoIn, LandedIn
<1>2. <<>> \in X /\ n \in Nat
  OBVIOUS
<1> HIDE DEF X, n
<1>3. Bad = {}
  <2>1. SUFFICES ASSUME Bad # {} PROVE FALSE
    OBVIOUS
  <2>2. PICK m \in Bad : \A k \in Bad : m <= k
    <3>1. Bad \subseteq Nat
      BY <1>2
    <3> HIDE DEF Bad
    <3> QED BY <2>1, <3>1, LeastOf
  <2>3. CASE m = 0
    <3> DEFINE h == [k \in 0 .. 0 |-> <<>>]
    <3>1. h \in [0 .. 0 -> X] /\ h[0] = <<>>
      BY <1>2
    <3> HIDE DEF h
    <3>2. Leads(h, 0)
      BY <3>1
    <3> QED BY <2>2, <2>3, <3>1, <3>2
  <2>4. CASE m # 0
    <3>1. m - 1 \in 0 .. n /\ m \in 1 .. n /\ ~ (m - 1 \in Bad)
      <4>1. m \in 0 .. n /\ (m - 1 \in Bad => m <= m - 1)
        BY <2>2
      <4> HIDE DEF Bad
      <4> QED BY <4>1, <1>2, <2>4
    <3>2. PICK f \in [0 .. m - 1 -> X] : Leads(f, m - 1)
      BY <3>1
    <3> DEFINE h == [k \in 0 .. m |-> IF k = m THEN IntoIn(t, f[m - 1], p[m]) ELSE f[k]]
    <3>3. /\ h \in [0 .. m -> X] /\ h[0] = <<>> /\ h[m] = IntoIn(t, f[m - 1], p[m])
          /\ \A k \in 0 .. m - 1 : h[k] = f[k]
      BY <1>1, <1>2, <3>1, <3>2
    <3> HIDE DEF h
    <3>4. ASSUME NEW k \in 1 .. m PROVE h[k] = IntoIn(t, h[k - 1], p[k])
      <4>1. h[k - 1] = f[k - 1]
        BY <1>2, <3>1, <3>3
      <4>2. CASE k = m
        BY <4>1, <4>2, <3>3
      <4>3. CASE k # m
        <5>1. k \in 1 .. m - 1 /\ k \in 0 .. m - 1
          BY <1>2, <3>1, <4>3
        <5>2. f[k] = IntoIn(t, f[k - 1], p[k]) /\ h[k] = f[k]
          BY <5>1, <3>2, <3>3
        <5> QED BY <5>2, <4>1
      <4> QED BY <4>2, <4>3
    <3>5. Leads(h, m)
      BY <3>3, <3>4
    <3> QED BY <2>2, <3>3, <3>5
  <2> QED BY <2>3, <2>4
<1>4. PICK f \in [0 .. n -> X] : Leads(f, n)
  <2>1. n \in 0 .. n
    BY <1>2
  <2> QED BY <2>1, <1>3
<1>5. f = Def(f)
  <2>1. \A k \in 0 .. n : f[k] = IF k = 0 THEN <<>> ELSE IntoIn(t, f[k - 1], p[k])
    BY <1>2, <1>4
  <2> QED BY <2>1
<1>6. LedIn(t, p) = Def(LedIn(t, p))
  BY <1>5 DEF LedIn, n
<1> DEFINE l == LedIn(t, p)
<1>7. l = Def(l)
  BY <1>6
<1> HIDE DEF l
<1>8. l = [k \in 0 .. n |-> l[k]] /\ \A k \in 0 .. n : l[k] = IF k = 0 THEN <<>> ELSE IntoIn(t, l[k - 1], p[k])
  BY <1>7
<1>9. Leads(l, n)
  BY <1>2, <1>8
<1>10. l \in [0 .. n -> X]
  <2>1. \A k \in 0 .. n : l[k] \in X
    BY <1>1, <1>2, <1>8
  <2> QED BY <2>1, <1>8
<1> QED BY <1>9, <1>10 DEF l, n, X

LEMMA CanonicalThere ==
  /\ <<>> \in DOMAIN tree => \A p \in Paths : Canonical(p) \in DOMAIN tree \cup {Nowhere}
  /\ <<>> \in DOMAIN tree' => \A p \in Paths : Canonical(p)' \in DOMAIN tree' \cup {Nowhere}
<1>1. \A p \in Paths : Len(p) \in Nat
  BY DEF Paths
<1> QED BY <1>1, CanonicalByTree, LedInSteps

-------------------------------------------------------------------------------
(* Paths.                                                                   *)

LEMMA PathBasics ==
  ASSUME NEW p \in Paths
  PROVE  /\ Len(p) \in Nat /\ DOMAIN p = 1 .. Len(p) /\ \A i \in 1 .. Len(p) : p[i] \in Nat
         /\ (p # <<>> <=> Len(p) # 0) /\ p # Nowhere /\ SubSeq(p, 1, Len(p)) = p
<1>1. SubSeq(p, 1, Len(p)) = p
  BY SubSeqFull DEF Paths
<1> QED BY <1>1 DEF Paths, Nowhere

LEMMA NowhereNoPath == Nowhere \notin Paths
  BY DEF Paths, Nowhere

LEMMA PrefixIs ==
  ASSUME NEW p \in Paths, NEW q \in Paths
  PROVE  IsPrefix(p, q) <=> Len(p) <= Len(q) /\ \A i \in 1 .. Len(p) : p[i] = q[i]
<1>1. Len(p) \in Nat /\ Len(q) \in Nat /\ SubSeq(p, 1, Len(p)) = p
  BY PathBasics
<1>2. CASE Len(p) <= Len(q)
  <2> DEFINE s == SubSeq(q, 1, Len(p))
  <2>1. s \in Seq(Nat) /\ Len(s) = Len(p) /\ \A i \in 1 .. Len(p) : s[i] = q[i]
    BY <1>1, <1>2 DEF Paths
  <2>2. p = s <=> \A i \in 1 .. Len(p) : p[i] = s[i]
    <3> HIDE DEF s
    <3>1. (\A i \in 1 .. Len(p) : p[i] = s[i]) => p = s
      BY <1>1, <2>1, SeqEqual DEF Paths
    <3> QED BY <3>1
  <2> QED BY <1>1, <1>2, <2>1, <2>2 DEF IsPrefix
<1> QED BY <1>1, <1>2 DEF IsPrefix

LEMMA FrontIs ==
  ASSUME NEW p \in Paths, p # <<>>
  PROVE  /\ Front(p) \in Paths /\ Len(Front(p)) = Len(p) - 1
         /\ \A i \in 1 .. Len(p) - 1 : Front(p)[i] = p[i]
         /\ Last(p) \in Nat /\ Last(p) = p[Len(p)] /\ p = Append(Front(p), Last(p))
<1>1. Len(p) \in Nat \ {0}
  BY PathBasics
<1>2. /\ Front(p) \in Paths /\ Len(Front(p)) = Len(p) - 1
      /\ \A i \in 1 .. Len(p) - 1 : Front(p)[i] = p[i]
  <2>1. 1 \in Int /\ Len(p) - 1 \in Int /\ \A i \in 1 .. Len(p) - 1 : p[i] \in Nat
    BY <1>1, PathBasics
  <2>2. /\ SubSeq(p, 1, Len(p) - 1) \in Seq(Nat)
        /\ Len(SubSeq(p, 1, Len(p) - 1)) = IF 1 <= Len(p) - 1 THEN Len(p) - 1 - 1 + 1 ELSE 0
        /\ \A i \in 1 .. Len(p) - 1 - 1 + 1 : SubSeq(p, 1, Len(p) - 1)[i] = p[1 + i - 1]
    BY <2>1, SubSeqProperties
  <2>3. Front(p) = SubSeq(p, 1, Len(p) - 1)
    BY DEF Front
  <2> DEFINE f == SubSeq(p, 1, Len(p) - 1)
  <2> HIDE DEF f
  <2>4. /\ f \in Seq(Nat) /\ Len(f) = IF 1 <= Len(p) - 1 THEN Len(p) - 1 ELSE 0
        /\ \A i \in 1 .. Len(p) - 1 : f[i] = p[i]
    BY <1>1, <2>2 DEF f
  <2>5. Len(f) = Len(p) - 1
    <3>1. CASE Len(p) = 1
      BY <3>1, <2>4
    <3>2. CASE Len(p) # 1
      <4>1. 1 <= Len(p) - 1
        BY <1>1, <3>2
      <4> QED BY <4>1, <2>4
    <3> QED BY <3>1, <3>2
  <2> QED BY <2>3, <2>4, <2>5 DEF f, Paths
<1>3. Last(p) \in Nat /\ Last(p) = p[Len(p)]
  BY <1>1 DEF Last, Paths
<1> DEFINE a == Append(Front(p), Last(p))
<1>4. a \in Paths /\ Len(a) = Len(p) /\ \A i \in 1 .. Len(p) : a[i] = p[i]
  BY <1>1, <1>2, <1>3 DEF Paths
<1>5. p = a
  <2> HIDE DEF a
  <2> QED BY <1>4, SeqEqual DEF Paths
<1> QED BY <1>2, <1>3, <1>5

LEMMA AppendIs ==
  ASSUME NEW p \in Paths, NEW c \in Nat
  PROVE  /\ Append(p, c) \in Paths /\ Append(p, c) # <<>> /\ Len(Append(p, c)) = Len(p) + 1
         /\ \A i \in 1 .. Len(p) : Append(p, c)[i] = p[i]
         /\ Append(p, c)[Len(p) + 1] = c
         /\ Front(Append(p, c)) = p /\ Last(Append(p, c)) = c
<1> DEFINE a == Append(p, c)
<1>1. Len(p) \in Nat
  BY PathBasics
<1>2. a \in Paths /\ Len(a) = Len(p) + 1 /\ (\A i \in 1 .. Len(p) : a[i] = p[i]) /\ a[Len(p) + 1] = c
  BY <1>1 DEF Paths
<1>3. a # <<>>
  <2> HIDE DEF a
  <2> QED BY <1>1, <1>2, PathBasics
<1>4. Front(a) = p /\ Last(a) = c
  <2> HIDE DEF a
  <2>1. /\ Front(a) \in Paths /\ Len(Front(a)) = Len(a) - 1
        /\ \A i \in 1 .. Len(a) - 1 : Front(a)[i] = a[i]
        /\ Last(a) = a[Len(a)]
    BY <1>2, <1>3, FrontIs
  <2>2. Len(Front(a)) = Len(p) /\ \A i \in 1 .. Len(Front(a)) : Front(a)[i] = p[i]
    BY <1>1, <1>2, <2>1
  <2>3. Front(a) = p
    BY <2>1, <2>2, SeqEqual DEF Paths
  <2> QED BY <1>1, <1>2, <2>1, <2>3
<1> QED BY <1>2, <1>3, <1>4

-------------------------------------------------------------------------------
(* What another program puts leaves a tree.                                 *)

LEMMA PutTree ==
  ASSUME NEW inos, Tree(tree, inos), NEW path \in Paths \ {<<>>},
         NEW node \in Nodes(inos) \cup [kind : {"none"}], Is(Front(path), "dir")
  PROVE  Tree(Put(path, node), inos)
<1> DEFINE t == Put(path, node)
           spared == {q \in DOMAIN tree : ~ IsPrefix(path, q)}
           D == IF node = Gone THEN spared ELSE spared \cup {path}
<1>1. /\ IsFiniteSet(DOMAIN tree) /\ DOMAIN tree \subseteq Paths
      /\ \A q \in DOMAIN tree : tree[q] \in Nodes(inos)
      /\ <<>> \in DOMAIN tree /\ tree[<<>>].kind = "dir"
      /\ \A q \in DOMAIN tree \ {<<>>} : Front(q) \in DOMAIN tree /\ tree[Front(q)].kind = "dir"
  BY DEF Tree
<1>2. t = [q \in D |-> IF q = path THEN node ELSE tree[q]]
  BY DEF Put
<1>3. ASSUME NEW q \in Paths, q # <<>>, ~ IsPrefix(path, q) PROVE ~ IsPrefix(path, Front(q))
  <2>1. /\ Len(path) \in Nat /\ Len(q) \in Nat \ {0} /\ Front(q) \in Paths
        /\ Len(Front(q)) = Len(q) - 1 /\ \A i \in 1 .. Len(q) - 1 : Front(q)[i] = q[i]
    BY <1>3, PathBasics, FrontIs
  <2> SUFFICES ASSUME IsPrefix(path, Front(q)) PROVE FALSE
    OBVIOUS
  <2>2. Len(path) <= Len(q) - 1 /\ \A i \in 1 .. Len(path) : path[i] = Front(q)[i]
    BY <2>1, PrefixIs
  <2>3. Len(path) <= Len(q) /\ \A i \in 1 .. Len(path) : path[i] = q[i]
    BY <2>1, <2>2
  <2> QED BY <1>3, <2>3, PrefixIs
<1>4. IsPrefix(path, path) /\ ~ IsPrefix(path, <<>>) /\ ~ IsPrefix(path, Front(path))
  <2>1. Len(path) \in Nat \ {0} /\ Front(path) \in Paths /\ Len(Front(path)) = Len(path) - 1
    BY PathBasics, FrontIs
  <2>2. <<>> \in Paths /\ Len(<<>>) = 0
    BY DEF Paths
  <2> QED BY <2>1, <2>2, PrefixIs
<1>5. Front(path) \in spared /\ tree[Front(path)].kind = "dir"
  BY <1>4 DEF Is
<1>6. <<>> \in spared /\ <<>> # path
  BY <1>1, <1>4
<1>7. \A q \in spared \ {<<>>} : Front(q) \in spared /\ tree[Front(q)].kind = "dir"
  BY <1>1, <1>3
<1>8. path \notin spared /\ spared \subseteq DOMAIN tree
  BY <1>4
<1>9. IsFiniteSet(D)
  <2>1. IsFiniteSet(spared)
    BY <1>1, <1>8, FS_Subset
  <2> HIDE DEF spared
  <2> QED BY <2>1, FS_AddElement
<1>10. path \in D => node \in Nodes(inos)
  <2>1. path \in D => node # Gone
    BY <1>8
  <2>2. node \in [kind : {"none"}] => node = Gone
    BY DEF Gone
  <2> QED BY <2>1, <2>2
<1>11. D \subseteq spared \cup {path} /\ spared \subseteq D
  OBVIOUS
<1> HIDE DEF spared, D, t
<1>12. DOMAIN t = D /\ t = [q \in D |-> t[q]] /\ \A q \in D : t[q] = IF q = path THEN node ELSE tree[q]
  BY <1>2
<1>13. \A q \in spared : t[q] = tree[q]
  BY <1>8, <1>11, <1>12
<1>14. t \in [D -> Nodes(inos)]
  <2>1. \A q \in D : t[q] \in Nodes(inos)
    BY <1>1, <1>8, <1>10, <1>11, <1>12
  <2> QED BY <1>12, <2>1
<1>15. \A q \in D \ {<<>>} : Front(q) \in D /\ t[Front(q)].kind = "dir"
  BY <1>5, <1>7, <1>11, <1>13
<1>16. D \subseteq Paths
  BY <1>1, <1>8, <1>11
<1>17. <<>> \in D /\ t[<<>>].kind = "dir"
  BY <1>1, <1>6, <1>11, <1>13
<1> QED BY <1>9, <1>12, <1>14, <1>15, <1>16, <1>17 DEF Tree, t

-------------------------------------------------------------------------------
(* A directory's names in their order.                                      *)

LEMMA GreatestOf ==
  ASSUME NEW S, S \subseteq Nat, IsFiniteSet(S), S # {}
  PROVE  \E n \in S : \A k \in S : k <= n
<1> DEFINE R == {Cardinality(S) - Rank(S, c) : c \in S}
<1>1. ASSUME NEW c \in S
      PROVE  /\ Rank(S, c) \in Nat /\ Rank(S, c) <= Cardinality(S) /\ Cardinality(S) \in Nat
             /\ \A d \in S : c < d => Rank(S, c) < Rank(S, d)
  <2>1. ASSUME NEW x PROVE IsFiniteSet({b \in S : b <= x}) /\ Cardinality({b \in S : b <= x}) <= Cardinality(S)
    <3>1. {b \in S : b <= x} \in SUBSET S
      OBVIOUS
    <3> QED BY <3>1, FS_Subset
  <2>2. Cardinality(S) \in Nat /\ \A x : Rank(S, x) \in Nat
    BY <2>1, FS_CardinalityType DEF Rank
  <2>3. ASSUME NEW d \in S, c < d PROVE Rank(S, c) < Rank(S, d)
    <3> DEFINE C == {b \in S : b <= c}
               D == {b \in S : b <= d}
    <3>0. c \in Nat /\ d \in Nat /\ \A b \in S : b \in Nat
      OBVIOUS
    <3>1. C \in SUBSET D /\ d \in D /\ d \notin C
      <4>1. (\A b \in S : b <= c => b <= d) /\ ~ (d <= c) /\ d <= d
        BY <2>3, <3>0
      <4> QED BY <4>1
    <3>2. IsFiniteSet(D)
      BY <2>1
    <3>3. Cardinality(C) = Rank(S, c) /\ Cardinality(D) = Rank(S, d)
      BY DEF Rank
    <3> HIDE DEF C, D
    <3>4. Cardinality(C) <= Cardinality(D) /\ (Cardinality(D) = Cardinality(C) => D = C)
      BY <3>1, <3>2, FS_Subset
    <3>5. Cardinality(D) # Cardinality(C)
      BY <3>1, <3>4
    <3> QED BY <2>2, <3>3, <3>4, <3>5
  <2> QED BY <2>1, <2>2, <2>3 DEF Rank
<1>2. R \subseteq Nat /\ R # {}
  <2>1. ASSUME NEW c \in S PROVE Cardinality(S) - Rank(S, c) \in Nat
    BY <1>1
  <2> QED BY <2>1
<1>3. PICK r \in R : \A k \in R : r <= k
  <2> HIDE DEF R
  <2> QED BY <1>2, LeastOf
<1>4. PICK n \in S : r = Cardinality(S) - Rank(S, n)
  BY <1>3
<1>5. ASSUME NEW k \in S PROVE k <= n
  <2>1. r <= Cardinality(S) - Rank(S, k)
    BY <1>3
  <2>2. n \in Nat /\ k \in Nat
    OBVIOUS
  <2>3. ~ (Rank(S, n) < Rank(S, k))
    BY <1>1, <1>4, <2>1
  <2> QED BY <1>1, <2>2, <2>3
<1> QED BY <1>5

LEMMA RankGrows ==
  ASSUME NEW S, S \subseteq Nat, IsFiniteSet(S), NEW c \in S, NEW d \in S, c < d
  PROVE  Rank(S, c) \in Nat /\ Rank(S, d) \in Nat /\ Rank(S, c) < Rank(S, d)
<1> DEFINE C == {b \in S : b <= c}
           D == {b \in S : b <= d}
<1>0. c \in Nat /\ d \in Nat /\ \A b \in S : b \in Nat
  OBVIOUS
<1>1. C \in SUBSET D /\ d \in D /\ d \notin C /\ D \in SUBSET S
  <2>1. (\A b \in S : b <= c => b <= d) /\ ~ (d <= c) /\ d <= d
    BY <1>0
  <2> QED BY <2>1
<1>2. Cardinality(C) = Rank(S, c) /\ Cardinality(D) = Rank(S, d)
  BY DEF Rank
<1> HIDE DEF C, D
<1>3. IsFiniteSet(D)
  BY <1>1, FS_Subset
<1>4. Cardinality(C) <= Cardinality(D) /\ (Cardinality(D) = Cardinality(C) => D = C) /\ IsFiniteSet(C)
  BY <1>1, <1>3, FS_Subset
<1>5. Cardinality(D) # Cardinality(C)
  BY <1>1, <1>4
<1>6. Cardinality(C) \in Nat /\ Cardinality(D) \in Nat
  BY <1>3, <1>4, FS_CardinalityType
<1> QED BY <1>2, <1>4, <1>5, <1>6

(* Each rank is some name's.                                                *)
LEMMA RankTaken ==
  ASSUME NEW S, S \subseteq Nat, IsFiniteSet(S), NEW k \in 1 .. Cardinality(S)
  PROVE  \E c \in S : Rank(S, c) = k
<1> DEFINE A == {c \in S : Rank(S, c) >= k}
           R == {Rank(S, c) : c \in A}
<1>1. Cardinality(S) \in Nat /\ \A c : Rank(S, c) \in Nat
  <2>1. ASSUME NEW c PROVE IsFiniteSet({b \in S : b <= c})
    <3>1. {b \in S : b <= c} \in SUBSET S
      OBVIOUS
    <3> QED BY <3>1, FS_Subset
  <2> QED BY <2>1, FS_CardinalityType DEF Rank
<1>2. A # {}
  <2>1. S # {}
    BY <1>1, FS_EmptySet
  <2>2. PICK t \in S : \A b \in S : b <= t
    BY <2>1, GreatestOf
  <2>3. {b \in S : b <= t} = S
    BY <2>2
  <2>4. Rank(S, t) = Cardinality(S)
    BY <2>3 DEF Rank
  <2>5. Rank(S, t) >= k
    BY <1>1, <2>4
  <2> QED BY <2>5
<1>3. PICK r \in R : \A x \in R : r <= x
  <2>1. R \subseteq Nat /\ R # {}
    BY <1>1, <1>2
  <2> HIDE DEF R
  <2> QED BY <2>1, LeastOf
<1>4. PICK c \in A : r = Rank(S, c)
  BY <1>3
<1>5. SUFFICES ASSUME Rank(S, c) # k PROVE FALSE
  BY <1>4
<1> DEFINE C == {b \in S : b <= c}
           L == C \ {c}
<1>6. c \in S /\ Rank(S, c) > k /\ k >= 1 /\ k \in Nat
  BY <1>1, <1>4, <1>5
<1>7. IsFiniteSet(C) /\ Cardinality(C) = Rank(S, c) /\ c \in C
  <2>1. C \in SUBSET S
    OBVIOUS
  <2>2. Cardinality(C) = Rank(S, c)
    BY DEF Rank
  <2>3. c \in C
    BY <1>6
  <2> HIDE DEF C
  <2> QED BY <2>1, <2>2, <2>3, FS_Subset
<1>8. IsFiniteSet(L) /\ Cardinality(L) = Rank(S, c) - 1
  <2> HIDE DEF C
  <2> QED BY <1>7, FS_RemoveElement
<1>9. L \subseteq Nat /\ L # {}
  <2>1. L \subseteq Nat
    BY <1>6
  <2> HIDE DEF L
  <2> QED BY <1>1, <1>6, <1>8, <2>1, FS_EmptySet
<1>10. PICK d \in L : \A b \in L : b <= d
  <2> HIDE DEF L
  <2> QED BY <1>8, <1>9, GreatestOf
<1>11. {b \in S : b <= d} = L
  <2>0. c \in Nat /\ d \in Nat /\ d \in S /\ d <= c /\ d # c /\ \A b \in S : b \in Nat
    BY <1>6, <1>10
  <2>1. ASSUME NEW b \in S, b <= d PROVE b \in L
    BY <2>0, <2>1
  <2> QED BY <2>0, <2>1, <1>10
<1>12. Rank(S, d) = Rank(S, c) - 1
  <2>1. Rank(S, d) = Cardinality(L)
    BY <1>11 DEF Rank
  <2> HIDE DEF L
  <2> QED BY <2>1, <1>8
<1>13. d \in S
  BY <1>10
<1>14. Rank(S, d) \in R
  BY <1>1, <1>6, <1>12, <1>13
<1> HIDE DEF R, A, L, C
<1> QED BY <1>1, <1>3, <1>4, <1>12, <1>14

LEMMA NamesAre ==
  ASSUME NEW inos, Tree(tree, inos), NEW real
  PROVE  NamesIn(real) \subseteq Nat /\ IsFiniteSet(NamesIn(real))
<1> DEFINE Q == {q \in DOMAIN tree : q # <<>> /\ Front(q) = real}
           f == [q \in Q |-> Last(q)]
<1>1. IsFiniteSet(Q)
  <2>1. Q \in SUBSET DOMAIN tree /\ IsFiniteSet(DOMAIN tree)
    BY DEF Tree
  <2> HIDE DEF Q
  <2> QED BY <2>1, FS_Subset
<1>2. NamesIn(real) = {Last(q) : q \in Q}
  BY DEF NamesIn
<1>3. \A q \in Q : Last(q) \in Nat
  BY FrontIs DEF Tree
<1>4. f \in Surjection(Q, NamesIn(real))
  <2>1. NamesIn(real) = {f[q] : q \in Q}
    BY <1>2
  <2> QED BY <2>1 DEF Surjection
<1> HIDE DEF Q, f
<1> QED BY <1>1, <1>2, <1>3, <1>4, FS_Surjection

LEMMA ChildrenAre ==
  ASSUME NEW inos, Tree(tree, inos), NEW d \in Spots, NEW real
  PROVE  /\ Children(d, real) \in Seq(Spots)
         /\ \A i \in DOMAIN Children(d, real) :
              \E c \in NamesIn(real) : Children(d, real)[i] = Child(d, c)
         /\ \A c \in NamesIn(real) : \E i \in DOMAIN Children(d, real) : Children(d, real)[i] = Child(d, c)
         /\ \A i, j \in DOMAIN Children(d, real) : i < j =>
              \E b, c \in NamesIn(real) :
                 b < c /\ Children(d, real)[i] = Child(d, b) /\ Children(d, real)[j] = Child(d, c)
<1> DEFINE S == NamesIn(real)
           kth(k) == CHOOSE c \in S : Rank(S, c) = k
           cs == [k \in 1 .. Cardinality(S) |-> Child(d, kth(k))]
<1>1. S \subseteq Nat /\ IsFiniteSet(S)
  BY NamesAre
<1>2. Children(d, real) = cs
  BY DEF Children
<1> HIDE DEF S
<1>3. Cardinality(S) \in Nat
  BY <1>1, FS_CardinalityType
<1>4. ASSUME NEW k \in 1 .. Cardinality(S) PROVE kth(k) \in S /\ Rank(S, kth(k)) = k
  <2>1. \E c \in S : Rank(S, c) = k
    BY <1>1, RankTaken
  <2> QED BY <2>1
<1>5. ASSUME NEW c \in Nat PROVE Child(d, c) \in Spots
  BY AppendIs DEF Child, Spots
<1>6. ASSUME NEW c \in S PROVE Rank(S, c) \in 1 .. Cardinality(S) /\ kth(Rank(S, c)) = c
  <2> DEFINE C == {b \in S : b <= c}
  <2>1. C \in SUBSET S /\ c \in C /\ Cardinality(C) = Rank(S, c)
    BY <1>1 DEF Rank
  <2> HIDE DEF C
  <2>2. IsFiniteSet(C) /\ Cardinality(C) <= Cardinality(S)
    BY <1>1, <2>1, FS_Subset
  <2>3. Cardinality(C) \in Nat /\ Cardinality(C) # 0
    BY <2>1, <2>2, FS_CardinalityType, FS_EmptySet
  <2>4. Rank(S, c) \in 1 .. Cardinality(S)
    BY <1>3, <2>1, <2>2, <2>3
  <2> DEFINE e == kth(Rank(S, c))
  <2>5. e \in S /\ Rank(S, e) = Rank(S, c)
    BY <1>4, <2>4
  <2> HIDE DEF e
  <2>6. ~ (e < c) /\ ~ (c < e)
    <3>1. e < c => Rank(S, e) \in Nat /\ Rank(S, c) \in Nat /\ Rank(S, e) < Rank(S, c)
      BY <1>1, <2>5, RankGrows
    <3>2. c < e => Rank(S, e) \in Nat /\ Rank(S, c) \in Nat /\ Rank(S, c) < Rank(S, e)
      BY <1>1, <2>5, RankGrows
    <3> QED BY <2>5, <3>1, <3>2
  <2>7. e \in Nat /\ c \in Nat
    BY <1>1, <2>5
  <2>8. e = c
    BY <2>6, <2>7
  <2> QED BY <2>4, <2>8 DEF e
<1> HIDE DEF kth
<1>7. cs \in Seq(Spots) /\ DOMAIN cs = 1 .. Cardinality(S) /\ \A i \in 1 .. Cardinality(S) : cs[i] = Child(d, kth(i))
  <2>1. \A i \in 1 .. Cardinality(S) : kth(i) \in Nat
    BY <1>1, <1>4
  <2>2. \A i \in 1 .. Cardinality(S) : Child(d, kth(i)) \in Spots
    BY <2>1, <1>5
  <2> QED BY <1>3, <2>2
<1>8. ASSUME NEW i \in 1 .. Cardinality(S), NEW j \in 1 .. Cardinality(S), i < j
      PROVE  kth(i) < kth(j)
  <2>1. kth(i) \in S /\ kth(j) \in S /\ Rank(S, kth(i)) = i /\ Rank(S, kth(j)) = j
    BY <1>4
  <2>2. kth(i) \in Nat /\ kth(j) \in Nat /\ i \in Nat /\ j \in Nat
    <3>1. \A x \in S : x \in Nat
      BY <1>1
    <3> QED BY <1>3, <2>1, <3>1
  <2>3. ~ (kth(j) < kth(i))
    <3>1. kth(j) < kth(i) => Rank(S, kth(j)) < Rank(S, kth(i))
      BY <1>1, <2>1, RankGrows
    <3> QED BY <1>8, <2>1, <2>2, <3>1
  <2>4. kth(i) # kth(j)
    BY <1>8, <2>1, <2>2
  <2> QED BY <2>2, <2>3, <2>4
<1> HIDE DEF cs
<1>9. \A i \in DOMAIN cs : \E c \in S : cs[i] = Child(d, c)
  BY <1>4, <1>7
<1>10. \A c \in S : \E i \in DOMAIN cs : cs[i] = Child(d, c)
  BY <1>6, <1>7
<1>11. \A i, j \in DOMAIN cs : i < j => \E b, c \in S : b < c /\ cs[i] = Child(d, b) /\ cs[j] = Child(d, c)
  BY <1>4, <1>7, <1>8
<1> QED BY <1>2, <1>7, <1>9, <1>10, <1>11 DEF S

-------------------------------------------------------------------------------
(* Types.                                                                   *)

LEMMA NodeIs ==
  ASSUME NEW inos, NEW n \in Nodes(inos)
  PROVE  /\ n.kind \in {"dir", "file", "link", "special"}
         /\ n.kind = "dir" => n.lists \in BOOLEAN /\ n.enters \in BOOLEAN
         /\ n.kind = "file" => n.ino \in inos
         /\ n.kind = "link" => n.to \in Paths
  BY DEF Nodes

LEMMA WorldIs ==
  ASSUME PackTypeOK
  PROVE  /\ <<>> \in DOMAIN tree /\ DOMAIN tree \subseteq Paths
         /\ \A q \in DOMAIN tree :
              /\ tree[q] \in Nodes(DOMAIN files)
              /\ tree[q].kind \in {"dir", "file", "link", "special"}
              /\ tree[q].kind = "file" => tree[q].ino \in DOMAIN files
              /\ tree[q].kind = "link" => tree[q].to \in Paths
         /\ \A i \in DOMAIN files :
              /\ i \in Nat /\ i # 0 /\ files[i] \in FileStates
              /\ files[i].bytes \in Seq(Nat) /\ files[i].reads \in BOOLEAN
<1>1. Tree(tree, DOMAIN files) /\ DOMAIN files \subseteq Nat \ {0} /\ files \in [DOMAIN files -> FileStates]
  BY DEF PackTypeOK
<1>2. \A q \in DOMAIN tree : tree[q] \in Nodes(DOMAIN files)
  BY <1>1 DEF Tree
<1>3. <<>> \in DOMAIN tree /\ DOMAIN tree \subseteq Paths
  BY <1>1 DEF Tree
<1>4. ASSUME NEW i \in DOMAIN files
      PROVE  /\ i \in Nat /\ i # 0 /\ files[i] \in FileStates
             /\ files[i].bytes \in Seq(Nat) /\ files[i].reads \in BOOLEAN
  BY <1>1 DEF FileStates
<1> QED BY <1>2, <1>3, <1>4, NodeIs

LEMMA CanonicalIs ==
  ASSUME PackTypeOK
  PROVE  \A p \in Paths : Canonical(p) \in DOMAIN tree \cup {Nowhere}
  BY WorldIs, CanonicalThere

LEMMA RenderedIs ==
  ASSUME NEW name \in Paths
  PROVE  Rendered(name) \in Paths /\ Skipped(name) \in Items /\ Skipped(name).kind = "skipped"
<1>1. Rendered(name) \in Paths
  BY PathBasics, PackAssumption DEF Rendered, Lossy, Paths
<1>2. <<>> \in Paths
  BY DEF Paths
<1> QED BY <1>1, <1>2 DEF Skipped, Item, Items, NoInode

LEMMA ItemIs ==
  ASSUME PackTypeOK, NEW name \in Paths, NEW at \in Paths, NEW q \in DOMAIN tree
  PROVE  item_for(name, at, q) \in Items
<1>1. Skipped(name) \in Items /\ <<>> \in Paths
  BY RenderedIs DEF Paths
<1>2. CASE Is(q, "file")
  <2>1. tree[q].ino \in DOMAIN files
    BY <1>2, WorldIs DEF Is
  <2>2. Size(q) \in Nat /\ link_id_of(q) \in Nat
    <3>1. files[tree[q].ino].bytes \in Seq(Nat) /\ tree[q].ino \in Nat
      BY <2>1, WorldIs
    <3> QED BY <3>1 DEF Size, link_id_of, NoInode
  <2>3. ~ Is(q, "dir")
    BY <1>2 DEF Is
  <2> QED BY <1>1, <1>2, <2>2, <2>3 DEF item_for, Item, Items
<1>3. CASE ~ Is(q, "file")
  BY <1>1, <1>3 DEF item_for, Item, Items, NoInode
<1> QED BY <1>2, <1>3

LEMMA EntryNameIs ==
  ASSUME PackTypeOK, NEW k \in 1 .. Len(asked.paths)
  PROVE  /\ asked.paths[k].at \in Paths
         /\ entry_name_for(asked.paths[k]) \in Paths \cup {Nowhere}
         /\ entry_name_for(asked.paths[k]) # Nowhere =>
              \E c \in Nat : entry_name_for(asked.paths[k]) = <<c>>
<1> DEFINE p == asked.paths[k]
<1>1. p.at \in Paths /\ p.dotted \in BOOLEAN /\ (p.at = <<>> => p.dotted)
  <2>1. asked.paths \in Seq({r \in [at : Paths, dotted : BOOLEAN] : Named(r)})
    BY DEF PackTypeOK, Asks
  <2>2. p \in {r \in [at : Paths, dotted : BOOLEAN] : Named(r)}
    BY <2>1, ElementOfSeq
  <2> QED BY <2>2 DEF Named
<1> HIDE DEF p
<1>2. Canonical(p.at) \in DOMAIN tree \cup {Nowhere}
  BY <1>1, CanonicalIs
<1>3. ASSUME NEW q \in Paths, q # <<>> PROVE <<Last(q)>> \in Paths /\ Last(q) \in Nat
  BY <1>3, FrontIs DEF Paths
<1>4. \/ entry_name_for(p) = Nowhere
      \/ \E q \in Paths : q # <<>> /\ entry_name_for(p) = <<Last(q)>>
  <2>1. CASE ~ p.dotted
    <3>1. entry_name_for(p) = <<Last(p.at)>>
      BY <2>1 DEF entry_name_for
    <3> QED BY <1>1, <2>1, <3>1
  <2>2. CASE p.dotted
    <3> DEFINE real == Canonical(p.at)
    <3>1. entry_name_for(p) = IF real \in {Nowhere, <<>>} THEN Nowhere ELSE <<Last(real)>>
      BY <2>2 DEF entry_name_for
    <3>2. real \notin {Nowhere, <<>>} => real \in Paths
      BY <1>2, WorldIs
    <3> HIDE DEF real
    <3> QED BY <3>1, <3>2
  <2> QED BY <1>1, <2>1, <2>2
<1>5. /\ entry_name_for(p) \in Paths \cup {Nowhere}
      /\ entry_name_for(p) # Nowhere => \E c \in Nat : entry_name_for(p) = <<c>>
  BY <1>3, <1>4
<1> QED BY <1>1, <1>5 DEF p

LEMMA SeqSteps ==
  ASSUME NEW S, NEW s \in Seq(S)
  PROVE  /\ Len(s) \in Nat /\ DOMAIN s = 1 .. Len(s)
         /\ \A e \in S : /\ Append(s, e) \in Seq(S) /\ Len(Append(s, e)) = Len(s) + 1
                         /\ Append(s, e)[Len(s) + 1] = e
                         /\ \A i \in 1 .. Len(s) : Append(s, e)[i] = s[i]
         /\ s # <<>> => /\ Head(s) \in S /\ Tail(s) \in Seq(S) /\ Len(s) > 0 /\ Head(s) = s[1]
                        /\ Len(Tail(s)) = Len(s) - 1
                        /\ \A i \in 1 .. Len(s) - 1 : Tail(s)[i] = s[i + 1]
<1>1. \A e \in S : /\ Append(s, e) \in Seq(S) /\ Len(Append(s, e)) = Len(s) + 1
                   /\ Append(s, e)[Len(s) + 1] = e
                   /\ \A i \in 1 .. Len(s) : Append(s, e)[i] = s[i]
  OBVIOUS
<1>2. s # <<>> => /\ Head(s) \in S /\ Tail(s) \in Seq(S) /\ Len(s) > 0 /\ Head(s) = s[1]
                  /\ Len(Tail(s)) = Len(s) - 1
                  /\ \A i \in 1 .. Len(s) - 1 : Tail(s)[i] = s[i + 1]
  OBVIOUS
<1> QED BY <1>1, <1>2

LEMMA NameTyped == ASSUME PackTypeOK, Name PROVE PackTypeOK'
<1> DEFINE name == entry_name_for(AtTurn)
<1>1. turn + 1 \in 1 .. Len(asked.paths) /\ turn < Len(asked.paths)
  BY DEF PackTypeOK, Name, Asks
<1>2. AtTurn.at \in Paths /\ name \in Paths \cup {Nowhere}
  BY <1>1, EntryNameIs DEF AtTurn
<1> HIDE DEF name
<1>3. /\ stage = "naming" /\ stage' \in {"root", "refused"}
      /\ (stage' = "root" => name # Nowhere)
      /\ here' = [at |-> AtTurn.at, name |-> name]
      /\ UNCHANGED <<world, asked, target, opened, turn, stack, found, planning, told, writing>>
  BY DEF Name, name
<1> QED BY <1>1, <1>2, <1>3 DEF PackTypeOK, world, planning, writing, Stages, AtHand

LEMMA RootTyped == ASSUME PackTypeOK, Root PROVE PackTypeOK'
<1> DEFINE real == Canonical(here.at)
<1>1. here.at \in Paths /\ here.name \in Paths /\ stage = "root"
  BY DEF PackTypeOK, Root
<1>2. real \in DOMAIN tree \cup {Nowhere}
  BY <1>1, CanonicalIs
<1> HIDE DEF real
<1>3. found' \in Seq(Items)
  <2>1. real # Nowhere => item_for(here.name, here.at, real) \in Items
    BY <1>1, <1>2, ItemIs
  <2> QED BY <2>1 DEF Root, real
<1>4. stage' \in {"refused", "listing", "walking"}
  BY DEF Root
<1> QED BY <1>1, <1>3, <1>4 DEF PackTypeOK, Root, world, planning, writing, Stages, AtHand

LEMMA ListTyped == ASSUME PackTypeOK, List PROVE PackTypeOK'
<1>1. stage = "listing" /\ here.name \in Paths /\ here \in Spots
  BY DEF List, PackTypeOK, Spots
<1>2. Children(here, Canonical(here.at)) \in Seq(Spots)
  BY <1>1, ChildrenAre DEF PackTypeOK
<1>3. stack \in Seq(Spots) /\ found \in Seq(Items)
  BY DEF PackTypeOK
<1>4. stack' \in Seq(Spots)
  BY <1>2, <1>3, ConcatProperties DEF List
<1>5. found' \in Seq(Items)
  <2>1. Skipped(here.name) \in Items
    BY <1>1, RenderedIs
  <2>2. Append(found, Skipped(here.name)) \in Seq(Items)
    BY <1>3, <2>1, SeqSteps
  <2>3. found' = found \/ found' = Append(found, Skipped(here.name))
    BY DEF List
  <2> QED BY <1>3, <2>2, <2>3
<1> QED BY <1>1, <1>4, <1>5 DEF PackTypeOK, List, world, planning, writing, Stages, AtHand

LEMMA SpotIs ==
  ASSUME PackTypeOK, NEW p \in Paths
  PROVE  Spot(p) \in DOMAIN tree \cup {Nowhere}
  BY DEF Spot

LEMMA VisitTyped == ASSUME PackTypeOK, Visit PROVE PackTypeOK'
<1> DEFINE child == Head(stack)
           q == Spot(child.at)
<1>1. stack \in Seq(Spots) /\ found \in Seq(Items) /\ stack # <<>> /\ stage = "walking"
  BY DEF PackTypeOK, Visit
<1>2. child \in Spots /\ Tail(stack) \in Seq(Spots)
  BY <1>1, SeqSteps
<1>3. child.at \in Paths /\ child.name \in Paths /\ child = [at |-> child.at, name |-> child.name]
  BY <1>2 DEF Spots
<1>4. q \in DOMAIN tree \cup {Nowhere}
  BY <1>3, SpotIs
<1> HIDE DEF child, q
<1>5. Append(found, Skipped(child.name)) \in Seq(Items)
  BY <1>1, <1>3, RenderedIs, SeqSteps
<1>6. q # Nowhere => Append(found, item_for(child.name, child.at, q)) \in Seq(Items)
  <2>1. q # Nowhere => item_for(child.name, child.at, q) \in Items
    BY <1>3, <1>4, ItemIs
  <2> QED BY <1>1, <2>1, SeqSteps
<1>7. found' \in Seq(Items) /\ stage' \in {"walking", "linking", "listing"}
  BY <1>1, <1>5, <1>6 DEF Visit, child, q
<1>8. here' = child /\ stack' = Tail(stack)
      /\ UNCHANGED <<world, asked, target, opened, turn, planning, told, writing>>
  BY DEF Visit, child
<1> QED BY <1>1, <1>2, <1>3, <1>7, <1>8 DEF PackTypeOK, world, planning, writing, Stages, AtHand

LEMMA ReadLinkTyped == ASSUME PackTypeOK, ReadLink PROVE PackTypeOK'
<1> DEFINE q == Spot(here.at)
           item == IF Is(q, "link") /\ Decodable(tree[q].to)
                   THEN Item(here.name, here.at, "link", 0, NoInode, tree[q].to)
                   ELSE Skipped(here.name)
<1>1. found \in Seq(Items) /\ stage = "linking" /\ here.name \in Paths /\ here.at \in Paths
  BY DEF PackTypeOK, ReadLink
<1>2. item \in Items
  <2>1. Is(q, "link") => tree[q].to \in Paths
    BY WorldIs DEF Is
  <2> HIDE DEF q
  <2> QED BY <1>1, <2>1, RenderedIs DEF Item, Items, NoInode
<1>3. found' = Append(found, item)
  BY DEF ReadLink
<1> HIDE DEF item
<1>4. found' \in Seq(Items)
  BY <1>1, <1>2, <1>3, SeqSteps
<1> QED BY <1>1, <1>4 DEF PackTypeOK, ReadLink, world, planning, writing, Stages, AtHand

LEMMA SiftTyped == ASSUME PackTypeOK, Sift PROVE PackTypeOK'
<1> DEFINE item == Head(found)
<1>1. found \in Seq(Items) /\ found # <<>> /\ stage = "walking" /\ plan \in Seq(Items)
  BY DEF PackTypeOK, Sift
<1>2. item \in Items /\ Tail(found) \in Seq(Items)
  BY <1>1, SeqSteps
<1>3. /\ stage' \in {"walking", "refused"} /\ found' = Tail(found)
      /\ told' = told \cup {item.name} \/ told' = told
      /\ plan' = plan \/ plan' = Append(plan, item)
      /\ excluded' \in BOOLEAN
      /\ UNCHANGED <<world, asked, target, opened, turn, here, stack, writing>>
  BY <1>1 DEF Sift, PackTypeOK
<1> HIDE DEF item
<1>4. plan' \in Seq(Items) /\ Len(plan) <= Len(plan') /\ item.name \in Paths /\ Len(plan) \in Nat /\ Len(plan') \in Nat
  <2>1. item.name \in Paths
    BY <1>2 DEF Items
  <2>2. Append(plan, item) \in Seq(Items) /\ Len(Append(plan, item)) = Len(plan) + 1 /\ Len(plan) \in Nat
    BY <1>1, <1>2, SeqSteps
  <2> QED BY <1>1, <1>3, <2>1, <2>2
<1> QED BY <1>1, <1>2, <1>3, <1>4 DEF PackTypeOK, world, writing, Stages, AtHand

LEMMA NextPathTyped == ASSUME PackTypeOK, NextPath PROVE PackTypeOK'
<1>1. Len(asked.paths) \in Nat
  BY DEF PackTypeOK, Asks
<1> QED BY <1>1 DEF PackTypeOK, NextPath, world, walking, planning, writing, Stages, AtHand

LEMMA CreateTyped == ASSUME PackTypeOK, Create PROVE PackTypeOK'
<1> DEFINE i == tree[Canonical(asked.dst)].ino
<1>1. stage = "naming" /\ asked.dst \in Paths /\ reader = Idle
  BY DEF PackTypeOK, Create, Asks
<1>2. Through => i \in DOMAIN files
  BY WorldIs DEF Through, Is
<1>3. /\ stage' \in {"refused", "writing"} /\ turn' = 0
      /\ (files' = files \/ (Through /\ files' = [files EXCEPT ![i].bytes = <<>>]))
      /\ \/ opened' = NoInode
         \/ Through /\ opened' = i
      /\ UNCHANGED <<tree, pending, changes, asked, target, walking, planning, told, writing>>
  BY DEF Create
<1> HIDE DEF i
<1>4. DOMAIN files' = DOMAIN files /\ files' \in [DOMAIN files -> FileStates]
  <2>1. files \in [DOMAIN files -> FileStates]
    BY DEF PackTypeOK
  <2>2. CASE files' = files
    BY <2>1, <2>2
  <2>3. CASE Through /\ files' = [files EXCEPT ![i].bytes = <<>>]
    <3>0. files[i] \in FileStates
      BY <1>2, <2>1, <2>3
    <3>1. [files[i] EXCEPT !.bytes = <<>>] \in FileStates
      <4> <<>> \in Seq(Nat)
        OBVIOUS
      <4> QED BY <3>0 DEF FileStates
    <3>2. files' = [files EXCEPT ![i] = [files[i] EXCEPT !.bytes = <<>>]]
      BY <2>3
    <3> QED BY <2>1, <3>1, <3>2
  <2> QED BY <1>3, <2>2, <2>3
<1>5. Len(plan) \in Nat
  BY DEF PackTypeOK
<1>6. opened' \in Nat
  BY <1>2, <1>3 DEF PackTypeOK, NoInode
<1> QED BY <1>1, <1>3, <1>4, <1>5, <1>6 DEF PackTypeOK, walking, planning, writing, Stages, AtHand

LEMMA AtHandIs ==
  ASSUME PackTypeOK, turn < Len(plan)
  PROVE  /\ AtHand \in Items /\ AtHand.name \in Paths /\ AtHand.to \in Paths
         /\ AtHand.size \in Nat /\ AtHand.kind \in {"dir", "file", "link", "skipped"}
<1>1. AtHand \in Items
  BY DEF PackTypeOK, AtHand
<1> QED BY <1>1 DEF Items

LEMMA RecordTyped == ASSUME PackTypeOK, Record PROVE PackTypeOK'
<1> DEFINE entry == Entry(AtHand.name, AtHand.kind, AtHand.to)
<1>1. /\ stage = "writing" /\ turn < Len(plan) /\ turn + 1 <= Len(plan) /\ turn + 1 \in Nat
      /\ AtHand.kind # "file"
  BY DEF PackTypeOK, Record
<1>2. AtHand.kind # "skipped" => entry \in Entries
  BY <1>1, AtHandIs DEF Entry, Entries, Paths
<1>3. stored \in Seq(Entries) /\ held \in Seq(Seq(Nat)) /\ Len(stored) = Len(held)
  BY DEF PackTypeOK
<1>4. /\ turn' = turn + 1
      /\ told' = told \/ told' = told \cup {AtHand.name}
      /\ \/ stored' = stored /\ held' = held
         \/ AtHand.kind # "skipped" /\ stored' = Append(stored, entry) /\ held' = Append(held, <<>>)
      /\ UNCHANGED <<world, asked, target, opened, stage, walking, planning, linked, reader>>
  BY DEF Record, Telling
<1> HIDE DEF entry
<1>5. stored' \in Seq(Entries) /\ held' \in Seq(Seq(Nat)) /\ Len(stored') = Len(held')
  <2>1. <<>> \in Seq(Nat)
    OBVIOUS
  <2>2. Append(held, <<>>) \in Seq(Seq(Nat)) /\ Len(Append(held, <<>>)) = Len(held) + 1
    BY <1>3, <2>1, SeqSteps
  <2>3. AtHand.kind # "skipped" =>
          Append(stored, entry) \in Seq(Entries) /\ Len(Append(stored, entry)) = Len(stored) + 1
    BY <1>2, <1>3, SeqSteps
  <2> QED BY <1>3, <1>4, <2>2, <2>3
<1>6. told' \subseteq Paths
  BY <1>1, <1>4, AtHandIs DEF PackTypeOK
<1> QED BY <1>1, <1>4, <1>5, <1>6 DEF PackTypeOK, world, walking, planning, Stages

LEMMA OpenTyped == ASSUME PackTypeOK, Open PROVE PackTypeOK'
<1> DEFINE q == Canonical(AtHand.at)
<1>1. /\ stage = "writing" /\ turn < Len(plan) /\ turn + 1 <= Len(plan) /\ turn + 1 \in Nat
      /\ reader = Idle
  BY DEF PackTypeOK, Open
<1>2. Readable(q) => tree[q].ino \in DOMAIN files /\ tree[q].ino \in Nat
  <2>1. Is(q, "file") => tree[q].ino \in DOMAIN files
    BY WorldIs DEF Is
  <2> HIDE DEF q
  <2> QED BY <2>1 DEF Readable, PackTypeOK
<1>3. /\ \/ stage' = "writing" /\ turn' = turn + 1 /\ reader' = reader
         \/ stage' \in {"failed", "waiting"} /\ turn' = turn /\ reader' = reader
         \/ /\ stage' = "payload" /\ turn' = turn /\ Readable(q)
            /\ reader' = [Idle EXCEPT !.ino = tree[q].ino, !.remaining = AtHand.size]
      /\ told' = told \/ told' = told \cup {AtHand.name}
      /\ UNCHANGED <<world, asked, target, opened, walking, planning, linked, stored, held>>
  BY <1>1 DEF Open, Telling
<1> HIDE DEF q
<1>4. told' \subseteq Paths
  BY <1>1, <1>3, AtHandIs DEF PackTypeOK
<1>5. /\ AtHand' = plan[turn' + 1] /\ plan' = plan /\ AtHand.size \in Nat
      /\ AtHand = plan[turn + 1]
  BY <1>1, <1>3, AtHandIs DEF AtHand, planning
<1>6. CASE stage' = "payload"
  <2>1. /\ reader' = [ino |-> tree[q].ino, at |-> 0, remaining |-> AtHand.size,
                      content |-> <<>>, padded |-> FALSE]
        /\ Readable(q) /\ turn' = turn
    BY <1>3, <1>6 DEF Idle
  <2>2. <<>> \in Seq(Nat) /\ Len(<<>>) = 0
    OBVIOUS
  <2>3. reader' \in Readers
    BY <1>2, <1>5, <2>1, <2>2 DEF Readers
  <2>4. /\ reader'.ino \in DOMAIN files /\ AtHand'.kind = "file"
        /\ Len(reader'.content) + reader'.remaining = AtHand'.size
    <3>1. AtHand.kind = "file"
      BY DEF Open
    <3> QED BY <1>2, <1>5, <2>1, <2>2, <3>1
  <2> QED BY <1>1, <1>3, <1>4, <1>6, <2>1, <2>3, <2>4
          DEF PackTypeOK, world, walking, planning, Stages
<1>7. CASE stage' # "payload"
  BY <1>1, <1>3, <1>4, <1>7 DEF PackTypeOK, world, walking, planning, Stages
<1> QED BY <1>6, <1>7

LEMMA ReadTyped == ASSUME PackTypeOK, Read PROVE PackTypeOK'
<1>1. /\ stage = "payload" /\ reader \in Readers /\ turn < Len(plan)
      /\ reader.ino \in DOMAIN files /\ files \in [DOMAIN files -> FileStates]
      /\ Len(reader.content) + reader.remaining = AtHand.size /\ reader.remaining > 0
  BY DEF PackTypeOK, Read
<1>2. /\ reader = [ino |-> reader.ino, at |-> reader.at, remaining |-> reader.remaining,
                   content |-> reader.content, padded |-> reader.padded]
      /\ reader.ino \in Nat /\ reader.at \in Nat /\ reader.remaining \in Nat
      /\ reader.content \in Seq(Nat) /\ reader.padded \in BOOLEAN
      /\ files[reader.ino].bytes \in Seq(Nat)
  BY <1>1 DEF Readers, FileStates
<1>3. \E b \in Nat, at \in Nat, padded \in BOOLEAN :
        reader' = [ino |-> reader.ino, at |-> at, remaining |-> reader.remaining - 1,
                   content |-> Append(reader.content, b), padded |-> padded]
  <2>1. CASE Left
    <3>1. reader.at + 1 \in 1 .. Len(files[reader.ino].bytes)
      BY <1>2, <2>1 DEF Left
    <3>2. files[reader.ino].bytes[reader.at + 1] \in Nat
      BY <1>2, <3>1
    <3> DEFINE b == files[reader.ino].bytes[reader.at + 1]
    <3>3. reader' = [reader EXCEPT !.at = @ + 1, !.remaining = @ - 1, !.content = Append(@, b)]
      BY <2>1 DEF Read
    <3> HIDE DEF b
    <3>4. reader' = [ino |-> reader.ino, at |-> reader.at + 1, remaining |-> reader.remaining - 1,
                     content |-> Append(reader.content, b), padded |-> reader.padded]
      BY <1>2, <3>3
    <3>5. b \in Nat
      BY <3>2 DEF b
    <3>6. reader.at + 1 \in Nat /\ reader.padded \in BOOLEAN
      BY <1>2
    <3> QED BY <3>4, <3>5, <3>6
  <2>2. CASE ~ Left
    <3>1. reader' = [reader EXCEPT !.remaining = @ - 1, !.content = Append(@, 0), !.padded = TRUE]
      BY <2>2 DEF Read, Padded
    <3>2. reader' = [ino |-> reader.ino, at |-> reader.at, remaining |-> reader.remaining - 1,
                     content |-> Append(reader.content, 0), padded |-> TRUE]
      BY <1>2, <3>1
    <3> QED BY <1>2, <3>2
  <2> QED BY <2>1, <2>2
<1>4. PICK b \in Nat, at \in Nat, padded \in BOOLEAN :
        reader' = [ino |-> reader.ino, at |-> at, remaining |-> reader.remaining - 1,
                   content |-> Append(reader.content, b), padded |-> padded]
  BY <1>3
<1>5. Append(reader.content, b) \in Seq(Nat) /\ Len(Append(reader.content, b)) = Len(reader.content) + 1
  BY <1>2, SeqSteps
<1>6. reader.remaining - 1 \in Nat /\ Len(reader.content) \in Nat
  BY <1>1, <1>2
<1>7. reader' \in Readers
  BY <1>2, <1>4, <1>5, <1>6 DEF Readers
<1>8. reader'.ino = reader.ino
      /\ Len(reader'.content) + reader'.remaining = Len(reader.content) + reader.remaining
  <2>1. /\ reader'.ino = reader.ino /\ reader'.remaining = reader.remaining - 1
        /\ reader'.content = Append(reader.content, b)
    BY <1>4
  <2> QED BY <1>2, <1>5, <1>6, <2>1
<1>9. UNCHANGED <<world, asked, target, opened, stage, turn, walking, planning, told, linked, stored, held>>
  BY DEF Read
<1> QED BY <1>1, <1>7, <1>8, <1>9 DEF PackTypeOK, world, walking, planning, Stages, AtHand

LEMMA StoredTyped == ASSUME PackTypeOK, Stored PROVE PackTypeOK'
<1>1. /\ stage = "payload" /\ reader \in Readers /\ turn < Len(plan)
      /\ turn + 1 <= Len(plan) /\ turn + 1 \in Nat
      /\ reader.ino \in DOMAIN files /\ files \in [DOMAIN files -> FileStates]
      /\ stored \in Seq(Entries) /\ held \in Seq(Seq(Nat)) /\ Len(stored) = Len(held)
  BY DEF PackTypeOK, Stored
<1>2. Entry(AtHand.name, "file", reader.content) \in Entries
  BY <1>1, AtHandIs DEF Entry, Entries, Readers
<1>3. files[reader.ino].bytes \in Seq(Nat)
  BY <1>1 DEF FileStates
<1>4. stored' \in Seq(Entries) /\ held' \in Seq(Seq(Nat)) /\ Len(stored') = Len(held')
  BY <1>1, <1>2, <1>3, SeqSteps DEF Stored
<1>5. told' \subseteq Paths
  BY <1>1, AtHandIs DEF PackTypeOK, Stored
<1>6. Idle \in Readers
  BY DEF Idle, Readers, NoInode
<1>7. /\ stage' \in {"writing", "failed"} /\ turn' = turn + 1 /\ reader' = Idle
      /\ UNCHANGED <<world, asked, target, opened, walking, planning, linked>>
  BY DEF Stored
<1> QED BY <1>1, <1>4, <1>5, <1>6, <1>7 DEF PackTypeOK, world, walking, planning, Stages

LEMMA FinishTyped == ASSUME PackTypeOK, Finish PROVE PackTypeOK'
<1>1. hardlink_count \in 0 .. Len(plan)
  <2> DEFINE twins == {k \in DOMAIN plan :
               plan[k].link # NoInode /\ \E j \in DOMAIN plan \ {k} : plan[j].link = plan[k].link}
  <2>1. Len(plan) \in Nat /\ DOMAIN plan = 1 .. Len(plan)
    BY DEF PackTypeOK
  <2>2. IsFiniteSet(1 .. Len(plan)) /\ Cardinality(1 .. Len(plan)) = Len(plan)
    <3>1. /\ IsFiniteSet(1 .. Len(plan))
          /\ Cardinality(1 .. Len(plan)) = IF 1 > Len(plan) THEN 0 ELSE Len(plan) - 1 + 1
      BY <2>1, FS_Interval
    <3> QED BY <2>1, <3>1
  <2>3. twins \subseteq 1 .. Len(plan)
    BY <2>1
  <2> HIDE DEF twins
  <2>4. /\ IsFiniteSet(twins) /\ Cardinality(twins) <= Len(plan)
        /\ Cardinality(twins) \in Nat
    BY <2>2, <2>3, FS_Subset, FS_CardinalityType
  <2> QED BY <2>1, <2>4 DEF hardlink_count, twins
<1> QED BY <1>1 DEF PackTypeOK, Finish, world, walking, planning, Stages, AtHand

LEMMA ChangedTyped == ASSUME PackTypeOK, Changed PROVE PackTypeOK'
<1> DEFINE inos == DOMAIN files
<1>1. PICK c \in pending :
       /\ pending' = pending \ {c}
       /\ \/ /\ c.what = "path" /\ Is(Front(c.path), "dir")
             /\ tree' = Put(c.path, c.node)
             /\ changes' = changes \cup {c} /\ UNCHANGED files
          \/ /\ c.what = "file"
             /\ files' = [files EXCEPT ![c.ino] = c.file]
             /\ changes' = changes \cup {[c EXCEPT !.was = files[c.ino].bytes]}
             /\ UNCHANGED tree
  BY DEF Changed
<1>2. c \in Changing(inos)
  BY DEF PackTypeOK
<1>3. Tree(tree, inos) /\ files \in [DOMAIN files -> FileStates]
  BY DEF PackTypeOK
<1>4. /\ DOMAIN files' = inos /\ files' \in [inos -> FileStates]
      /\ Tree(tree', inos) /\ pending' \cup changes' \subseteq Changing(inos)
  <2>1. CASE c.what = "path" /\ Is(Front(c.path), "dir") /\ tree' = Put(c.path, c.node)
             /\ changes' = changes \cup {c} /\ UNCHANGED files
    <3>1. c.path \in Paths \ {<<>>} /\ c.node \in Nodes(inos) \cup [kind : {"none"}]
      BY <1>2, <2>1 DEF Changing
    <3>2. Tree(tree', inos)
      BY <1>3, <2>1, <3>1, PutTree
    <3> QED BY <1>1, <1>2, <1>3, <2>1, <3>2 DEF PackTypeOK
  <2>2. CASE c.what = "file" /\ files' = [files EXCEPT ![c.ino] = c.file]
             /\ changes' = changes \cup {[c EXCEPT !.was = files[c.ino].bytes]} /\ UNCHANGED tree
    <3>1. /\ c \in [what : {"file"}, ino : inos, file : FileStates, was : Seq(Nat)]
          /\ c.ino \in inos /\ c.file \in FileStates
      BY <1>2, <2>2 DEF Changing
    <3>2. files[c.ino].bytes \in Seq(Nat)
      BY <1>3, <3>1 DEF FileStates
    <3>3. [c EXCEPT !.was = files[c.ino].bytes] \in Changing(inos)
      BY <3>1, <3>2 DEF Changing
    <3> QED BY <1>1, <1>3, <2>2, <3>1, <3>3 DEF PackTypeOK
  <2> QED BY <1>1, <2>1, <2>2
<1>5. UNCHANGED <<asked, target, opened, stage, turn, walking, planning, told, writing>>
  BY DEF Changed
<1> HIDE DEF inos
<1> QED BY <1>4, <1>5 DEF PackTypeOK, walking, planning, writing, Stages, AtHand, inos

LEMMA TargetIs ==
  ASSUME Tree(tree, DOMAIN files), asked \in Asks
  PROVE  canonical_output_path(asked.dst) \in Paths \cup {Nowhere}
<1>1. asked.dst \in Paths \ {<<>>}
  BY DEF Asks
<1>2. Front(asked.dst) \in Paths /\ Last(asked.dst) \in Nat
  BY <1>1, FrontIs DEF Paths
<1> DEFINE d == Canonical(Front(asked.dst))
<1>3. d \in Paths \cup {Nowhere}
  <2>0. \A p \in Paths : Canonical(p) \in DOMAIN tree \cup {Nowhere}
    BY CanonicalThere DEF Tree
  <2>1. d \in DOMAIN tree \cup {Nowhere}
    BY <1>2, <2>0
  <2> QED BY <2>1 DEF Tree
<1>4. d \in Paths => Append(d, Last(asked.dst)) \in Paths
  BY <1>2 DEF Paths
<1>5. canonical_output_path(asked.dst) = IF d = Nowhere THEN Nowhere ELSE Append(d, Last(asked.dst))
  BY DEF canonical_output_path
<1> HIDE DEF d
<1> QED BY <1>3, <1>4, <1>5

LEMMA InitTyped == ASSUME PackInit PROVE PackTypeOK
<1>1. PICK scene \in Scenes :
        tree = scene.tree /\ files = scene.files /\ asked = scene.asked /\ pending = scene.changes
  BY DEF PackInit
<1>2. /\ DOMAIN files \subseteq Nat \ {0} /\ files \in [DOMAIN files -> FileStates]
      /\ Tree(tree, DOMAIN files) /\ asked \in Asks /\ pending \subseteq Changing(DOMAIN files)
  BY <1>1, PackAssumption
<1>3. target \in Paths \cup {Nowhere} /\ opened \in Nat
  BY <1>2, TargetIs DEF PackInit, NoInode
<1>4. /\ <<>> \in Paths /\ <<>> \in Seq(Spots) /\ <<>> \in Seq(Items) /\ <<>> \in Seq(Entries)
      /\ <<>> \in Seq(Seq(Nat)) /\ Len(<<>>) = 0 /\ Len(asked.paths) \in Nat
  BY <1>2 DEF Paths, Asks
<1>5. Idle \in Readers
  BY DEF Idle, Readers, NoInode
<1>6. here \in [at : Paths, name : Paths \cup {Nowhere}]
  BY <1>4 DEF PackInit
<1>7. /\ changes = {} /\ stage = "naming" /\ turn = 0 /\ stack = <<>> /\ found = <<>> /\ plan = <<>>
      /\ excluded = FALSE /\ told = {} /\ linked = 0 /\ reader = Idle /\ stored = <<>> /\ held = <<>>
  BY DEF PackInit
<1>8. /\ stack \in Seq(Spots) /\ found \in Seq(Items) /\ plan \in Seq(Items) /\ linked \in 0 .. Len(plan)
      /\ stored \in Seq(Entries) /\ held \in Seq(Seq(Nat)) /\ Len(stored) = Len(held)
      /\ turn \in Nat /\ turn <= Len(asked.paths) /\ told \subseteq Paths /\ excluded \in BOOLEAN
      /\ pending \cup changes \subseteq Changing(DOMAIN files) /\ reader \in Readers
  <2>1. /\ stack \in Seq(Spots) /\ found \in Seq(Items) /\ plan \in Seq(Items)
        /\ stored \in Seq(Entries) /\ held \in Seq(Seq(Nat))
    BY <1>4, <1>7
  <2>2. /\ Len(stored) = Len(held) /\ linked \in 0 .. Len(plan)
    BY <1>4, <1>7
  <2>3. turn \in Nat /\ turn <= Len(asked.paths)
    BY <1>4, <1>7
  <2>4. told \subseteq Paths /\ excluded \in BOOLEAN /\ reader \in Readers
    BY <1>5, <1>7
  <2>5. pending \cup changes \subseteq Changing(DOMAIN files)
    BY <1>2, <1>7
  <2> QED BY <2>1, <2>2, <2>3, <2>4, <2>5
<1> QED BY <1>2, <1>3, <1>6, <1>7, <1>8 DEF PackTypeOK, Stages

LEMMA StepTyped == ASSUME PackTypeOK, [PackNext]_packVars PROVE PackTypeOK'
<1>1. CASE UNCHANGED packVars
  BY <1>1 DEF PackTypeOK, packVars, world, walking, planning, writing, AtHand, Stages
<1> QED BY <1>1, NameTyped, RootTyped, ListTyped, VisitTyped, ReadLinkTyped, SiftTyped,
           NextPathTyped, CreateTyped, RecordTyped, OpenTyped, ReadTyped, StoredTyped,
           FinishTyped, ChangedTyped DEF PackNext

-------------------------------------------------------------------------------
(* What was stored without a word.                                          *)

(* The steps up to the archive's creation, which leave the world alone.      *)
Late == {"writing", "payload", "done", "failed", "waiting"}
Early == Name \/ Root \/ List \/ Visit \/ ReadLink \/ Sift \/ NextPath

LEMMA EarlySteps ==
  ASSUME Early
  PROVE  /\ stage \notin Late /\ stage' \notin Late
         /\ UNCHANGED <<tree, files, pending, changes, asked, target, opened, writing>>
         /\ told \subseteq told'
<1>1. CASE Name BY <1>1 DEF Name, world, Late
<1>2. CASE Root BY <1>2 DEF Root, world, Late
<1>3. CASE List BY <1>3 DEF List, world, Late
<1>4. CASE Visit BY <1>4 DEF Visit, world, Late
<1>5. CASE ReadLink BY <1>5 DEF ReadLink, world, Late
<1>6. CASE Sift BY <1>6 DEF Sift, world, Late
<1>7. CASE NextPath BY <1>7 DEF NextPath, world, Late
<1> QED BY <1>1, <1>2, <1>3, <1>4, <1>5, <1>6, <1>7 DEF Early

LEMMA StepIs ==
  ASSUME [PackNext]_packVars
  PROVE  \/ Early \/ Create \/ Record \/ Open \/ Read \/ Stored \/ Finish \/ Changed
         \/ UNCHANGED packVars
  BY DEF PackNext, Early

LEMMA ChangeIs ==
  ASSUME PackTypeOK, Changed
  PROVE  \E c \in pending :
           /\ c \in Changing(DOMAIN files)
           /\ UNCHANGED <<asked, target, opened, stage, turn, walking, planning, told, writing>>
           /\ ~ Ended
           /\ \/ /\ c.what = "path" /\ c.path \in Paths \ {<<>>}
                 /\ c.node \in Nodes(DOMAIN files) \cup [kind : {"none"}]
                 /\ Is(Front(c.path), "dir")
                 /\ tree' = Put(c.path, c.node)
                 /\ changes' = changes \cup {c} /\ files' = files
              \/ /\ c.what = "file" /\ c.ino \in DOMAIN files /\ c.file \in FileStates
                 /\ files' = [files EXCEPT ![c.ino] = c.file]
                 /\ changes' = changes \cup {[c EXCEPT !.was = files[c.ino].bytes]}
                 /\ [c EXCEPT !.was = files[c.ino].bytes].what = "file"
                 /\ [c EXCEPT !.was = files[c.ino].bytes].ino = c.ino
                 /\ [c EXCEPT !.was = files[c.ino].bytes].was = files[c.ino].bytes
                 /\ tree' = tree
<1>1. PICK c \in pending :
       /\ pending' = pending \ {c}
       /\ \/ /\ c.what = "path" /\ Is(Front(c.path), "dir")
             /\ tree' = Put(c.path, c.node)
             /\ changes' = changes \cup {c} /\ UNCHANGED files
          \/ /\ c.what = "file"
             /\ files' = [files EXCEPT ![c.ino] = c.file]
             /\ changes' = changes \cup {[c EXCEPT !.was = files[c.ino].bytes]}
             /\ UNCHANGED tree
  BY DEF Changed
<1>2. c \in Changing(DOMAIN files)
  BY DEF PackTypeOK
<1>3. ~ Ended /\ UNCHANGED <<asked, target, opened, stage, turn, walking, planning, told, writing>>
  BY DEF Changed
<1>4. CASE c.what = "path"
  <2>1. c.path \in Paths \ {<<>>} /\ c.node \in Nodes(DOMAIN files) \cup [kind : {"none"}]
    BY <1>2, <1>4 DEF Changing
  <2> QED BY <1>1, <1>2, <1>3, <1>4, <2>1
<1>5. CASE c.what = "file"
  <2>1. /\ c \in [what : {"file"}, ino : DOMAIN files, file : FileStates, was : Seq(Nat)]
        /\ c.ino \in DOMAIN files /\ c.file \in FileStates
    BY <1>2, <1>5 DEF Changing
  <2>2. /\ [c EXCEPT !.was = files[c.ino].bytes].what = "file"
        /\ [c EXCEPT !.was = files[c.ino].bytes].ino = c.ino
        /\ [c EXCEPT !.was = files[c.ino].bytes].was = files[c.ino].bytes
    BY <2>1
  <2> QED BY <1>1, <1>2, <1>3, <1>5, <2>1, <2>2
<1> QED BY <1>1, <1>4, <1>5

(* What a file once held it is known to have held.                          *)
LEMMA VersionsGrow ==
  ASSUME PackTypeOK, Changed
  PROVE  /\ \A i \in DOMAIN files : Versions(i) \subseteq Versions(i)'
         /\ FileChanges' = {} => FileChanges = {} /\ files' = files
         /\ DOMAIN files' = DOMAIN files
<1>1. PICK c \in pending :
              \/ /\ c.what = "path" /\ changes' = changes \cup {c} /\ files' = files
              \/ /\ c.what = "file" /\ c.ino \in DOMAIN files /\ c.file \in FileStates
                 /\ files' = [files EXCEPT ![c.ino] = c.file]
                 /\ changes' = changes \cup {[c EXCEPT !.was = files[c.ino].bytes]}
                 /\ [c EXCEPT !.was = files[c.ino].bytes].what = "file"
                 /\ [c EXCEPT !.was = files[c.ino].bytes].ino = c.ino
                 /\ [c EXCEPT !.was = files[c.ino].bytes].was = files[c.ino].bytes
  BY ChangeIs
<1>2. changes \subseteq changes' /\ FileChanges \subseteq FileChanges'
  BY <1>1 DEF FileChanges
<1>3. \A i : {x.was : x \in {x \in FileChanges : x.ino = i}} \subseteq Versions(i)'
  BY <1>2 DEF Versions
<1>4. CASE files' = files
  BY <1>2, <1>3, <1>4 DEF Versions
<1>5. CASE /\ c.ino \in DOMAIN files
           /\ files' = [files EXCEPT ![c.ino] = c.file]
           /\ changes' = changes \cup {[c EXCEPT !.was = files[c.ino].bytes]}
           /\ [c EXCEPT !.was = files[c.ino].bytes].what = "file"
           /\ [c EXCEPT !.was = files[c.ino].bytes].ino = c.ino
           /\ [c EXCEPT !.was = files[c.ino].bytes].was = files[c.ino].bytes
  <2> DEFINE d == [c EXCEPT !.was = files[c.ino].bytes]
  <2>1. d \in changes' /\ d.what = "file" /\ d.ino = c.ino /\ d.was = files[c.ino].bytes
    BY <1>5
  <2> HIDE DEF d
  <2>2. d \in FileChanges'
    BY <2>1 DEF FileChanges
  <2>3. \A i \in DOMAIN files : files[i].bytes \in Versions(i)'
    <3>1. SUFFICES ASSUME NEW i \in DOMAIN files PROVE files[i].bytes \in Versions(i)'
      OBVIOUS
    <3>2. CASE i = c.ino
      BY <2>1, <2>2, <3>2 DEF Versions
    <3>3. CASE i # c.ino
      <4>1. files'[i] = files[i]
        BY <1>5, <3>3
      <4> QED BY <4>1 DEF Versions
    <3> QED BY <3>2, <3>3
  <2>4. DOMAIN files' = DOMAIN files
    BY <1>5
  <2> QED BY <1>3, <2>2, <2>3, <2>4 DEF Versions
<1> QED BY <1>1, <1>4, <1>5

(* What was read so far, while nothing was filled in.                       *)
Drawn(i, content) ==
  \A n \in DOMAIN content : \E v \in Versions(i) : n \in DOMAIN v /\ v[n] = content[n]
ReadSoFar ==
  stage = "payload" /\ ~ reader.padded =>
    /\ reader.at = Len(reader.content) /\ Drawn(reader.ino, reader.content)
    /\ FileChanges = {} =>
         /\ reader.at <= Len(files[reader.ino].bytes)
         /\ \A n \in 1 .. reader.at : reader.content[n] = files[reader.ino].bytes[n]
NothingYet == stage \notin Late => stored = <<>> /\ held = <<>>
WholeInv == ReadSoFar /\ NothingYet /\ WholeOrTold

WholeAt(k) ==
  stored[k].kind = "file" /\ stored[k].name \notin told =>
    /\ \E i \in DOMAIN files : Drawn(i, stored[k].content)
    /\ FileChanges = {} => stored[k].content = held[k]
    /\ ~ IsStrictPrefix(stored[k].content, held[k])

LEMMA WholeEach ==
  /\ WholeOrTold <=> \A k \in DOMAIN stored : WholeAt(k)
  /\ WholeOrTold' <=> \A k \in DOMAIN stored' : WholeAt(k)'
BY DEF WholeOrTold, WholeAt, Drawn

LEMMA DrawnSame ==
  ASSUME NEW i, Versions(i) \subseteq Versions(i)', NEW content, Drawn(i, content)
  PROVE  \A n \in DOMAIN content : \E v \in Versions(i)' : n \in DOMAIN v /\ v[n] = content[n]
BY DEF Drawn

LEMMA WholeSame ==
  ASSUME NEW k, WholeAt(k), DOMAIN files' = DOMAIN files, told \subseteq told',
         stored'[k] = stored[k], held'[k] = held[k],
         \A i \in DOMAIN files : Versions(i) \subseteq Versions(i)',
         FileChanges' = {} => FileChanges = {}
  PROVE  WholeAt(k)'
<1>1. SUFFICES ASSUME stored[k].kind = "file", stored[k].name \notin told'
               PROVE  /\ \E i \in DOMAIN files' : \A n \in DOMAIN stored[k].content :
                            \E v \in Versions(i)' : n \in DOMAIN v /\ v[n] = stored[k].content[n]
                      /\ FileChanges' = {} => stored[k].content = held[k]
                      /\ ~ IsStrictPrefix(stored[k].content, held[k])
  BY DEF WholeAt, Drawn
<1>2. /\ \E i \in DOMAIN files : Drawn(i, stored[k].content)
      /\ FileChanges = {} => stored[k].content = held[k]
      /\ ~ IsStrictPrefix(stored[k].content, held[k])
  BY <1>1 DEF WholeAt
<1>3. PICK i \in DOMAIN files : Drawn(i, stored[k].content)
  BY <1>2
<1>4. \A n \in DOMAIN stored[k].content : \E v \in Versions(i)' : n \in DOMAIN v /\ v[n] = stored[k].content[n]
  BY <1>3, DrawnSame
<1> QED BY <1>2, <1>4

LEMMA WholeAllSame ==
  ASSUME WholeOrTold, DOMAIN files' = DOMAIN files, told \subseteq told',
         stored' = stored, held' = held,
         \A i \in DOMAIN files : Versions(i) \subseteq Versions(i)',
         FileChanges' = {} => FileChanges = {}
  PROVE  WholeOrTold'
<1>1. ASSUME NEW k \in DOMAIN stored PROVE WholeAt(k)'
  <2>1. WholeAt(k) /\ stored'[k] = stored[k] /\ held'[k] = held[k]
    BY WholeEach
  <2> QED BY <2>1, WholeSame
<1> QED BY <1>1, WholeEach

LEMMA WholeEarly == ASSUME WholeInv, Early PROVE WholeInv'
<1>1. /\ stage \notin Late /\ stage' \notin Late /\ told \subseteq told'
      /\ files' = files /\ changes' = changes /\ stored' = stored /\ held' = held
  BY EarlySteps DEF writing
<1>2. /\ DOMAIN files' = DOMAIN files /\ FileChanges' = FileChanges
      /\ \A i \in DOMAIN files : Versions(i) \subseteq Versions(i)'
  BY <1>1 DEF FileChanges, Versions
<1>3. WholeOrTold'
  BY <1>1, <1>2, WholeAllSame DEF WholeInv
<1> QED BY <1>1, <1>3 DEF WholeInv, ReadSoFar, NothingYet, Late

LEMMA WholeCreate == ASSUME WholeInv, Create PROVE WholeInv'
<1>1. stored = <<>> /\ held = <<>> /\ stored' = stored /\ held' = held /\ stage' # "payload"
  BY DEF WholeInv, NothingYet, Create, Late, writing
<1> QED BY <1>1 DEF WholeInv, ReadSoFar, NothingYet, WholeOrTold

(* Steps that store nothing and read nothing.                               *)
LEMMA WholeQuiet ==
  ASSUME WholeInv, stage \in Late, stage' \in Late,
         stage' = "payload" => reader'.at = 0 /\ reader'.content = <<>>
                               /\ reader'.ino \in DOMAIN files
                               /\ Len(files[reader'.ino].bytes) \in Nat,
         UNCHANGED <<files, changes, stored, held>>, told \subseteq told'
  PROVE  WholeInv'
<1>1. /\ DOMAIN files' = DOMAIN files /\ FileChanges' = FileChanges
      /\ \A i \in DOMAIN files : Versions(i) \subseteq Versions(i)'
  BY DEF FileChanges, Versions
<1>2. WholeOrTold'
  BY <1>1, WholeAllSame DEF WholeInv
<1>3. ReadSoFar'
  <2>1. DOMAIN <<>> = {} /\ Len(<<>>) = 0
    OBVIOUS
  <2> QED BY <2>1 DEF ReadSoFar, Drawn
<1> QED BY <1>2, <1>3 DEF WholeInv, NothingYet, Late

LEMMA WholeRecord == ASSUME PackTypeOK, WholeInv, Record PROVE WholeInv'
<1>1. /\ stage = "writing" /\ stage' = "writing" /\ told \subseteq told' /\ AtHand.kind # "file"
      /\ files' = files /\ changes' = changes
  BY DEF Record, Telling, world
<1>2. stored \in Seq(Entries) /\ held \in Seq(Seq(Nat)) /\ Len(stored) = Len(held)
  BY DEF PackTypeOK
<1>3. CASE stored' = stored /\ held' = held
  <2> QED BY <1>1, <1>3, WholeQuiet DEF Late
<1>4. CASE stored' = Append(stored, Entry(AtHand.name, AtHand.kind, AtHand.to)) /\ held' = Append(held, <<>>)
  <2>1. /\ FileChanges' = FileChanges /\ \A i \in DOMAIN files : Versions(i) \subseteq Versions(i)'
    BY <1>1 DEF FileChanges, Versions
  <2> DEFINE entry == Entry(AtHand.name, AtHand.kind, AtHand.to)
  <2>2. entry.kind # "file"
    BY <1>1 DEF Entry
  <2> HIDE DEF entry
  <2>3. /\ \A k \in DOMAIN stored : stored'[k] = stored[k] /\ held'[k] = held[k]
        /\ \A k \in DOMAIN stored' : k \in DOMAIN stored \/ stored'[k] = entry
    BY <1>2, <1>4 DEF entry
  <2>4. ASSUME NEW k \in DOMAIN stored' PROVE WholeAt(k)'
    <3>1. CASE k \in DOMAIN stored
      <4>1. WholeAt(k)
        BY <3>1, WholeEach DEF WholeInv
      <4> QED BY <1>1, <2>1, <2>3, <3>1, <4>1, WholeSame
    <3>2. CASE stored'[k] = entry
      BY <2>2, <3>2 DEF WholeAt
    <3> QED BY <2>3, <3>1, <3>2
  <2>5. WholeOrTold'
    BY <2>4, WholeEach
  <2> QED BY <1>1, <2>5 DEF WholeInv, ReadSoFar, NothingYet, Late
<1> QED BY <1>3, <1>4 DEF Record

LEMMA WholeOpen == ASSUME PackTypeOK, WholeInv, Open PROVE WholeInv'
<1> DEFINE q == Canonical(AtHand.at)
<1>1. Readable(q) => tree[q].ino \in DOMAIN files /\ Len(files[tree[q].ino].bytes) \in Nat
  <2>1. Is(q, "file") => tree[q].ino \in DOMAIN files
    BY WorldIs DEF Is
  <2>2. \A i \in DOMAIN files : files[i].bytes \in Seq(Nat)
    BY WorldIs
  <2> HIDE DEF q
  <2> QED BY <2>1, <2>2 DEF Readable
<1>2. /\ stage = "writing" /\ stage' \in {"writing", "failed", "waiting", "payload"}
      /\ stage' = "payload" => Readable(q) /\ reader' = [Idle EXCEPT !.ino = tree[q].ino, !.remaining = AtHand.size]
      /\ told \subseteq told' /\ UNCHANGED <<files, changes, stored, held>>
  BY DEF Open, Telling, world
<1> HIDE DEF q
<1>3. stage' = "payload" => reader'.at = 0 /\ reader'.content = <<>> /\ reader'.ino = tree[q].ino
  BY <1>2 DEF Idle
<1>4. stage' = "payload" => reader'.at = 0 /\ reader'.content = <<>>
                               /\ reader'.ino \in DOMAIN files
                               /\ Len(files[reader'.ino].bytes) \in Nat
  BY <1>1, <1>2, <1>3
<1> QED BY <1>2, <1>4, WholeQuiet DEF Late

LEMMA WholeRead == ASSUME PackTypeOK, WholeInv, Read PROVE WholeInv'
<1>1. /\ stage = "payload" /\ stage' = "payload"
      /\ UNCHANGED <<files, changes, stored, held, told>>
  BY DEF Read, world
<1>2. /\ FileChanges' = FileChanges /\ \A i : Versions(i)' = Versions(i)
  BY <1>1 DEF FileChanges, Versions
<1>3. WholeOrTold'
  BY <1>1, <1>2, WholeAllSame DEF WholeInv
<1>4. /\ reader \in Readers /\ reader.at \in Nat /\ reader.content \in Seq(Nat)
      /\ files[reader.ino].bytes \in Seq(Nat) /\ reader.ino \in DOMAIN files
  BY <1>1, WorldIs DEF PackTypeOK, Readers
<1> PICK i \in DOMAIN files : i = reader.ino
  BY <1>4
<1>5. CASE Left
  <2> DEFINE at == reader.at
             bytes == files[i].bytes
             content == reader.content
             b == bytes[at + 1]
  <2>1. reader' = [reader EXCEPT !.at = @ + 1, !.remaining = @ - 1, !.content = Append(@, b)]
    BY <1>5 DEF Read
  <2>2. at + 1 \in DOMAIN bytes /\ at + 1 <= Len(bytes) /\ Len(bytes) \in Nat
    BY <1>4, <1>5 DEF Left
  <2>3. ReadSoFar
    BY DEF WholeInv
  <2>4. ~ reader.padded => /\ at = Len(content) /\ Drawn(i, content)
                           /\ FileChanges = {} => at <= Len(bytes) /\ \A n \in 1 .. at : content[n] = bytes[n]
    BY <1>1, <2>3 DEF ReadSoFar
  <2>5. bytes \in Versions(i)
    BY DEF Versions
  <2>6. /\ reader'.ino = i /\ reader'.at = at + 1 /\ reader'.padded = reader.padded
        /\ reader'.content = Append(content, b)
    BY <1>4, <2>1 DEF Readers
  <2>7. files'[reader'.ino].bytes = bytes
    BY <1>1, <2>6
  <2>8. content \in Seq(Nat) /\ at \in Nat
    BY <1>4
  <2> HIDE DEF at, bytes, content, b
  <2>9. /\ Len(Append(content, b)) = Len(content) + 1 /\ Append(content, b)[Len(content) + 1] = b
        /\ \A n \in 1 .. Len(content) : Append(content, b)[n] = content[n]
        /\ DOMAIN Append(content, b) = 1 .. Len(content) + 1 /\ DOMAIN content = 1 .. Len(content)
        /\ Len(content) \in Nat
    BY <2>8
  <2>10. ~ reader.padded => Drawn(i, Append(content, b))
    <3>1. ASSUME ~ reader.padded, NEW n \in 1 .. Len(content) + 1
          PROVE  \E v \in Versions(i) : n \in DOMAIN v /\ v[n] = Append(content, b)[n]
      <4>1. CASE n = Len(content) + 1
        BY <2>2, <2>4, <2>5, <2>9, <3>1, <4>1 DEF b
      <4>2. CASE n # Len(content) + 1
        <5>1. n \in DOMAIN content /\ Append(content, b)[n] = content[n]
          BY <2>9, <4>2
        <5> QED BY <2>4, <3>1, <5>1 DEF Drawn
      <4> QED BY <4>1, <4>2
    <3> QED BY <2>9, <3>1 DEF Drawn
  <2>11. ~ reader.padded =>
           \A n \in DOMAIN Append(content, b) : \E v \in Versions(i)' :
             n \in DOMAIN v /\ v[n] = Append(content, b)[n]
    <3>1. Versions(i) \subseteq Versions(i)'
      BY <1>2
    <3>2. SUFFICES ASSUME Drawn(i, Append(content, b))
          PROVE  \A n \in DOMAIN Append(content, b) : \E v \in Versions(i)' :
                   n \in DOMAIN v /\ v[n] = Append(content, b)[n]
      BY <2>10
    <3> DEFINE more == Append(content, b)
    <3>3. Drawn(i, more)
      BY <3>2
    <3> HIDE DEF more
    <3>4. \A n \in DOMAIN more : \E v \in Versions(i)' : n \in DOMAIN v /\ v[n] = more[n]
      BY <3>1, <3>3 DEF Drawn
    <3> QED BY <3>4 DEF more
  <2>12. ReadSoFar'
    <3>1. SUFFICES ASSUME ~ reader.padded
                   PROVE  /\ at + 1 = Len(Append(content, b))
                          /\ \A n \in DOMAIN Append(content, b) : \E v \in Versions(i)' :
                               n \in DOMAIN v /\ v[n] = Append(content, b)[n]
                          /\ FileChanges = {} =>
                               /\ at + 1 <= Len(bytes)
                               /\ \A n \in 1 .. at + 1 : Append(content, b)[n] = bytes[n]
      BY <1>2, <2>6, <2>7 DEF ReadSoFar, Drawn
    <3>2. ASSUME FileChanges = {}, NEW n \in 1 .. at + 1 PROVE Append(content, b)[n] = bytes[n]
      <4>1. CASE n = at + 1
        BY <2>4, <2>9, <3>1, <4>1 DEF b
      <4>2. CASE n # at + 1
        <5>1. n \in 1 .. at
          BY <2>8, <4>2
        <5> QED BY <2>4, <2>9, <3>1, <3>2, <5>1
      <4> QED BY <4>1, <4>2
    <3> QED BY <2>2, <2>4, <2>9, <2>11, <3>1, <3>2
  <2> QED BY <1>1, <1>3, <2>12 DEF WholeInv, NothingYet, Late
<1>6. CASE ~ Left
  <2>1. reader'.padded
    BY <1>4, <1>6 DEF Read, Padded, Readers
  <2>2. ReadSoFar'
    BY <2>1 DEF ReadSoFar
  <2> QED BY <1>1, <1>3, <2>2 DEF WholeInv, NothingYet, Late
<1> QED BY <1>5, <1>6

LEMMA WholeStored == ASSUME PackTypeOK, WholeInv, Stored PROVE WholeInv'
<1> DEFINE entry == Entry(AtHand.name, "file", reader.content)
           bytes == files[reader.ino].bytes
<1>1. /\ stage = "payload" /\ stage' \in {"writing", "failed"}
      /\ files' = files /\ changes' = changes /\ told \subseteq told'
      /\ stored' = Append(stored, entry) /\ held' = Append(held, bytes)
      /\ reader.padded \/ Grown => entry.name \in told'
  BY DEF Stored, world, Entry
<1>2. /\ stored \in Seq(Entries) /\ held \in Seq(Seq(Nat)) /\ Len(stored) = Len(held)
      /\ reader \in Readers /\ reader.ino \in DOMAIN files
  BY <1>1 DEF PackTypeOK
<1>3. /\ reader.at \in Nat /\ reader.content \in Seq(Nat) /\ bytes \in Seq(Nat)
      /\ entry.content = reader.content
  BY <1>2, WorldIs DEF Readers, Entry
<1>4. /\ FileChanges' = FileChanges /\ \A i \in DOMAIN files : Versions(i) \subseteq Versions(i)'
  BY <1>1 DEF FileChanges, Versions
<1> PICK i \in DOMAIN files : i = reader.ino
  BY <1>2
<1>5. Grown <=> Len(bytes) > reader.at
  BY DEF Grown, Left
<1> HIDE DEF entry, bytes
<1>6. /\ \A k \in DOMAIN stored : stored'[k] = stored[k] /\ held'[k] = held[k]
      /\ \A k \in DOMAIN stored' : k \in DOMAIN stored \/ (stored'[k] = entry /\ held'[k] = bytes)
  BY <1>1, <1>2
<1>7. ASSUME entry.name \notin told'
      PROVE  /\ \E j \in DOMAIN files' : \A n \in DOMAIN entry.content : \E v \in Versions(j)' :
                  n \in DOMAIN v /\ v[n] = entry.content[n]
             /\ FileChanges = {} => entry.content = bytes
             /\ ~ IsStrictPrefix(entry.content, bytes)
  <2>1. ~ reader.padded /\ Len(bytes) <= reader.at
    BY <1>1, <1>3, <1>5, <1>7
  <2>2. /\ reader.at = Len(reader.content) /\ Drawn(reader.ino, reader.content)
        /\ FileChanges = {} =>
             /\ reader.at <= Len(bytes)
             /\ \A n \in 1 .. reader.at : reader.content[n] = bytes[n]
    BY <1>1, <2>1 DEF WholeInv, ReadSoFar, bytes
  <2>3. FileChanges = {} => reader.content = bytes
    BY <1>3, <2>1, <2>2
  <2>4. ~ IsStrictPrefix(reader.content, bytes)
    <3>1. SUFFICES ASSUME IsPrefix(reader.content, bytes), reader.content # bytes PROVE FALSE
      BY DEF IsStrictPrefix
    <3>2. Len(reader.content) <= Len(bytes)
      BY <3>1 DEF IsPrefix
    <3>3. \A n \in 1 .. Len(reader.content) : reader.content[n] = bytes[n]
      BY <1>3, <3>1, <3>2 DEF IsPrefix
    <3> QED BY <1>3, <2>1, <2>2, <3>1, <3>2, <3>3
  <2>5. \A n \in DOMAIN entry.content : \E v \in Versions(i)' : n \in DOMAIN v /\ v[n] = entry.content[n]
    <3>1. Versions(i) \subseteq Versions(i)' /\ Drawn(i, entry.content)
      BY <1>3, <1>4, <2>2
    <3> QED BY <3>1, DrawnSame
  <2> QED BY <1>1, <1>2, <1>3, <2>3, <2>4, <2>5
<1>8. ASSUME NEW k \in DOMAIN stored' PROVE WholeAt(k)'
  <2>1. CASE k \in DOMAIN stored
    <3>1. WholeAt(k)
      BY <2>1, WholeEach DEF WholeInv
    <3> QED BY <1>1, <1>4, <1>6, <2>1, <3>1, WholeSame
  <2>2. CASE stored'[k] = entry /\ held'[k] = bytes
    <3>1. SUFFICES ASSUME entry.name \notin told'
          PROVE  /\ \E h \in DOMAIN files' : \A n \in DOMAIN entry.content : \E v \in Versions(h)' :
                      n \in DOMAIN v /\ v[n] = entry.content[n]
                 /\ FileChanges' = {} => entry.content = bytes
                 /\ ~ IsStrictPrefix(entry.content, bytes)
      BY <2>2 DEF WholeAt, Drawn
    <3> QED BY <1>4, <1>7, <3>1
  <2> QED BY <1>6, <2>1, <2>2
<1>9. WholeOrTold'
  BY <1>8, WholeEach
<1> QED BY <1>1, <1>9 DEF WholeInv, ReadSoFar, NothingYet, Late

LEMMA WholeChanged == ASSUME PackTypeOK, WholeInv, Changed PROVE WholeInv'
<1>1. /\ stage' = stage /\ told' = told /\ stored' = stored /\ held' = held /\ reader' = reader
  BY DEF Changed, writing
<1>2. /\ \A i \in DOMAIN files : Versions(i) \subseteq Versions(i)'
      /\ FileChanges' = {} => FileChanges = {} /\ files' = files
      /\ DOMAIN files' = DOMAIN files
  BY VersionsGrow
<1>3. WholeOrTold'
  BY <1>1, <1>2, WholeAllSame DEF WholeInv
<1>4. ReadSoFar'
  <2>1. SUFFICES ASSUME stage = "payload", ~ reader.padded, NEW i, i = reader.ino
                 PROVE /\ reader.at = Len(reader.content)
                       /\ \A n \in DOMAIN reader.content : \E v \in Versions(i)' :
                             n \in DOMAIN v /\ v[n] = reader.content[n]
                       /\ FileChanges' = {} =>
                             /\ reader.at <= Len(files'[i].bytes)
                             /\ \A n \in 1 .. reader.at : reader.content[n] = files'[i].bytes[n]
    BY <1>1 DEF ReadSoFar, Drawn
  <2>2. i \in DOMAIN files
    BY <2>1 DEF PackTypeOK
  <2>3. ReadSoFar
    BY DEF WholeInv
  <2>4. Versions(i) \subseteq Versions(i)'
    BY <1>2, <2>2
  <2>5. Drawn(i, reader.content)
    BY <2>1, <2>3 DEF ReadSoFar
  <2> QED BY <1>2, <2>1, <2>3, <2>4, <2>5, DrawnSame DEF ReadSoFar
<1> QED BY <1>1, <1>3, <1>4 DEF WholeInv, NothingYet

LEMMA WholeStep == ASSUME PackTypeOK, WholeInv, [PackNext]_packVars PROVE WholeInv'
<1>1. CASE Finish
  <2>1. /\ stage \in Late /\ stage' \in Late /\ stage' # "payload"
        /\ UNCHANGED <<files, changes, stored, held>> /\ told \subseteq told'
    BY <1>1 DEF Finish, Late, world
  <2> QED BY <2>1, WholeQuiet
<1>2. CASE UNCHANGED packVars
  BY <1>2 DEF WholeInv, ReadSoFar, NothingYet, WholeOrTold, Drawn, Versions, FileChanges, packVars, world, writing
<1> QED BY <1>1, <1>2, StepIs, WholeEarly, WholeCreate, WholeRecord, WholeOpen, WholeRead, WholeStored,
           WholeChanged

LEMMA WholeInit == ASSUME PackInit PROVE WholeInv
<1>1. DOMAIN <<>> = {}
  OBVIOUS
<1> QED BY <1>1 DEF PackInit, WholeInv, ReadSoFar, NothingYet, WholeOrTold, Late

-------------------------------------------------------------------------------
(* Paths that lead alike.                                                   *)

LEMMA LedSame ==
  ASSUME NEW t, <<>> \in DOMAIN t, NEW p, NEW q, Len(p) \in Nat, Len(q) \in Nat,
         NEW m \in Nat, m <= Len(p), m <= Len(q), \A i \in 1 .. m : p[i] = q[i]
  PROVE  \A k \in 0 .. m : LedIn(t, p)[k] = LedIn(t, q)[k]
<1> DEFINE Bad == {k \in 0 .. m : LedIn(t, p)[k] # LedIn(t, q)[k]}
<1>1. /\ LedIn(t, p)[0] = <<>> /\ LedIn(t, q)[0] = <<>>
      /\ \A k \in 1 .. Len(p) : LedIn(t, p)[k] = IntoIn(t, LedIn(t, p)[k - 1], p[k])
      /\ \A k \in 1 .. Len(q) : LedIn(t, q)[k] = IntoIn(t, LedIn(t, q)[k - 1], q[k])
  BY LedInSteps
<1>2. SUFFICES ASSUME Bad # {} PROVE FALSE
  OBVIOUS
<1>3. PICK n \in Bad : \A k \in Bad : n <= k
  <2>1. Bad \subseteq Nat
    OBVIOUS
  <2> HIDE DEF Bad
  <2> QED BY <1>2, <2>1, LeastOf
<1>4. n # 0 /\ n \in 1 .. m /\ n \in 1 .. Len(p) /\ n \in 1 .. Len(q)
  BY <1>1, <1>3
<1>5. LedIn(t, p)[n - 1] = LedIn(t, q)[n - 1]
  <2>1. n - 1 \in 0 .. m /\ ~ (n <= n - 1)
    BY <1>4
  <2> QED BY <1>3, <2>1
<1> QED BY <1>1, <1>3, <1>4, <1>5

(* A path leads where its last component leads from where the rest leads.    *)
LEMMA CanonicalByTreeEnd ==
  ASSUME NEW t, <<>> \in DOMAIN t, NEW p \in Paths, p # <<>>
  PROVE  /\ Front(p) \in Paths /\ Last(p) \in Nat
         /\ LedIn(t, p)[Len(p)] = IntoIn(t, LedIn(t, Front(p))[Len(Front(p))], Last(p))
<1>1. /\ Front(p) \in Paths /\ Last(p) \in Nat /\ Len(p) \in Nat /\ Len(p) >= 1
      /\ Len(Front(p)) = Len(p) - 1 /\ Last(p) = p[Len(p)]
      /\ \A i \in 1 .. Len(p) - 1 : Front(p)[i] = p[i]
  BY FrontIs DEF Paths
<1>2. \A k \in 0 .. Len(p) - 1 : LedIn(t, Front(p))[k] = LedIn(t, p)[k]
  <2>1. Len(p) - 1 \in Nat /\ Len(Front(p)) \in Nat /\ Len(p) - 1 <= Len(Front(p)) /\ Len(p) - 1 <= Len(p)
    BY <1>1
  <2> DEFINE m == Len(p) - 1
             f == Front(p)
  <2>2. m \in Nat /\ Len(f) \in Nat /\ m <= Len(f) /\ m <= Len(p) /\ \A i \in 1 .. m : f[i] = p[i]
    BY <1>1, <2>1
  <2> HIDE DEF m, f
  <2>3. \A k \in 0 .. m : LedIn(t, f)[k] = LedIn(t, p)[k]
    BY <1>1, <2>2, LedSame
  <2> QED BY <2>3 DEF m, f
<1>3. \A k \in 1 .. Len(p) : LedIn(t, p)[k] = IntoIn(t, LedIn(t, p)[k - 1], p[k])
  BY <1>1, LedInSteps
<1>4. Len(p) \in 1 .. Len(p) /\ Len(p) - 1 \in 0 .. Len(p) - 1
  BY <1>1
<1> QED BY <1>1, <1>2, <1>3, <1>4

LEMMA IntoByTree ==
  \A d, c : Into(d, c) = IntoIn(tree, d, c) /\ Into(d, c)' = IntoIn(tree', d, c)
BY DEF Into, IntoIn, Searchable, Landed, LandedIn, Hop, HopIn, Is, IsIn

LEMMA CanonicalEnd ==
  ASSUME PackTypeOK, NEW p \in Paths, p # <<>>
  PROVE  Front(p) \in Paths /\ Last(p) \in Nat /\ Canonical(p) = Into(Canonical(Front(p)), Last(p))
<1>1. <<>> \in DOMAIN tree
  BY WorldIs
<1> QED BY <1>1, CanonicalByTree, CanonicalByTreeEnd, IntoByTree

LEMMA CanonicalTop == ASSUME PackTypeOK PROVE Canonical(<<>>) = <<>>
<1>1. <<>> \in DOMAIN tree /\ Len(<<>>) = 0 /\ Len(<<>>) \in Nat
  BY WorldIs
<1>2. LedIn(tree, <<>>)[0] = <<>>
  BY <1>1, LedInSteps
<1> QED BY <1>1, <1>2, CanonicalByTree

(* What a path leads to is no link.                                         *)
LEMMA CanonicalNoLink ==
  ASSUME PackTypeOK, NEW p \in Paths
  PROVE  /\ ~ Is(Canonical(p), "link")
         /\ Canonical(p) = Nowhere \/ (\E kind \in {"dir", "file", "special"} : Is(Canonical(p), kind))
<1>1. tree[<<>>].kind = "dir"
  BY DEF PackTypeOK, Tree
<1>2. ~ Is(Canonical(p), "link")
  <2>1. CASE p = <<>>
    BY <1>1, <2>1, CanonicalTop DEF Is
  <2>2. CASE p # <<>>
    <3>1. Canonical(p) = Into(Canonical(Front(p)), Last(p))
      BY <2>2, CanonicalEnd
    <3>2. \A d, c : ~ Is(Into(d, c), "link")
      <4>1. Nowhere \notin DOMAIN tree
        BY WorldIs, NowhereNoPath
      <4> QED BY <4>1 DEF Into, Landed, Is
    <3> QED BY <3>1, <3>2
  <2> QED BY <2>1, <2>2
<1>3. Canonical(p) \in DOMAIN tree \cup {Nowhere}
  BY CanonicalIs
<1> QED BY <1>2, <1>3, WorldIs DEF Is

(* The entry a path names, once it is seen to be no link, is what the path   *)
(* leads to.                                                                *)
LEMMA SpotLeads ==
  ASSUME PackTypeOK, NEW p \in Paths, p # <<>>, Spot(p) # Nowhere, ~ Is(Spot(p), "link")
  PROVE  Canonical(p) = Spot(p)
<1> DEFINE d == Canonical(Front(p))
           q == Append(d, Last(p))
<1>1. Searchable(d) /\ q \in DOMAIN tree /\ Spot(p) = q
  BY DEF Spot
<1>2. Canonical(p) = Into(d, Last(p))
  BY CanonicalEnd
<1> HIDE DEF d
<1>3. Into(d, Last(p)) = Landed(q)
  BY <1>1 DEF Into
<1>4. Landed(q) = q
  BY <1>1 DEF Landed, Hop
<1> QED BY <1>1, <1>2, <1>3, <1>4

-------------------------------------------------------------------------------
(* What another program puts in the way, short of a link.                   *)

LEMMA PutInto ==
  ASSUME NEW t, NEW u, NEW path, NEW d, NEW e \in {Nowhere, path, d}, NEW c \in Nat,
         \A r \in DOMAIN u : r # path => r \in DOMAIN t /\ u[r] = t[r],
         \A b \in Nat : Append(path, b) \notin DOMAIN u,
         ~ IsIn(u, path, "link"), Nowhere \notin DOMAIN u
  PROVE  IntoIn(u, e, c) \in {Nowhere, path, IntoIn(t, d, c)}
<1>1. CASE e \in {Nowhere, path}
  BY <1>1 DEF IntoIn, IsIn
<1>2. CASE e = d /\ e \notin {Nowhere, path}
  <2> DEFINE q == Append(d, c)
  <2>1. SUFFICES ASSUME IsIn(u, d, "dir"), u[d].enters, q \in DOMAIN u
                 PROVE  LandedIn(u, q) \in {Nowhere, path, IntoIn(t, d, c)}
    BY <1>2 DEF IntoIn
  <2>2. IsIn(t, d, "dir") /\ t[d].enters
    BY <1>2, <2>1 DEF IsIn
  <2> HIDE DEF q
  <2>3. \A x : HopIn(u, x) = IF x \in DOMAIN u /\ x # path THEN HopIn(t, x) ELSE x
    BY DEF HopIn, IsIn
  <2>4. CASE q = path
    BY <2>3, <2>4 DEF LandedIn
  <2>5. CASE q # path
    <3>1. q \in DOMAIN t
      BY <2>1, <2>5
    <3>2. IntoIn(t, d, c) = LandedIn(t, q)
      BY <2>2, <3>1 DEF IntoIn, q
    <3> DEFINE h == HopIn(t, q)
    <3>3. HopIn(u, q) = h
      BY <2>1, <2>3, <2>5
    <3>4. CASE h = path \/ h \notin DOMAIN u
      <4>1. HopIn(u, h) = h
        BY <2>3, <3>4
      <4> QED BY <3>3, <3>4, <4>1 DEF LandedIn
    <3>5. CASE h # path /\ h \in DOMAIN u
      <4> DEFINE r == HopIn(t, h)
      <4>1. HopIn(u, h) = r
        BY <2>3, <3>5
      <4>2. LandedIn(u, q) = IF r \in DOMAIN u /\ ~ IsIn(u, r, "link") THEN r ELSE Nowhere
        BY <3>3, <4>1 DEF LandedIn
      <4>3. LandedIn(t, q) = IF r \in DOMAIN t /\ ~ IsIn(t, r, "link") THEN r ELSE Nowhere
        BY DEF LandedIn
      <4> HIDE DEF r, h
      <4> QED BY <3>2, <4>2, <4>3 DEF IsIn
    <3> QED BY <3>4, <3>5
  <2> QED BY <2>4, <2>5
<1> QED BY <1>1, <1>2

LEMMA PutLeads ==
  ASSUME NEW t, NEW u, NEW path, NEW p \in Paths, <<>> \in DOMAIN t, <<>> \in DOMAIN u,
         \A r \in DOMAIN u : r # path => r \in DOMAIN t /\ u[r] = t[r],
         \A b \in Nat : Append(path, b) \notin DOMAIN u,
         ~ IsIn(u, path, "link"), Nowhere \notin DOMAIN u
  PROVE  LedIn(u, p)[Len(p)] \in {Nowhere, path, LedIn(t, p)[Len(p)]}
<1> DEFINE Bad == {k \in 0 .. Len(p) : LedIn(u, p)[k] \notin {Nowhere, path, LedIn(t, p)[k]}}
<1>1. Len(p) \in Nat /\ \A k \in 1 .. Len(p) : p[k] \in Nat
  BY DEF Paths
<1>2. /\ LedIn(t, p)[0] = <<>> /\ LedIn(u, p)[0] = <<>>
      /\ \A k \in 1 .. Len(p) : LedIn(t, p)[k] = IntoIn(t, LedIn(t, p)[k - 1], p[k])
      /\ \A k \in 1 .. Len(p) : LedIn(u, p)[k] = IntoIn(u, LedIn(u, p)[k - 1], p[k])
  BY <1>1, LedInSteps
<1>3. SUFFICES ASSUME Bad # {} PROVE FALSE
  BY <1>1
<1>4. PICK n \in Bad : \A k \in Bad : n <= k
  <2>1. Bad \subseteq Nat
    BY <1>1
  <2> HIDE DEF Bad
  <2> QED BY <1>3, <2>1, LeastOf
<1>5. n # 0 /\ n \in 1 .. Len(p) /\ n - 1 \in 0 .. Len(p) /\ ~ (n <= n - 1)
  BY <1>1, <1>2, <1>4
<1>6. LedIn(u, p)[n - 1] \in {Nowhere, path, LedIn(t, p)[n - 1]}
  BY <1>4, <1>5
<1>7. IntoIn(u, LedIn(u, p)[n - 1], p[n]) \in {Nowhere, path, IntoIn(t, LedIn(t, p)[n - 1], p[n])}
  BY <1>1, <1>5, <1>6, PutInto
<1> QED BY <1>2, <1>4, <1>5, <1>7

LEMMA PutIs ==
  ASSUME PackTypeOK, NEW path \in Paths \ {<<>>},
         NEW node \in Nodes(DOMAIN files) \cup [kind : {"none"}],
         tree' = Put(path, node)
  PROVE  /\ \A r : r \in DOMAIN tree' <=>
               \/ r \in DOMAIN tree /\ ~ IsPrefix(path, r)
               \/ r = path /\ node.kind # "none"
         /\ \A r \in DOMAIN tree' : r # path => tree'[r] = tree[r]
         /\ path \in DOMAIN tree' => tree'[path] = node
         /\ \A b \in Nat : Append(path, b) \notin DOMAIN tree'
<1> DEFINE spared == {q \in DOMAIN tree : ~ IsPrefix(path, q)}
           D == IF node = Gone THEN spared ELSE spared \cup {path}
<1>1. tree' = [q \in D |-> IF q = path THEN node ELSE tree[q]]
  BY DEF Put
<1>2. node = Gone <=> node.kind = "none"
  <2>1. node \in Nodes(DOMAIN files) => node.kind # "none"
    BY NodeIs
  <2>2. node \in [kind : {"none"}] => node = Gone
    BY DEF Gone
  <2>3. Gone.kind = "none"
    BY DEF Gone
  <2> QED BY <2>1, <2>2, <2>3
<1>3. DOMAIN tree' = D
  BY <1>1
<1>4. path \notin spared
  <2>1. IsPrefix(path, path)
    BY PrefixIs, PathBasics
  <2> QED BY <2>1
<1>5. \A r \in DOMAIN tree' : r # path => tree'[r] = tree[r]
  BY <1>1, <1>3
<1>6. path \in DOMAIN tree' => tree'[path] = node
  BY <1>1, <1>3
<1>7. \A r : r \in DOMAIN tree' <=>
               \/ r \in DOMAIN tree /\ ~ IsPrefix(path, r)
               \/ r = path /\ node.kind # "none"
  BY <1>2, <1>3
<1>8. ASSUME NEW b \in Nat PROVE Append(path, b) \notin DOMAIN tree'
  <2>1. /\ Append(path, b) \in Paths /\ Len(Append(path, b)) = Len(path) + 1 /\ Len(path) \in Nat
        /\ \A i \in 1 .. Len(path) : Append(path, b)[i] = path[i]
    BY AppendIs, PathBasics
  <2>2. IsPrefix(path, Append(path, b))
    <3> DEFINE e == Append(path, b)
    <3>1. e \in Paths /\ Len(path) <= Len(e) /\ \A i \in 1 .. Len(path) : path[i] = e[i]
      BY <2>1
    <3> HIDE DEF e
    <3>2. IsPrefix(path, e)
      BY <3>1, PrefixIs
    <3> QED BY <3>2 DEF e
  <2>3. Append(path, b) # path
    BY <2>1
  <2> QED BY <1>7, <2>2, <2>3
<1> QED BY <1>5, <1>6, <1>7, <1>8

(* What a path leads to after a change that puts no link is what it led to   *)
(* before, or what was put.                                                 *)
LEMMA ChangeLeads ==
  ASSUME PackTypeOK, PackTypeOK', NEW path \in Paths \ {<<>>},
         NEW node \in Nodes(DOMAIN files) \cup [kind : {"none"}], node.kind # "link",
         tree' = Put(path, node), NEW p \in Paths, NEW kind, Is(Canonical(p), kind)'
  PROVE  node.kind = kind \/ Is(Canonical(p), kind)
<1> DEFINE r == LedIn(tree', p)[Len(p)]
<1>1. /\ <<>> \in DOMAIN tree /\ <<>> \in DOMAIN tree' /\ Nowhere \notin DOMAIN tree'
  BY NowhereNoPath DEF PackTypeOK, Tree
<1>2. /\ \A q : q \in DOMAIN tree' <=>
               \/ q \in DOMAIN tree /\ ~ IsPrefix(path, q)
               \/ q = path /\ node.kind # "none"
      /\ \A q \in DOMAIN tree' : q # path => tree'[q] = tree[q]
      /\ path \in DOMAIN tree' => tree'[path] = node
      /\ \A b \in Nat : Append(path, b) \notin DOMAIN tree'
  BY PutIs
<1>3. /\ \A q \in DOMAIN tree' : q # path => q \in DOMAIN tree /\ tree'[q] = tree[q]
      /\ ~ IsIn(tree', path, "link")
  BY <1>2 DEF IsIn
<1>4. r \in {Nowhere, path, LedIn(tree, p)[Len(p)]}
  BY <1>1, <1>2, <1>3, PutLeads
<1>5. Canonical(p)' = r /\ Canonical(p) = LedIn(tree, p)[Len(p)]
  BY CanonicalByTree
<1> HIDE DEF r
<1>6. r \in DOMAIN tree' /\ tree'[r].kind = kind
  BY <1>5 DEF Is
<1> QED BY <1>1, <1>2, <1>3, <1>4, <1>5, <1>6 DEF Is

-------------------------------------------------------------------------------
(* The items in hand, and where each step gets new ones from.                *)
Carried == Range(found) \cup Range(plan)

LEMMA CarriedAre == ASSUME PackTypeOK PROVE Carried \subseteq Items
<1>1. found \in Seq(Items) /\ plan \in Seq(Items)
  BY DEF PackTypeOK
<1> QED BY <1>1 DEF Carried, Range

LEMMA AppendRange ==
  ASSUME NEW S, NEW s \in Seq(S), NEW e
  PROVE  /\ Range(Append(s, e)) = Range(s) \cup {e}
         /\ s # <<>> => Range(s) = {Head(s)} \cup Range(Tail(s))
<1>1. /\ Len(s) \in Nat /\ DOMAIN s = 1 .. Len(s) /\ DOMAIN Append(s, e) = 1 .. Len(s) + 1
      /\ Append(s, e)[Len(s) + 1] = e /\ \A i \in 1 .. Len(s) : Append(s, e)[i] = s[i]
  <2>1. s \in Seq(S \cup {e})
    OBVIOUS
  <2> QED BY <2>1
<1>2. s # <<>> => /\ Len(s) >= 1 /\ Head(s) = s[1] /\ DOMAIN Tail(s) = 1 .. Len(s) - 1
                  /\ \A i \in 1 .. Len(s) - 1 : Tail(s)[i] = s[i + 1]
  OBVIOUS
<1>3. Range(Append(s, e)) = Range(s) \cup {e}
  <2> DEFINE a == Append(s, e)
  <2>1. DOMAIN a = 1 .. Len(s) + 1 /\ a[Len(s) + 1] = e /\ \A i \in 1 .. Len(s) : a[i] = s[i]
    BY <1>1
  <2> HIDE DEF a
  <2>2. \A i \in 1 .. Len(s) : i \in 1 .. Len(s) + 1
    BY <1>1
  <2>3. Len(s) + 1 \in 1 .. Len(s) + 1
    BY <1>1
  <2>4. \A i \in 1 .. Len(s) + 1 : i \in 1 .. Len(s) \/ i = Len(s) + 1
    BY <1>1
  <2>5. Range(a) = Range(s) \cup {e}
    <3>1. ASSUME NEW x \in Range(a) PROVE x \in Range(s) \cup {e}
      BY <1>1, <2>1, <2>4 DEF Range
    <3>2. ASSUME NEW x \in Range(s) PROVE x \in Range(a)
      BY <1>1, <2>1, <2>2 DEF Range
    <3>3. e \in Range(a)
      BY <2>1, <2>3 DEF Range
    <3> QED BY <3>1, <3>2, <3>3
  <2> QED BY <2>5 DEF a
<1>4. s # <<>> => Range(s) = {Head(s)} \cup Range(Tail(s))
  <2>1. SUFFICES ASSUME s # <<>>
                 PROVE Range(s) = {Head(s)} \cup Range(Tail(s))
    OBVIOUS
  <2> DEFINE r == Tail(s)
  <2>2. DOMAIN r = 1 .. Len(s) - 1 /\ \A i \in 1 .. Len(s) - 1 : r[i] = s[i + 1]
    BY <1>2, <2>1
  <2> HIDE DEF r
  <2>3. \A i \in 1 .. Len(s) : i = 1 \/ (i - 1 \in 1 .. Len(s) - 1 /\ s[i] = r[i - 1])
    BY <1>1, <2>2
  <2>4. \A i \in 1 .. Len(s) - 1 : i + 1 \in 1 .. Len(s) /\ r[i] = s[i + 1]
    BY <1>1, <2>2
  <2>5. 1 \in 1 .. Len(s) /\ Head(s) = s[1]
    BY <1>1, <1>2, <2>1
  <2>6. Range(s) = {Head(s)} \cup Range(r)
    <3>1. ASSUME NEW x \in Range(s) PROVE x \in {Head(s)} \cup Range(r)
      BY <1>1, <2>2, <2>3, <2>5 DEF Range
    <3>2. ASSUME NEW x \in Range(r) PROVE x \in Range(s)
      BY <1>1, <2>2, <2>4 DEF Range
    <3>3. Head(s) \in Range(s)
      BY <1>1, <2>5 DEF Range
    <3> QED BY <3>1, <3>2, <3>3
  <2> QED BY <2>6 DEF r
<1> QED BY <1>3, <1>4

LinkItem == Item(here.name, here.at, "link", 0, NoInode, tree[Spot(here.at)].to)

LEMMA CarriedSteps ==
  ASSUME PackTypeOK
  PROVE  /\ Root => Carried' \subseteq Carried \cup
              (IF Canonical(here.at) = Nowhere THEN {} ELSE {item_for(here.name, here.at, Canonical(here.at))})
         /\ List => Carried' \subseteq Carried \cup {Skipped(here.name)}
         /\ Visit => Carried' \subseteq Carried \cup {Skipped(Head(stack).name)} \cup
              (IF Spot(Head(stack).at) # Nowhere /\ ~ Is(Spot(Head(stack).at), "link")
               THEN {item_for(Head(stack).name, Head(stack).at, Spot(Head(stack).at))} ELSE {})
         /\ ReadLink => Carried' \subseteq Carried \cup {Skipped(here.name)} \cup
              (IF Is(Spot(here.at), "link") THEN {LinkItem} ELSE {})
         /\ Sift => Carried' \subseteq Carried
         /\ Name \/ NextPath \/ Create \/ Record \/ Open \/ Read \/ Stored \/ Finish \/ Changed
              \/ UNCHANGED packVars => Carried' = Carried
<1>1. found \in Seq(Items) /\ plan \in Seq(Items)
  BY DEF PackTypeOK
<1>2. \A e : Range(Append(found, e)) = Range(found) \cup {e}
  BY <1>1, AppendRange
<1>3. \A e : Range(Append(plan, e)) = Range(plan) \cup {e}
  BY <1>1, AppendRange
<1>4. ASSUME NEW e, found' = Append(found, e), plan' = plan PROVE Carried' = Carried \cup {e}
  BY <1>2, <1>4 DEF Carried
<1>5. found' = found /\ plan' = plan => Carried' = Carried
  BY DEF Carried
<1>6. ASSUME Root PROVE Carried' \subseteq Carried \cup
              (IF Canonical(here.at) = Nowhere THEN {} ELSE {item_for(here.name, here.at, Canonical(here.at))})
  <2> DEFINE e == item_for(here.name, here.at, Canonical(here.at))
  <2>1. plan' = plan /\ found' = IF Canonical(here.at) = Nowhere THEN <<>> ELSE <<e>>
    BY <1>6 DEF Root, planning
  <2> HIDE DEF e
  <2>2. DOMAIN <<e>> = {1} /\ <<e>>[1] = e /\ DOMAIN <<>> = {}
    OBVIOUS
  <2>3. CASE Canonical(here.at) = Nowhere
    BY <2>1, <2>2, <2>3 DEF Carried, Range
  <2>4. CASE Canonical(here.at) # Nowhere
    <3>1. Range(found') = {e}
      BY <2>1, <2>2, <2>4 DEF Range
    <3> QED BY <2>1, <2>4, <3>1 DEF Carried, e
  <2> QED BY <2>3, <2>4
<1>7. ASSUME List PROVE Carried' \subseteq Carried \cup {Skipped(here.name)}
  <2>1. plan' = plan /\ (found' = found \/ found' = Append(found, Skipped(here.name)))
    BY <1>7 DEF List, planning
  <2> QED BY <1>4, <1>5, <2>1
<1>8. ASSUME Visit PROVE Carried' \subseteq Carried \cup {Skipped(Head(stack).name)} \cup
              (IF Spot(Head(stack).at) # Nowhere /\ ~ Is(Spot(Head(stack).at), "link")
               THEN {item_for(Head(stack).name, Head(stack).at, Spot(Head(stack).at))} ELSE {})
  <2> DEFINE e == item_for(Head(stack).name, Head(stack).at, Spot(Head(stack).at))
             s == Skipped(Head(stack).name)
             ok == Spot(Head(stack).at) # Nowhere /\ ~ Is(Spot(Head(stack).at), "link")
  <2>1. plan' = plan /\ \/ found' = found
                        \/ found' = Append(found, s)
                        \/ ok /\ found' = Append(found, e)
    BY <1>8 DEF Visit, planning
  <2>2. Carried' \subseteq Carried \cup {s} \cup IF ok THEN {e} ELSE {}
    <3> HIDE DEF e, s, ok
    <3> QED BY <1>4, <1>5, <2>1
  <2> QED BY <2>2
<1>9. ASSUME ReadLink PROVE Carried' \subseteq Carried \cup {Skipped(here.name)} \cup
              (IF Is(Spot(here.at), "link") THEN {LinkItem} ELSE {})
  <2>1. plan' = plan /\ \/ found' = Append(found, Skipped(here.name))
                        \/ Is(Spot(here.at), "link") /\ found' = Append(found, LinkItem)
    BY <1>9 DEF ReadLink, planning, LinkItem
  <2> QED BY <1>4, <2>1
<1>10. ASSUME Sift PROVE Carried' \subseteq Carried
  <2>1. /\ found # <<>> /\ found' = Tail(found)
        /\ plan' = plan \/ plan' = Append(plan, Head(found))
    BY <1>10 DEF Sift
  <2>2. Range(found) = {Head(found)} \cup Range(Tail(found))
    BY <1>1, <2>1, AppendRange
  <2> QED BY <1>3, <2>1, <2>2 DEF Carried
<1>11. ASSUME Name \/ NextPath \/ Create \/ Record \/ Open \/ Read \/ Stored \/ Finish \/ Changed
              \/ UNCHANGED packVars
       PROVE Carried' = Carried
  <2>1. found' = found /\ plan' = plan
    BY <1>11 DEF Name, NextPath, Create, Record, Open, Read, Stored, Finish, Changed, packVars, walking, planning
  <2> QED BY <1>5, <2>1
<1> QED BY <1>6, <1>7, <1>8, <1>9, <1>10, <1>11

-------------------------------------------------------------------------------
(* A file that is planned becomes nothing else by itself.                    *)
Spoiled(kind) == Puts(kind) \/ Puts("link")
SpotsNamed == (\A i \in DOMAIN stack : stack[i].at # <<>>) /\ (stage = "linking" => here.at # <<>>)
FilesStay(kind) ==
  Spoiled(kind) \/ \A item \in Carried : item.kind = "file" => ~ Is(Canonical(item.at), kind)

LEMMA SpotsNamedStep ==
  ASSUME PackTypeOK, SpotsNamed, [PackNext]_packVars PROVE SpotsNamed'
<1>0. stack \in Seq(Spots)
  BY DEF PackTypeOK
<1>1. CASE List
  <2>1. stage' = "walking" /\ (stack' = stack \/ stack' = Children(here, Canonical(here.at)) \o stack)
    BY <1>1 DEF List
  <2>2. here \in Spots
    BY <1>1 DEF PackTypeOK, List, Spots
  <2>3. Tree(tree, DOMAIN files)
    BY DEF PackTypeOK
  <2> DEFINE cs == Children(here, Canonical(here.at))
  <2>4. cs \in Seq(Spots) /\ \A i \in DOMAIN cs : \E c \in NamesIn(Canonical(here.at)) : cs[i] = Child(here, c)
    BY <2>2, <2>3, ChildrenAre
  <2>5. NamesIn(Canonical(here.at)) \subseteq Nat
    BY <2>3, NamesAre
  <2>6. ASSUME NEW i \in DOMAIN cs PROVE cs[i].at # <<>>
    <3>1. PICK c \in Nat : cs[i] = Child(here, c)
      BY <2>4, <2>5
    <3>2. here.at \in Paths
      BY <2>2 DEF Spots
    <3>3. cs[i].at = Append(here.at, c)
      BY <3>1 DEF Child
    <3>4. Append(here.at, c) # <<>>
      BY <3>2, AppendIs
    <3> QED BY <3>3, <3>4
  <2> HIDE DEF cs
  <2>7. ASSUME stack' = cs \o stack, NEW i \in DOMAIN stack' PROVE stack'[i].at # <<>>
    <3>1. /\ DOMAIN stack = 1 .. Len(stack) /\ DOMAIN cs = 1 .. Len(cs)
          /\ Len(stack) \in Nat /\ Len(cs) \in Nat
          /\ DOMAIN (cs \o stack) = 1 .. Len(cs) + Len(stack)
          /\ \A k \in 1 .. Len(cs) + Len(stack) :
                (cs \o stack)[k] = IF k <= Len(cs) THEN cs[k] ELSE stack[k - Len(cs)]
      BY <1>0, <2>4
    <3>2. CASE i <= Len(cs)
      BY <2>6, <2>7, <3>1, <3>2
    <3>3. CASE ~ (i <= Len(cs))
      <4>1. i - Len(cs) \in DOMAIN stack /\ stack'[i] = stack[i - Len(cs)]
        BY <2>7, <3>1, <3>3
      <4> QED BY <4>1 DEF SpotsNamed
    <3> QED BY <3>2, <3>3
  <2> QED BY <2>1, <2>7 DEF SpotsNamed, cs
<1>2. CASE Visit
  <2>1. stack # <<>> /\ stack' = Tail(stack) /\ here' = Head(stack)
    BY <1>2 DEF Visit
  <2>2. /\ Head(stack) = stack[1] /\ 1 \in DOMAIN stack
        /\ \A i \in DOMAIN Tail(stack) : i + 1 \in DOMAIN stack /\ Tail(stack)[i] = stack[i + 1]
    BY <1>0, <2>1
  <2> QED BY <2>1, <2>2 DEF SpotsNamed
<1>3. CASE UNCHANGED packVars
  BY <1>3 DEF packVars, walking, SpotsNamed
<1>4. ASSUME ~ List, ~ Visit, PackNext PROVE stack' = stack /\ (stage' = "linking" => stage = "linking" /\ here' = here)
  BY <1>4 DEF PackNext, Name, Root, ReadLink, Sift, NextPath, Create, Record, Open, Read, Stored, Finish, Changed,
              walking
<1> QED BY <1>1, <1>2, <1>3, <1>4 DEF SpotsNamed

LEMMA FilesStayStep ==
  ASSUME PackTypeOK, PackTypeOK', SpotsNamed, NEW kind \in {"dir", "special"}, FilesStay(kind),
         [PackNext]_packVars
  PROVE  FilesStay(kind)'
<1>1. CASE Changed
  <2>1. PICK c \in pending :
           /\ UNCHANGED <<asked, target, opened, stage, turn, walking, planning, told, writing>>
           /\ \/ /\ c.what = "path" /\ c.path \in Paths \ {<<>>}
                 /\ c.node \in Nodes(DOMAIN files) \cup [kind : {"none"}]
                 /\ tree' = Put(c.path, c.node)
                 /\ changes' = changes \cup {c} /\ files' = files
              \/ /\ changes \subseteq changes'
                 /\ tree' = tree
    BY <1>1, ChangeIs
  <2>2. changes \subseteq changes'
    BY <2>1
  <2>3. Spoiled(kind) => Spoiled(kind)'
    BY <2>2 DEF Spoiled, Puts
  <2>4. Carried' = Carried
    BY <1>1, CarriedSteps
  <2>5. SUFFICES ASSUME ~ Spoiled(kind)', NEW item \in Carried, item.kind = "file", Is(Canonical(item.at), kind)'
                 PROVE FALSE
    BY <2>3, <2>4 DEF FilesStay
  <2>6. ~ Spoiled(kind) /\ ~ Is(Canonical(item.at), kind) /\ item.at \in Paths
    BY <2>3, <2>5, CarriedAre DEF FilesStay, Items
  <2>7. CASE tree' = tree
    <3>1. Canonical(item.at)' = Canonical(item.at)
      BY <2>7, CanonicalByTree
    <3> QED BY <2>5, <2>6, <2>7, <3>1 DEF Is
  <2>8. CASE /\ c.what = "path" /\ c.path \in Paths \ {<<>>}
             /\ c.node \in Nodes(DOMAIN files) \cup [kind : {"none"}]
             /\ tree' = Put(c.path, c.node)
             /\ changes' = changes \cup {c}
    <3>1. c.node.kind # "link" /\ c.node.kind # kind
      BY <2>5, <2>8 DEF Spoiled, Puts
    <3> QED BY <2>5, <2>6, <2>8, <3>1, ChangeLeads
  <2> QED BY <2>1, <2>7, <2>8
<1>2. ASSUME tree' = tree, changes' = changes,
             \A item \in Carried' \ Carried : item.kind = "file" => ~ Is(Canonical(item.at), kind)
      PROVE  FilesStay(kind)'
  <2>1. \A p : Canonical(p)' = Canonical(p)
    BY <1>2, CanonicalByTree
  <2>2. \A q : Is(q, kind)' = Is(q, kind)
    BY <1>2 DEF Is
  <2>3. Spoiled(kind)' = Spoiled(kind)
    BY <1>2 DEF Spoiled, Puts
  <2> QED BY <1>2, <2>1, <2>2, <2>3 DEF FilesStay, Is
<1>3. \A name : Skipped(name).kind # "file"
  BY DEF Skipped, Item
<1>4. ASSUME NEW name, NEW at, NEW q, item_for(name, at, q).kind = "file"
      PROVE  Is(q, "file") /\ item_for(name, at, q).at = at
  BY <1>4 DEF item_for, Item, Skipped
<1>5. \A q : Is(q, "file") => ~ Is(q, kind)
  BY DEF Is
<1>6. CASE Root
  <2>1. tree' = tree /\ changes' = changes
    BY <1>6 DEF Root, world
  <2>2. Carried' \subseteq Carried \cup
              (IF Canonical(here.at) = Nowhere THEN {} ELSE {item_for(here.name, here.at, Canonical(here.at))})
    BY <1>6, CarriedSteps
  <2>3. \A item \in Carried' \ Carried : item.kind = "file" => ~ Is(Canonical(item.at), kind)
    BY <1>4, <1>5, <2>2
  <2> QED BY <1>2, <2>1, <2>3
<1>7. CASE Visit
  <2> DEFINE at == Head(stack).at
             e == item_for(Head(stack).name, at, Spot(at))
  <2>1. tree' = tree /\ changes' = changes /\ stack # <<>>
    BY <1>7 DEF Visit, world
  <2>2. Carried' \subseteq Carried \cup {Skipped(Head(stack).name)} \cup
              (IF Spot(at) # Nowhere /\ ~ Is(Spot(at), "link") THEN {e} ELSE {})
    BY <1>7, CarriedSteps
  <2>3. at \in Paths /\ at # <<>>
    <3>1. stack \in Seq(Spots) /\ Head(stack) = stack[1] /\ 1 \in DOMAIN stack
      BY <2>1 DEF PackTypeOK
    <3>2. Head(stack) \in Spots /\ at # <<>>
      BY <3>1 DEF SpotsNamed
    <3> HIDE DEF at
    <3>3. Head(stack).at \in Paths
      BY <3>2 DEF Spots
    <3> QED BY <3>2, <3>3 DEF at
  <2> HIDE DEF at
  <2>4. Spot(at) # Nowhere /\ ~ Is(Spot(at), "link") => Canonical(at) = Spot(at)
    BY <2>3, SpotLeads
  <2>5. \A item \in Carried' \ Carried : item.kind = "file" => ~ Is(Canonical(item.at), kind)
    BY <1>3, <1>4, <1>5, <2>2, <2>4
  <2> QED BY <1>2, <2>1, <2>5
<1>8. CASE List \/ ReadLink \/ Sift
  <2>1. tree' = tree /\ changes' = changes
    BY <1>8 DEF List, ReadLink, Sift, world
  <2>2. Carried' \subseteq Carried \cup {Skipped(here.name)} \cup {LinkItem}
    BY <1>8, CarriedSteps
  <2>3. LinkItem.kind = "link"
    BY DEF LinkItem, Item
  <2>4. \A item \in Carried' \ Carried : item.kind # "file"
    BY <1>3, <2>2, <2>3
  <2> QED BY <1>2, <2>1, <2>4
<1>9. ASSUME Name \/ NextPath \/ Create \/ Record \/ Open \/ Read \/ Stored \/ Finish \/ UNCHANGED packVars
      PROVE  FilesStay(kind)'
  <2>1. tree' = tree /\ changes' = changes
    BY <1>9 DEF Name, NextPath, Create, Record, Open, Read, Stored, Finish, packVars, world
  <2>2. Carried' = Carried
    BY <1>9, CarriedSteps
  <2> QED BY <1>2, <2>1, <2>2
<1> QED BY <1>1, <1>6, <1>7, <1>8, <1>9 DEF PackNext

(* How a run may end short of its end.                                      *)
Excused ==
  /\ stage = "failed" => Spoiled("dir") \/ asked.unspeakable # {}
  /\ stage = "waiting" => Spoiled("special")

LEMMA ExcusedStep ==
  ASSUME PackTypeOK, Excused, FilesStay("dir"), FilesStay("special"), [PackNext]_packVars
  PROVE  Excused'
<1>1. CASE Open
  <2> DEFINE q == Canonical(AtHand.at)
  <2>1. /\ turn < Len(plan) /\ AtHand.kind = "file" /\ changes' = changes /\ asked' = asked
        /\ stage' = "failed" => Is(q, "dir") \/ AtHand.name \in asked.unspeakable
        /\ stage' = "waiting" => Is(q, "special")
    BY <1>1 DEF Open, world, PackTypeOK
  <2>2. AtHand \in Carried
    <3>1. plan \in Seq(Items) /\ turn \in Nat
      BY DEF PackTypeOK
    <3>2. turn + 1 \in DOMAIN plan
      BY <2>1, <3>1
    <3> QED BY <3>2 DEF Carried, AtHand, Range
  <2> HIDE DEF q
  <2>3. Spoiled("dir")' = Spoiled("dir") /\ Spoiled("special")' = Spoiled("special")
    BY <2>1 DEF Spoiled, Puts
  <2> QED BY <2>1, <2>2, <2>3 DEF Excused, FilesStay, q
<1>2. CASE Stored
  <2>1. /\ stage = "payload" /\ reader.remaining = 0
        /\ stage' = IF Len(reader.content) = AtHand.size THEN "writing" ELSE "failed"
    BY <1>2 DEF Stored
  <2>2. Len(reader.content) + reader.remaining = AtHand.size /\ Len(reader.content) \in Nat
    BY <2>1 DEF PackTypeOK, Readers
  <2> QED BY <2>1, <2>2 DEF Excused
<1>3. CASE Changed
  <2>1. stage' = stage /\ stage \notin {"failed", "waiting"}
    BY <1>3 DEF Changed, Ended
  <2> QED BY <2>1 DEF Excused
<1>4. CASE UNCHANGED packVars
  BY <1>4 DEF Excused, Spoiled, Puts, packVars, world
<1>5. ASSUME PackNext, ~ Open, ~ Stored, ~ Changed PROVE stage' \notin {"failed", "waiting"}
  BY <1>5 DEF PackNext, Name, Root, List, Visit, ReadLink, Sift, NextPath, Create, Record, Read, Finish
<1> QED BY <1>1, <1>2, <1>3, <1>4, <1>5 DEF Excused

-------------------------------------------------------------------------------
(* The order of names.                                                      *)
Aside(a, b) ==
  \E k \in DOMAIN a \cap DOMAIN b : a[k] < b[k] /\ \A j \in 1 .. k - 1 : a[j] = b[j]

LEMMA StrictPrefixIs ==
  ASSUME NEW p \in Paths, NEW q \in Paths
  PROVE  IsStrictPrefix(p, q) <=> Len(p) < Len(q) /\ \A i \in 1 .. Len(p) : p[i] = q[i]
<1>1. Len(p) \in Nat /\ Len(q) \in Nat
  BY PathBasics
<1>2. IsPrefix(p, q) <=> Len(p) <= Len(q) /\ \A i \in 1 .. Len(p) : p[i] = q[i]
  BY PrefixIs
<1>3. Len(p) = Len(q) /\ (\A i \in 1 .. Len(p) : p[i] = q[i]) => p = q
  BY SeqEqual DEF Paths
<1> QED BY <1>1, <1>2, <1>3 DEF IsStrictPrefix

LEMMA BeforeIs == \A a, b : Before(a, b) <=> IsStrictPrefix(a, b) \/ Aside(a, b)
BY DEF Before, Aside

LEMMA ChildAfter ==
  ASSUME NEW a \in Paths, NEW b \in Paths, NEW c \in Nat, Before(a, b) \/ a = b
  PROVE  Before(a, Append(b, c))
<1> DEFINE e == Append(b, c)
<1>1. /\ e \in Paths /\ Len(e) = Len(b) + 1 /\ (\A i \in 1 .. Len(b) : e[i] = b[i]) /\ Len(b) \in Nat /\ Len(a) \in Nat
      /\ DOMAIN e = 1 .. Len(e) /\ DOMAIN b = 1 .. Len(b) /\ DOMAIN a = 1 .. Len(a)
  BY AppendIs, PathBasics
<1> HIDE DEF e
<1>2. CASE a = b
  <2>1. IsStrictPrefix(a, e)
    BY <1>1, <1>2, StrictPrefixIs
  <2> QED BY <2>1, BeforeIs DEF e
<1>3. CASE IsStrictPrefix(a, b)
  <2>1. Len(a) < Len(b) /\ \A i \in 1 .. Len(a) : a[i] = b[i]
    BY <1>3, StrictPrefixIs
  <2>2. Len(a) < Len(e) /\ \A i \in 1 .. Len(a) : a[i] = e[i]
    BY <1>1, <2>1
  <2>3. IsStrictPrefix(a, e)
    BY <1>1, <2>2, StrictPrefixIs
  <2> QED BY <2>3, BeforeIs DEF e
<1>4. CASE Aside(a, b)
  <2>1. PICK k \in DOMAIN a \cap DOMAIN b : a[k] < b[k] /\ \A j \in 1 .. k - 1 : a[j] = b[j]
    BY <1>4 DEF Aside
  <2>2. k \in DOMAIN a \cap DOMAIN e /\ e[k] = b[k] /\ \A j \in 1 .. k - 1 : e[j] = b[j]
    BY <1>1, <2>1
  <2>3. Aside(a, e)
    BY <2>1, <2>2 DEF Aside
  <2> QED BY <2>3, BeforeIs DEF e
<1> QED BY <1>2, <1>3, <1>4, BeforeIs

LEMMA ChildAside ==
  ASSUME NEW a \in Paths, NEW b \in Paths, NEW c \in Nat, Aside(a, b)
  PROVE  Aside(Append(a, c), b)
<1> DEFINE e == Append(a, c)
<1>1. /\ Len(e) = Len(a) + 1 /\ (\A i \in 1 .. Len(a) : e[i] = a[i]) /\ Len(b) \in Nat /\ Len(a) \in Nat
      /\ DOMAIN e = 1 .. Len(e) /\ DOMAIN b = 1 .. Len(b) /\ DOMAIN a = 1 .. Len(a)
  BY AppendIs, PathBasics
<1> HIDE DEF e
<1>2. PICK k \in DOMAIN a \cap DOMAIN b : a[k] < b[k] /\ \A j \in 1 .. k - 1 : a[j] = b[j]
  BY DEF Aside
<1>3. k \in DOMAIN e \cap DOMAIN b /\ e[k] = a[k] /\ \A j \in 1 .. k - 1 : e[j] = a[j]
  BY <1>1, <1>2
<1>4. Aside(e, b)
  BY <1>2, <1>3 DEF Aside
<1> QED BY <1>4 DEF e

LEMMA SiblingAside ==
  ASSUME NEW a \in Paths, NEW b \in Nat, NEW c \in Nat, b < c
  PROVE  Aside(Append(a, b), Append(a, c))
<1> DEFINE d == Append(a, b)
           e == Append(a, c)
<1>1. /\ Len(a) \in Nat
      /\ DOMAIN d = 1 .. Len(a) + 1 /\ (\A i \in 1 .. Len(a) : d[i] = a[i]) /\ d[Len(a) + 1] = b
      /\ DOMAIN e = 1 .. Len(a) + 1 /\ (\A i \in 1 .. Len(a) : e[i] = a[i]) /\ e[Len(a) + 1] = c
  BY AppendIs, PathBasics
<1> HIDE DEF d, e
<1>2. Len(a) + 1 \in DOMAIN d \cap DOMAIN e /\ \A j \in 1 .. Len(a) + 1 - 1 : d[j] = e[j]
  BY <1>1
<1>3. Aside(d, e)
  BY <1>1, <1>2 DEF Aside
<1> QED BY <1>3 DEF d, e

LEMMA BeforeStrict == ASSUME NEW a \in Paths PROVE ~ Before(a, a)
<1>1. ~ IsStrictPrefix(a, a)
  BY DEF IsStrictPrefix
<1>2. \A i \in DOMAIN a : a[i] \in Nat
  BY PathBasics
<1>3. ~ Aside(a, a)
  BY <1>2 DEF Aside
<1> QED BY <1>1, <1>3, BeforeIs

-------------------------------------------------------------------------------
(* The walk goes in the order of names.                                     *)
Shown(item) == item.kind # "skipped"
OnWalk == stage \in {"root", "listing", "walking", "linking"}

(* Every name of this walk is below the name of its root.                    *)
Own(name) == name # <<>> /\ Head(name) = Head(here.name)
AllOwn ==
  /\ here.name # <<>> /\ (stage = "root" => Len(here.name) = 1)
  /\ \A i \in DOMAIN stack : Own(stack[i].name)
  /\ \A i \in DOMAIN found : Shown(found[i]) => Own(found[i].name)

StackAside == \A i, j \in DOMAIN stack : i < j => Aside(stack[i].name, stack[j].name)
HereAside ==
  stage \in {"listing", "linking"} =>
    /\ \A j \in DOMAIN stack : Aside(here.name, stack[j].name)
    /\ \A i \in DOMAIN found : Shown(found[i]) =>
         \/ Before(found[i].name, here.name)
         \/ stage = "listing" /\ found[i].name = here.name
FoundAhead ==
  \A i \in DOMAIN found, j \in DOMAIN stack :
    Shown(found[i]) => Before(found[i].name, stack[j].name)
Following(items) ==
  \A i, j \in DOMAIN items :
    i < j /\ Shown(items[i]) /\ Shown(items[j]) => Before(items[i].name, items[j].name)

(* Nothing of this walk is in the plan yet: its root, the first item found,  *)
(* is to claim its name first.                                              *)
Fresh ==
  /\ found # <<>> /\ (Shown(found[1]) => Len(found[1].name) = 1)
  /\ found[1].kind # "dir" => Len(found) = 1 /\ stack = <<>> /\ stage = "walking"
(* ... or the root did, and what is planned comes before what is found.      *)
Going ==
  /\ stage = "walking" /\ stack = <<>>
  /\ \A j \in DOMAIN found : Shown(found[j]) =>
       /\ <<Head(here.name)>> \in Claimed
       /\ \A i \in DOMAIN plan :
            Shown(plan[i]) /\ Head(plan[i].name) = Head(here.name) => Before(plan[i].name, found[j].name)

PlanInOrder ==
  \A i, j \in DOMAIN plan :
    i < j /\ Shown(plan[i]) /\ Shown(plan[j]) /\ Head(plan[i].name) = Head(plan[j].name) =>
      Before(plan[i].name, plan[j].name)
RootsClaimed ==
  \A i \in DOMAIN plan : Shown(plan[i]) => plan[i].name # <<>> /\ <<Head(plan[i].name)>> \in Claimed

WalkOrder ==
  OnWalk => AllOwn /\ StackAside /\ HereAside /\ FoundAhead /\ Following(found)
            /\ (stage = "root" \/ Fresh \/ Going)
OrderInv == WalkOrder /\ PlanInOrder /\ RootsClaimed

LEMMA OrderInit == ASSUME PackInit PROVE OrderInv
<1>1. DOMAIN <<>> = {}
  OBVIOUS
<1> QED BY <1>1 DEF PackInit, OrderInv, WalkOrder, OnWalk, PlanInOrder, RootsClaimed

(* Steps that leave the plan, and lead off the walk.                        *)
LEMMA OrderOff ==
  ASSUME OrderInv, plan' = plan, ~ OnWalk' PROVE OrderInv'
<1>1. Claimed' = Claimed
  BY DEF Claimed
<1> QED BY <1>1 DEF OrderInv, WalkOrder, PlanInOrder, RootsClaimed, OnWalk

LEMMA OrderStill ==
  ASSUME OrderInv, plan' = plan, stage' = stage, here' = here, found' = found, stack' = stack
  PROVE  OrderInv'
<1>1. Claimed' = Claimed
  BY DEF Claimed
<1>2. WalkOrder' = WalkOrder
  BY <1>1 DEF WalkOrder, OnWalk, AllOwn, StackAside, HereAside, FoundAhead, Following, Fresh, Going, Own, Shown
<1> QED BY <1>1, <1>2 DEF OrderInv, PlanInOrder, RootsClaimed

LEMMA OrderName == ASSUME PackTypeOK, OrderInv, Name PROVE OrderInv'
<1>1. plan' = plan /\ stack = <<>> /\ found = <<>> /\ stack' = <<>> /\ found' = <<>>
  BY DEF Name, PackTypeOK, planning
<1>2. stage' \in {"root", "refused"} /\ (stage' = "root" => here'.name # <<>> /\ Len(here'.name) = 1)
  <2>1. turn + 1 \in 1 .. Len(asked.paths) /\ stage \in Stages
    BY DEF PackTypeOK, Name, Asks
  <2>2. entry_name_for(AtTurn) # Nowhere => \E c \in Nat : entry_name_for(AtTurn) = <<c>>
    BY <2>1, EntryNameIs DEF AtTurn
  <2>3. \A c : Len(<<c>>) = 1 /\ <<c>> # <<>>
    OBVIOUS
  <2> QED BY <2>2, <2>3 DEF Name
<1>3. DOMAIN <<>> = {}
  OBVIOUS
<1>4. Claimed' = Claimed
  BY <1>1 DEF Claimed
<1> QED BY <1>1, <1>2, <1>3, <1>4
        DEF OrderInv, WalkOrder, OnWalk, AllOwn, StackAside, HereAside, FoundAhead, Following, PlanInOrder,
            RootsClaimed

LEMMA ItemShown ==
  \A name, at, q :
    /\ item_for(name, at, q).kind \in {"dir", "file", "skipped"}
    /\ Shown(item_for(name, at, q)) => item_for(name, at, q).name = name
    /\ Is(q, "dir") <=> item_for(name, at, q).kind = "dir"
    /\ ~ Shown(Skipped(name))
<1>1. \A q : ~ (Is(q, "dir") /\ Is(q, "file"))
  BY DEF Is
<1> QED BY <1>1 DEF item_for, Item, Skipped, Shown

LEMMA OrderRoot == ASSUME PackTypeOK, OrderInv, Root PROVE OrderInv'
<1> DEFINE e == item_for(here.name, here.at, Canonical(here.at))
<1>1. /\ stage = "root" /\ stack = <<>> /\ stack' = <<>> /\ plan' = plan /\ here' = here
      /\ \/ stage' = "refused"
         \/ found' = <<e>> /\ stage' = IF Is(Canonical(here.at), "dir") THEN "listing" ELSE "walking"
  BY DEF Root, PackTypeOK, planning
<1>2. here.name # <<>> /\ Len(here.name) = 1
  BY <1>1 DEF OrderInv, WalkOrder, OnWalk, AllOwn
<1>3. /\ Shown(e) => e.name = here.name
      /\ e.kind # "dir" <=> ~ Is(Canonical(here.at), "dir")
  BY ItemShown
<1> HIDE DEF e
<1>4. DOMAIN <<e>> = {1} /\ <<e>>[1] = e /\ <<e>> # <<>> /\ Len(<<e>>) = 1 /\ DOMAIN <<>> = {}
  OBVIOUS
<1>5. CASE stage' = "refused"
  BY <1>1, <1>5, OrderOff DEF OnWalk
<1>6. CASE found' = <<e>> /\ stage' = IF Is(Canonical(here.at), "dir") THEN "listing" ELSE "walking"
  <2>1. Claimed' = Claimed
    BY <1>1 DEF Claimed
  <2>2. AllOwn'
    BY <1>1, <1>2, <1>3, <1>4, <1>6 DEF AllOwn, Own
  <2>3. StackAside' /\ FoundAhead'
    BY <1>1, <1>4 DEF StackAside, FoundAhead
  <2>4. HereAside'
    BY <1>1, <1>3, <1>4, <1>6 DEF HereAside
  <2>5. Following(found)'
    BY <1>4, <1>6 DEF Following
  <2>6. Fresh'
    BY <1>1, <1>2, <1>3, <1>4, <1>6 DEF Fresh
  <2> QED BY <1>1, <2>1, <2>2, <2>3, <2>4, <2>5, <2>6
          DEF OrderInv, WalkOrder, PlanInOrder, RootsClaimed
<1> QED BY <1>1, <1>5, <1>6

LEMMA OrderNextPath == ASSUME OrderInv, NextPath PROVE OrderInv'
<1>1. plan' = plan /\ stage' = "naming"
  BY DEF NextPath, planning
<1> QED BY <1>1, OrderOff DEF OnWalk

LEMMA ConcatIs ==
  ASSUME NEW S, NEW s \in Seq(S), NEW t \in Seq(S)
  PROVE  /\ Len(s) \in Nat /\ Len(t) \in Nat /\ DOMAIN s = 1 .. Len(s) /\ DOMAIN t = 1 .. Len(t)
         /\ DOMAIN (s \o t) = 1 .. Len(s) + Len(t)
         /\ \A k \in 1 .. Len(s) + Len(t) :
              \/ k \in DOMAIN s /\ (s \o t)[k] = s[k]
              \/ k > Len(s) /\ k - Len(s) \in DOMAIN t /\ (s \o t)[k] = t[k - Len(s)]
OBVIOUS

LEMMA AppendSkipped ==
  ASSUME NEW s \in Seq(Items), NEW e, ~ Shown(e)
  PROVE  \A i \in DOMAIN Append(s, e) : Shown(Append(s, e)[i]) => i \in DOMAIN s /\ Append(s, e)[i] = s[i]
OBVIOUS

LEMMA OwnChild ==
  ASSUME NEW n \in Paths, n # <<>>, NEW c \in Nat
  PROVE  Append(n, c) # <<>> /\ Head(Append(n, c)) = Head(n) /\ Append(n, c) \in Paths
<1>1. Len(n) \in Nat /\ Len(n) >= 1 /\ n \in Seq(Nat)
  BY PathBasics DEF Paths
<1> QED BY <1>1 DEF Paths

(* A walk that a skipped item is added to.                                  *)
LEMMA OrderSkip ==
  ASSUME PackTypeOK, NEW name, found' = Append(found, Skipped(name))
  PROVE  /\ \A i \in DOMAIN found' : Shown(found'[i]) => i \in DOMAIN found /\ found'[i] = found[i]
         /\ FoundAhead /\ stack' = stack => FoundAhead'
         /\ Following(found) => Following(found)'
<1>1. found \in Seq(Items) /\ ~ Shown(Skipped(name))
  BY ItemShown DEF PackTypeOK
<1>2. \A i \in DOMAIN found' : Shown(found'[i]) => i \in DOMAIN found /\ found'[i] = found[i]
  BY <1>1, AppendSkipped
<1> QED BY <1>2 DEF FoundAhead, Following

LEMMA OrderList == ASSUME PackTypeOK, OrderInv, List PROVE OrderInv'
<1> DEFINE cs == Children(here, Canonical(here.at))
<1>1. /\ stage = "listing" /\ stage' = "walking" /\ plan' = plan /\ here' = here /\ here \in Spots
      /\ here.name \in Paths /\ stack \in Seq(Spots) /\ found \in Seq(Items)
      /\ \/ stack' = cs \o stack /\ found' = found
         \/ stack' = stack /\ found' = Append(found, Skipped(here.name))
  BY DEF List, PackTypeOK, planning, Spots
<1>2. AllOwn /\ StackAside /\ HereAside /\ FoundAhead /\ Following(found) /\ Fresh
  BY <1>1 DEF OrderInv, WalkOrder, OnWalk, Going
<1>3. Claimed' = Claimed
  BY <1>1 DEF Claimed
<1>4. HereAside'
  BY <1>1 DEF HereAside
<1>5. found[1].kind = "dir"
  BY <1>1, <1>2 DEF Fresh
<1>6. CASE stack' = cs \o stack /\ found' = found
  <2>1. /\ Tree(tree, DOMAIN files) /\ NamesIn(Canonical(here.at)) \subseteq Nat
    BY NamesAre DEF PackTypeOK
  <2>2. /\ cs \in Seq(Spots)
        /\ \A i \in DOMAIN cs : \E c \in NamesIn(Canonical(here.at)) : cs[i] = Child(here, c)
        /\ \A i, j \in DOMAIN cs : i < j =>
              \E b, c \in NamesIn(Canonical(here.at)) : b < c /\ cs[i] = Child(here, b) /\ cs[j] = Child(here, c)
    BY <1>1, <2>1, ChildrenAre
  <2> HIDE DEF cs
  <2>3. \A i \in DOMAIN cs : \E c \in Nat : cs[i].name = Append(here.name, c)
    BY <2>1, <2>2 DEF Child
  <2>4. \A i, j \in DOMAIN cs : i < j =>
          \E b, c \in Nat : b < c /\ cs[i].name = Append(here.name, b) /\ cs[j].name = Append(here.name, c)
    BY <2>1, <2>2 DEF Child
  <2>5. /\ Len(cs) \in Nat /\ Len(stack) \in Nat /\ DOMAIN cs = 1 .. Len(cs) /\ DOMAIN stack = 1 .. Len(stack)
        /\ DOMAIN stack' = 1 .. Len(cs) + Len(stack)
        /\ \A k \in 1 .. Len(cs) + Len(stack) :
              \/ k \in DOMAIN cs /\ stack'[k] = cs[k]
              \/ k > Len(cs) /\ k - Len(cs) \in DOMAIN stack /\ stack'[k] = stack[k - Len(cs)]
    BY <1>1, <1>6, <2>2, ConcatIs
  <2>6. \A i \in DOMAIN stack : stack[i].name \in Paths
    <3>1. \A i \in DOMAIN stack : stack[i] \in Spots
      BY <1>1
    <3> QED BY <3>1 DEF Spots
  <2>7. AllOwn'
    <3>1. \A i \in DOMAIN cs : Own(cs[i].name)
      BY <1>1, <1>2, <2>3, OwnChild DEF AllOwn, Own
    <3> QED BY <1>1, <1>2, <1>6, <2>5, <3>1 DEF AllOwn, Own
  <2>8. StackAside'
    <3>1. SUFFICES ASSUME NEW i \in DOMAIN stack', NEW j \in DOMAIN stack', i < j
                   PROVE  Aside(stack'[i].name, stack'[j].name)
      BY DEF StackAside
    <3>2. CASE j \in DOMAIN cs /\ stack'[j] = cs[j]
      <4>1. i \in DOMAIN cs /\ stack'[i] = cs[i]
        BY <2>5, <3>1, <3>2
      <4>2. PICK b \in Nat, c \in Nat : b < c /\ cs[i].name = Append(here.name, b) /\ cs[j].name = Append(here.name, c)
        BY <2>4, <3>1, <3>2, <4>1
      <4> QED BY <1>1, <3>2, <4>1, <4>2, SiblingAside
    <3>3. CASE j - Len(cs) \in DOMAIN stack /\ stack'[j] = stack[j - Len(cs)] /\ i \in DOMAIN cs /\ stack'[i] = cs[i]
      <4>1. PICK c \in Nat : cs[i].name = Append(here.name, c)
        BY <2>3, <3>3
      <4>2. Aside(here.name, stack[j - Len(cs)].name)
        BY <1>1, <1>2, <3>3 DEF HereAside
      <4> QED BY <1>1, <2>6, <3>3, <4>1, <4>2, ChildAside
    <3>4. CASE j - Len(cs) \in DOMAIN stack /\ stack'[j] = stack[j - Len(cs)]
               /\ i - Len(cs) \in DOMAIN stack /\ stack'[i] = stack[i - Len(cs)]
      <4>1. i - Len(cs) < j - Len(cs)
        BY <2>5, <3>1
      <4> QED BY <1>2, <3>4, <4>1 DEF StackAside
    <3> QED BY <2>5, <3>1, <3>2, <3>3, <3>4
  <2>9. FoundAhead'
    <3>1. SUFFICES ASSUME NEW i \in DOMAIN found, NEW j \in DOMAIN stack', Shown(found[i])
                   PROVE  Before(found[i].name, stack'[j].name)
      BY <1>6 DEF FoundAhead
    <3>2. CASE j \in DOMAIN cs /\ stack'[j] = cs[j]
      <4>1. PICK c \in Nat : cs[j].name = Append(here.name, c)
        BY <2>3, <3>2
      <4>2. Before(found[i].name, here.name) \/ found[i].name = here.name
        BY <1>1, <1>2, <3>1 DEF HereAside
      <4>3. found[i].name \in Paths
        <5>1. found[i] \in Items
          BY <1>1, <3>1
        <5> QED BY <5>1 DEF Items
      <4> QED BY <1>1, <3>2, <4>1, <4>2, <4>3, ChildAfter
    <3>3. CASE j - Len(cs) \in DOMAIN stack /\ stack'[j] = stack[j - Len(cs)]
      BY <1>2, <3>1, <3>3 DEF FoundAhead
    <3> QED BY <2>5, <3>2, <3>3
  <2>10. Following(found)'
    BY <1>2, <1>6
  <2>11. Fresh'
    BY <1>2, <1>5, <1>6 DEF Fresh
  <2> QED BY <1>1, <1>3, <1>4, <2>7, <2>8, <2>9, <2>10, <2>11 DEF OrderInv, WalkOrder, PlanInOrder, RootsClaimed
<1>7. CASE stack' = stack /\ found' = Append(found, Skipped(here.name))
  <2>1. /\ \A i \in DOMAIN found' : Shown(found'[i]) => i \in DOMAIN found /\ found'[i] = found[i]
        /\ FoundAhead' /\ Following(found)'
    BY <1>2, <1>7, OrderSkip
  <2>2. AllOwn' /\ StackAside'
    BY <1>1, <1>2, <1>7, <2>1 DEF AllOwn, StackAside, Own
  <2>3. found' # <<>> /\ found'[1] = found[1]
    <3>1. found # <<>>
      BY <1>2 DEF Fresh
    <3> DEFINE e == Skipped(here.name)
    <3> HIDE DEF e
    <3>2. Append(found, e) # <<>> /\ Append(found, e)[1] = found[1]
      BY <1>1, <3>1
    <3> QED BY <1>7, <3>2 DEF e
  <2>4. Fresh'
    BY <1>2, <1>5, <2>3 DEF Fresh
  <2> QED BY <1>1, <1>3, <1>4, <2>1, <2>2, <2>4 DEF OrderInv, WalkOrder, PlanInOrder, RootsClaimed
<1> QED BY <1>1, <1>6, <1>7

(* A walk that an item, if shown after all that was found and before what is *)
(* to be visited, is added to.                                              *)
LEMMA OrderAdd ==
  ASSUME PackTypeOK, NEW e \in Items, found' = Append(found, e), Following(found), FoundAhead,
         Shown(e) => /\ \A i \in DOMAIN found : Shown(found[i]) => Before(found[i].name, e.name)
                     /\ \A j \in DOMAIN stack' : Before(e.name, stack'[j].name),
         \A j \in DOMAIN stack' : \E k \in DOMAIN stack : stack'[j] = stack[k]
  PROVE  /\ Following(found)' /\ FoundAhead'
         /\ \A i \in DOMAIN found' : Shown(found'[i]) => (i \in DOMAIN found /\ found'[i] = found[i]) \/ found'[i] = e
<1>1. /\ Len(found) \in Nat /\ DOMAIN found = 1 .. Len(found) /\ DOMAIN found' = 1 .. Len(found) + 1
      /\ found'[Len(found) + 1] = e /\ \A i \in 1 .. Len(found) : found'[i] = found[i]
  BY DEF PackTypeOK
<1>2. Following(found)'
  <2>1. SUFFICES ASSUME NEW i \in DOMAIN found', NEW j \in DOMAIN found', i < j, Shown(found'[i]), Shown(found'[j])
                 PROVE  Before(found'[i].name, found'[j].name)
    BY DEF Following
  <2>2. i \in DOMAIN found /\ found'[i] = found[i]
    BY <1>1, <2>1
  <2>3. CASE j \in DOMAIN found
    BY <1>1, <2>1, <2>2, <2>3 DEF Following
  <2>4. CASE j = Len(found) + 1
    BY <1>1, <2>1, <2>2, <2>4
  <2> QED BY <1>1, <2>3, <2>4
<1>3. FoundAhead'
  <2>1. SUFFICES ASSUME NEW i \in DOMAIN found', NEW j \in DOMAIN stack', Shown(found'[i])
                 PROVE  Before(found'[i].name, stack'[j].name)
    BY DEF FoundAhead
  <2>2. CASE i \in DOMAIN found
    BY <1>1, <2>1, <2>2 DEF FoundAhead
  <2>3. CASE i = Len(found) + 1
    BY <1>1, <2>1, <2>3
  <2> QED BY <1>1, <2>2, <2>3
<1> QED BY <1>1, <1>2, <1>3

LEMMA OrderVisit == ASSUME PackTypeOK, OrderInv, Visit PROVE OrderInv'
<1> DEFINE child == Head(stack)
           e == item_for(child.name, child.at, Spot(child.at))
<1>1. /\ stage = "walking" /\ stack # <<>> /\ here' = child /\ stack' = Tail(stack) /\ plan' = plan
      /\ stack \in Seq(Spots) /\ found \in Seq(Items)
      /\ \/ found' = Append(found, Skipped(child.name)) /\ stage' = "walking"
         \/ found' = found /\ stage' = "linking"
         \/ /\ found' = Append(found, e) /\ Spot(child.at) \in DOMAIN tree
            /\ stage' = IF Is(Spot(child.at), "dir") THEN "listing" ELSE "walking"
  <2>1. Spot(child.at) # Nowhere => Spot(child.at) \in DOMAIN tree
    BY DEF Spot
  <2>2. /\ stage = "walking" /\ stack # <<>> /\ here' = child /\ stack' = Tail(stack) /\ plan' = plan
        /\ \/ found' = Append(found, Skipped(child.name)) /\ stage' = stage
           \/ found' = found /\ stage' = "linking"
           \/ /\ found' = Append(found, e) /\ Spot(child.at) # Nowhere
              /\ stage' = IF Is(Spot(child.at), "dir") THEN "listing" ELSE "walking"
    BY DEF Visit, planning
  <2> HIDE DEF child, e
  <2> QED BY <2>1, <2>2 DEF PackTypeOK
<1>2. AllOwn /\ StackAside /\ FoundAhead /\ Following(found) /\ Fresh
  BY <1>1 DEF OrderInv, WalkOrder, OnWalk, Going
<1>3. found # <<>> /\ found[1].kind = "dir"
  BY <1>1, <1>2 DEF Fresh
<1>4. Claimed' = Claimed
  BY <1>1 DEF Claimed
<1>5. /\ child = stack[1] /\ 1 \in DOMAIN stack /\ child \in Spots
      /\ \A i \in DOMAIN stack' : i + 1 \in DOMAIN stack /\ stack'[i] = stack[i + 1] /\ 1 < i + 1 /\ i \in Nat
  <2>1. stack \in Seq(Spots) /\ stack # <<>> /\ stack' = Tail(stack) /\ child = Head(stack)
    BY <1>1
  <2>2. Len(stack) \in Nat /\ Len(stack) >= 1 /\ DOMAIN stack = 1 .. Len(stack)
    BY <2>1
  <2>3. DOMAIN stack' = 1 .. Len(stack) - 1 /\ \A i \in 1 .. Len(stack) - 1 : stack'[i] = stack[i + 1]
    BY <2>1, <2>2
  <2>4. child = stack[1] /\ child \in Spots
    BY <2>1, <2>2
  <2> QED BY <2>2, <2>3, <2>4
<1>6. child.name \in Paths /\ child.at \in Paths
  BY <1>5 DEF Spots
<1>7. /\ Shown(e) => e.name = child.name
      /\ Spot(child.at) \in DOMAIN tree => e \in Items
      /\ Is(Spot(child.at), "dir") => Shown(e)
  BY <1>6, ItemShown, ItemIs DEF Shown
<1> HIDE DEF child, e
<1>8. /\ \A j \in DOMAIN stack' : Aside(child.name, stack'[j].name)
      /\ \A i, j \in DOMAIN stack' : i < j => Aside(stack'[i].name, stack'[j].name)
  <2>1. \A j \in DOMAIN stack' : Aside(child.name, stack'[j].name)
    BY <1>2, <1>5 DEF StackAside
  <2>2. ASSUME NEW i \in DOMAIN stack', NEW j \in DOMAIN stack', i < j PROVE Aside(stack'[i].name, stack'[j].name)
    <3>1. i + 1 < j + 1
      BY <1>5, <2>2
    <3> QED BY <1>2, <1>5, <2>2, <3>1 DEF StackAside
  <2> QED BY <2>1, <2>2
<1>9. \A i \in DOMAIN found : Shown(found[i]) => Before(found[i].name, child.name)
  BY <1>2, <1>5 DEF FoundAhead
<1>10. StackAside'
  BY <1>8 DEF StackAside
<1>11. Own(child.name) /\ Head(child.name) = Head(here.name)
  BY <1>2, <1>5 DEF AllOwn, Own
<1>12. \A j \in DOMAIN stack' : \E k \in DOMAIN stack : stack'[j] = stack[k]
  BY <1>5
<1>13. \A new \in Items : Append(found, new) # <<>> /\ Append(found, new)[1] = found[1]
  <2>1. found \in Seq(Items) /\ found # <<>>
    BY <1>1, <1>3
  <2> QED BY <2>1
<1>14. CASE found' = Append(found, Skipped(child.name)) /\ stage' = "walking"
  <2>1. Skipped(child.name) \in Items /\ ~ Shown(Skipped(child.name))
    BY <1>6, RenderedIs, ItemShown
  <2>2. /\ Following(found)' /\ FoundAhead'
        /\ \A i \in DOMAIN found' : Shown(found'[i]) =>
             (i \in DOMAIN found /\ found'[i] = found[i]) \/ found'[i] = Skipped(child.name)
    BY <1>2, <1>12, <1>14, <2>1, OrderAdd
  <2>3. AllOwn'
    BY <1>1, <1>2, <1>5, <1>11, <1>14, <2>1, <2>2 DEF AllOwn, Own
  <2>4. Fresh'
    BY <1>2, <1>3, <1>13, <1>14, <2>1 DEF Fresh
  <2>5. HereAside'
    BY <1>14 DEF HereAside
  <2> QED BY <1>1, <1>4, <1>10, <2>2, <2>3, <2>4, <2>5 DEF OrderInv, WalkOrder, PlanInOrder, RootsClaimed
<1>15. CASE found' = found /\ stage' = "linking"
  <2>1. Following(found)' /\ FoundAhead'
    BY <1>2, <1>12, <1>15 DEF Following, FoundAhead
  <2>2. AllOwn'
    BY <1>1, <1>2, <1>5, <1>11, <1>15 DEF AllOwn, Own
  <2>3. Fresh'
    BY <1>2, <1>3, <1>15 DEF Fresh
  <2>4. HereAside'
    BY <1>1, <1>8, <1>9, <1>15 DEF HereAside
  <2> QED BY <1>1, <1>4, <1>10, <2>1, <2>2, <2>3, <2>4 DEF OrderInv, WalkOrder, PlanInOrder, RootsClaimed
<1>16. CASE /\ found' = Append(found, e) /\ Spot(child.at) \in DOMAIN tree
            /\ stage' = IF Is(Spot(child.at), "dir") THEN "listing" ELSE "walking"
  <2>1. e \in Items
    BY <1>7, <1>16
  <2>2. Shown(e) => /\ \A i \in DOMAIN found : Shown(found[i]) => Before(found[i].name, e.name)
                    /\ \A j \in DOMAIN stack' : Before(e.name, stack'[j].name)
    BY <1>7, <1>8, <1>9, BeforeIs
  <2>3. /\ Following(found)' /\ FoundAhead'
        /\ \A i \in DOMAIN found' : Shown(found'[i]) => (i \in DOMAIN found /\ found'[i] = found[i]) \/ found'[i] = e
    BY <1>2, <1>12, <1>16, <2>1, <2>2, OrderAdd
  <2>4. AllOwn'
    BY <1>1, <1>2, <1>5, <1>7, <1>11, <1>16, <2>3 DEF AllOwn, Own
  <2>5. Fresh'
    BY <1>2, <1>3, <1>13, <1>16, <2>1 DEF Fresh
  <2>6. HereAside'
    BY <1>1, <1>7, <1>8, <1>9, <1>16, <2>3 DEF HereAside
  <2> QED BY <1>1, <1>4, <1>10, <2>3, <2>4, <2>5, <2>6 DEF OrderInv, WalkOrder, PlanInOrder, RootsClaimed
<1> QED BY <1>1, <1>14, <1>15, <1>16

LEMMA OrderReadLink == ASSUME PackTypeOK, OrderInv, ReadLink PROVE OrderInv'
<1>1. /\ stage = "linking" /\ stage' = "walking" /\ here' = here /\ stack' = stack /\ plan' = plan
      /\ \/ found' = Append(found, Skipped(here.name))
         \/ found' = Append(found, LinkItem) /\ Is(Spot(here.at), "link")
      /\ here.name \in Paths /\ here.at \in Paths /\ found \in Seq(Items)
  BY DEF ReadLink, PackTypeOK, planning, LinkItem
<1>2. AllOwn /\ StackAside /\ HereAside /\ FoundAhead /\ Following(found) /\ Fresh
  BY <1>1 DEF OrderInv, WalkOrder, OnWalk, Going
<1>3. found # <<>> /\ found[1].kind = "dir"
  BY <1>1, <1>2 DEF Fresh
<1>4. Claimed' = Claimed
  BY <1>1 DEF Claimed
<1>5. Skipped(here.name) \in Items /\ ~ Shown(Skipped(here.name))
  BY <1>1, RenderedIs, ItemShown
<1>6. Is(Spot(here.at), "link") => LinkItem \in Items /\ LinkItem.name = here.name
  <2>1. Is(Spot(here.at), "link") => tree[Spot(here.at)].to \in Paths
    BY WorldIs DEF Is
  <2> QED BY <1>1, <2>1 DEF LinkItem, Item, Items, NoInode
<1>7. PICK e \in Items : found' = Append(found, e) /\ (Shown(e) => e.name = here.name)
  BY <1>1, <1>5, <1>6
<1>8. \A j \in DOMAIN stack' : \E k \in DOMAIN stack : stack'[j] = stack[k]
  BY <1>1
<1>9. Shown(e) => /\ \A i \in DOMAIN found : Shown(found[i]) => Before(found[i].name, e.name)
                  /\ \A j \in DOMAIN stack' : Before(e.name, stack'[j].name)
  BY <1>1, <1>2, <1>7, BeforeIs DEF HereAside
<1>10. /\ Following(found)' /\ FoundAhead'
       /\ \A i \in DOMAIN found' : Shown(found'[i]) => (i \in DOMAIN found /\ found'[i] = found[i]) \/ found'[i] = e
  BY <1>2, <1>7, <1>8, <1>9, OrderAdd
<1>11. AllOwn' /\ StackAside' /\ HereAside'
  BY <1>1, <1>2, <1>7, <1>10 DEF AllOwn, Own, StackAside, HereAside
<1>12. Fresh'
  <2>1. Append(found, e) # <<>> /\ Append(found, e)[1] = found[1]
    BY <1>1, <1>3
  <2> QED BY <1>2, <1>3, <1>7, <2>1 DEF Fresh
<1> QED BY <1>1, <1>4, <1>10, <1>11, <1>12 DEF OrderInv, WalkOrder, PlanInOrder, RootsClaimed

LEMMA ClaimedAppend ==
  ASSUME PackTypeOK, NEW e \in Items, plan' = Append(plan, e)
  PROVE  /\ Len(plan) \in Nat /\ DOMAIN plan = 1 .. Len(plan) /\ DOMAIN plan' = 1 .. Len(plan) + 1
         /\ plan'[Len(plan) + 1] = e /\ \A i \in DOMAIN plan : plan'[i] = plan[i]
         /\ Claimed' = IF Shown(e) THEN Claimed \cup {e.name} ELSE Claimed
<1>1. /\ Len(plan) \in Nat /\ DOMAIN plan = 1 .. Len(plan) /\ DOMAIN plan' = 1 .. Len(plan) + 1
      /\ plan'[Len(plan) + 1] = e /\ \A i \in DOMAIN plan : plan'[i] = plan[i]
  BY DEF PackTypeOK
<1>2. ASSUME NEW n PROVE n \in Claimed' <=> n \in Claimed \/ (Shown(e) /\ n = e.name)
  <2>1. n \in Claimed <=> \E k \in DOMAIN plan : Shown(plan[k]) /\ n = plan[k].name
    BY DEF Claimed, Shown
  <2>2. n \in Claimed' <=> \E k \in DOMAIN plan' : Shown(plan'[k]) /\ n = plan'[k].name
    BY DEF Claimed, Shown
  <2>3. Len(plan) + 1 \in DOMAIN plan' /\ \A k \in DOMAIN plan : k \in DOMAIN plan'
    BY <1>1
  <2>4. \A k \in DOMAIN plan' : k \in DOMAIN plan \/ k = Len(plan) + 1
    BY <1>1
  <2> QED BY <1>1, <2>1, <2>2, <2>3, <2>4
<1> QED BY <1>1, <1>2

LEMMA OneLong ==
  ASSUME NEW n \in Paths, Len(n) = 1 PROVE n = <<Head(n)>>
<1>1. n \in Seq(Nat)
  BY DEF Paths
<1> QED BY <1>1

LEMMA OrderSift == ASSUME PackTypeOK, OrderInv, Sift PROVE OrderInv' /\ (stage' = "refused" \/ Going')
<1> DEFINE item == Head(found)
<1>1. /\ stage = "walking" /\ stack = <<>> /\ found # <<>> /\ found' = Tail(found)
      /\ here' = here /\ stack' = <<>> /\ found \in Seq(Items) /\ here.name \in Paths
  BY DEF Sift, PackTypeOK
<1>2. \/ item.kind = "file" /\ plan' = plan /\ stage' = stage
      \/ /\ ~ Shown(item) \/ item.name \notin Claimed
         /\ plan' = Append(plan, item) /\ stage' = stage
      \/ plan' = plan /\ stage' = "refused"
  BY DEF Sift, is_output_file, Shown
<1>3. AllOwn /\ Following(found) /\ (Fresh \/ Going)
  BY <1>1 DEF OrderInv, WalkOrder, OnWalk
<1>4. /\ item = found[1] /\ item \in Items /\ 1 \in DOMAIN found
      /\ \A i \in DOMAIN found' : i \in Nat /\ i + 1 \in DOMAIN found /\ found'[i] = found[i + 1] /\ 1 < i + 1
      /\ Len(found) = 1 => DOMAIN found' = {}
  <2>1. Len(found) \in Nat /\ Len(found) >= 1 /\ DOMAIN found = 1 .. Len(found)
    BY <1>1
  <2>2. DOMAIN found' = 1 .. Len(found) - 1 /\ \A i \in 1 .. Len(found) - 1 : found'[i] = found[i + 1]
    BY <1>1, <2>1
  <2>3. item = found[1] /\ item \in Items
    BY <1>1, <2>1
  <2> QED BY <2>1, <2>2, <2>3
<1> HIDE DEF item
<1>5. item.name \in Paths
  BY <1>4 DEF Items
<1>6. Following(found)'
  <2>1. SUFFICES ASSUME NEW i \in DOMAIN found', NEW j \in DOMAIN found', i < j, Shown(found'[i]), Shown(found'[j])
                 PROVE  Before(found'[i].name, found'[j].name)
    BY DEF Following
  <2>2. i + 1 < j + 1
    BY <1>4, <2>1
  <2> QED BY <1>3, <1>4, <2>1, <2>2 DEF Following
<1>7. AllOwn' \/ stage' = "refused"
  BY <1>1, <1>2, <1>3, <1>4 DEF AllOwn, Own
<1>8. StackAside' /\ FoundAhead'
  <2>1. DOMAIN <<>> = {}
    OBVIOUS
  <2> QED BY <1>1, <2>1 DEF StackAside, FoundAhead
<1>9. stage' # "refused" => HereAside'
  BY <1>1, <1>2 DEF HereAside
<1>10. CASE item.kind = "file" /\ plan' = plan /\ stage' = stage
  <2>1. Claimed' = Claimed
    BY <1>10 DEF Claimed
  <2>2. Going'
    <3>1. CASE Fresh
      <4>1. Len(found) = 1
        BY <1>4, <1>10, <3>1 DEF Fresh
      <4> QED BY <1>1, <1>4, <1>10, <4>1 DEF Going
    <3>2. CASE Going
      BY <1>1, <1>4, <1>10, <2>1, <3>2 DEF Going
    <3> QED BY <1>3, <3>1, <3>2
  <2> QED BY <1>1, <1>6, <1>7, <1>8, <1>9, <1>10, <2>1, <2>2 DEF OrderInv, WalkOrder, PlanInOrder, RootsClaimed
<1>11. CASE ~ Shown(item) /\ plan' = Append(plan, item) /\ stage' = stage
  <2>1. /\ Claimed' = Claimed
        /\ \A i \in DOMAIN plan' : Shown(plan'[i]) => i \in DOMAIN plan /\ plan'[i] = plan[i]
    <3>1. /\ DOMAIN plan = 1 .. Len(plan) /\ DOMAIN plan' = 1 .. Len(plan) + 1 /\ Len(plan) \in Nat
          /\ plan'[Len(plan) + 1] = item /\ \A i \in DOMAIN plan : plan'[i] = plan[i]
          /\ Claimed' = IF Shown(item) THEN Claimed \cup {item.name} ELSE Claimed
      BY <1>4, <1>11, ClaimedAppend
    <3> QED BY <1>11, <3>1
  <2>2. Going'
    <3>1. CASE Fresh
      <4>1. Len(found) = 1
        BY <1>4, <1>11, <3>1 DEF Fresh, Shown
      <4> QED BY <1>1, <1>4, <1>11, <4>1 DEF Going
    <3>2. CASE Going
      <4>1. \A j \in DOMAIN found : Shown(found[j]) =>
              /\ <<Head(here.name)>> \in Claimed
              /\ \A i \in DOMAIN plan :
                   Shown(plan[i]) /\ Head(plan[i].name) = Head(here.name) => Before(plan[i].name, found[j].name)
        BY <3>2 DEF Going
      <4>2. ASSUME NEW j \in DOMAIN found', Shown(found'[j])
            PROVE  /\ <<Head(here.name)>> \in Claimed
                   /\ \A i \in DOMAIN plan' :
                        Shown(plan'[i]) /\ Head(plan'[i].name) = Head(here.name) => Before(plan'[i].name, found'[j].name)
        BY <1>4, <2>1, <4>1, <4>2
      <4> QED BY <1>1, <1>11, <2>1, <4>2 DEF Going
    <3> QED BY <1>3, <3>1, <3>2
  <2>3. PlanInOrder' /\ RootsClaimed'
    BY <2>1 DEF OrderInv, PlanInOrder, RootsClaimed
  <2> QED BY <1>1, <1>6, <1>7, <1>8, <1>9, <1>11, <2>1, <2>2, <2>3 DEF OrderInv, WalkOrder
<1>12. CASE Shown(item) /\ item.name \notin Claimed /\ plan' = Append(plan, item) /\ stage' = stage
  <2>1. /\ DOMAIN plan = 1 .. Len(plan) /\ DOMAIN plan' = 1 .. Len(plan) + 1 /\ Len(plan) \in Nat
        /\ plan'[Len(plan) + 1] = item /\ \A i \in DOMAIN plan : plan'[i] = plan[i]
        /\ Claimed' = Claimed \cup {item.name}
    BY <1>4, <1>12, ClaimedAppend
  <2>2. item.name # <<>> /\ Head(item.name) = Head(here.name)
    BY <1>3, <1>4, <1>12 DEF AllOwn, Own
  <2>3. \A i \in DOMAIN plan' : (i \in DOMAIN plan /\ plan'[i] = plan[i]) \/ (i = Len(plan) + 1 /\ plan'[i] = item)
    BY <2>1
  <2>4. /\ <<Head(here.name)>> \in Claimed'
        /\ \A i \in DOMAIN plan : Shown(plan[i]) /\ Head(plan[i].name) = Head(here.name) =>
             /\ Before(plan[i].name, item.name)
             /\ \A j \in DOMAIN found' : Shown(found'[j]) => Before(plan[i].name, found'[j].name)
    <3>1. CASE Fresh
      <4>1. item.name = <<Head(here.name)>>
        <5>1. Len(item.name) = 1
          BY <1>4, <1>12, <3>1 DEF Fresh
        <5> QED BY <1>5, <2>2, <5>1, OneLong
      <4>2. \A i \in DOMAIN plan : Shown(plan[i]) => Head(plan[i].name) # Head(here.name)
        BY <1>12, <4>1 DEF OrderInv, RootsClaimed
      <4> QED BY <2>1, <4>1, <4>2
    <3>2. CASE Going
      BY <1>4, <1>12, <2>1, <3>2 DEF Going
    <3> QED BY <1>3, <3>1, <3>2
  <2>5. PlanInOrder'
    <3>1. SUFFICES ASSUME NEW i \in DOMAIN plan', NEW j \in DOMAIN plan', i < j, Shown(plan'[i]), Shown(plan'[j]),
                          Head(plan'[i].name) = Head(plan'[j].name)
                   PROVE  Before(plan'[i].name, plan'[j].name)
      BY DEF PlanInOrder
    <3>2. i \in DOMAIN plan /\ plan'[i] = plan[i]
      BY <2>1, <2>3, <3>1
    <3>3. CASE j \in DOMAIN plan /\ plan'[j] = plan[j]
      BY <3>1, <3>2, <3>3 DEF OrderInv, PlanInOrder
    <3>4. CASE j = Len(plan) + 1 /\ plan'[j] = item
      BY <2>2, <2>4, <3>1, <3>2, <3>4
    <3> QED BY <2>3, <3>3, <3>4
  <2>6. RootsClaimed'
    BY <2>1, <2>2, <2>3, <2>4 DEF OrderInv, RootsClaimed
  <2>7. Going'
    <3>1. ASSUME NEW j \in DOMAIN found', Shown(found'[j]), NEW i \in DOMAIN plan', Shown(plan'[i]),
                 Head(plan'[i].name) = Head(here.name)
          PROVE  Before(plan'[i].name, found'[j].name)
      <4>1. CASE i \in DOMAIN plan /\ plan'[i] = plan[i]
        BY <2>4, <3>1, <4>1
      <4>2. CASE plan'[i] = item
        <5>1. j + 1 \in DOMAIN found /\ found'[j] = found[j + 1] /\ 1 < j + 1
          BY <1>4
        <5> QED BY <1>3, <1>4, <1>12, <3>1, <4>2, <5>1 DEF Following
      <4> QED BY <2>3, <4>1, <4>2
    <3> QED BY <1>1, <1>12, <2>4, <3>1 DEF Going
  <2> QED BY <1>1, <1>6, <1>7, <1>8, <1>9, <1>12, <2>5, <2>6, <2>7 DEF OrderInv, WalkOrder
<1>13. CASE plan' = plan /\ stage' = "refused"
  BY <1>13, OrderOff DEF OnWalk
<1> QED BY <1>2, <1>10, <1>11, <1>12, <1>13

LEMMA OrderStep == ASSUME PackTypeOK, OrderInv, [PackNext]_packVars PROVE OrderInv'
<1>1. ASSUME Create \/ Record \/ Open \/ Read \/ Stored \/ Finish PROVE OrderInv'
  <2>1. plan' = plan /\ ~ OnWalk'
    BY <1>1 DEF Create, Record, Open, Read, Stored, Finish, planning, OnWalk
  <2> QED BY <2>1, OrderOff
<1>2. ASSUME Changed \/ UNCHANGED packVars PROVE OrderInv'
  <2>1. plan' = plan /\ stage' = stage /\ here' = here /\ found' = found /\ stack' = stack
    BY <1>2 DEF Changed, packVars, walking, planning
  <2> QED BY <2>1, OrderStill
<1> QED BY <1>1, <1>2, OrderName, OrderRoot, OrderList, OrderVisit, OrderReadLink, OrderSift, OrderNextPath
        DEF PackNext

-------------------------------------------------------------------------------
(* What is stored comes from the part of the plan gone through.              *)
FromPlan ==
  \A j \in DOMAIN stored : \E i \in DOMAIN plan :
    i <= turn /\ Shown(plan[i]) /\ plan[i].name = stored[j].name
StoredInv == stage \in Late => FromPlan /\ InOrder

LEMMA StoredInit == ASSUME PackInit PROVE StoredInv
BY DEF PackInit, StoredInv, Late

LEMMA StoreOne ==
  ASSUME PackTypeOK, PlanInOrder, FromPlan, InOrder, NEW e \in Entries, turn < Len(plan), Shown(AtHand),
         e.name = AtHand.name, stored' = Append(stored, e), plan' = plan, turn' = turn + 1
  PROVE  FromPlan' /\ InOrder'
<1>1. /\ Len(stored) \in Nat /\ DOMAIN stored = 1 .. Len(stored) /\ DOMAIN stored' = 1 .. Len(stored) + 1
      /\ stored'[Len(stored) + 1] = e /\ \A j \in DOMAIN stored : stored'[j] = stored[j]
  <2>1. stored \in Seq(Entries)
    BY DEF PackTypeOK
  <2> QED BY <2>1
<1>2. turn + 1 \in DOMAIN plan /\ turn \in Nat /\ AtHand = plan[turn + 1] /\ DOMAIN plan \subseteq Nat
  <2>1. plan \in Seq(Items) /\ turn \in Nat
    BY DEF PackTypeOK
  <2>2. DOMAIN plan = 1 .. Len(plan) /\ Len(plan) \in Nat
    BY <2>1
  <2> QED BY <2>1, <2>2 DEF AtHand
<1>3. FromPlan'
  <2>1. SUFFICES ASSUME NEW j \in DOMAIN stored'
                 PROVE  \E i \in DOMAIN plan : i <= turn + 1 /\ Shown(plan[i]) /\ plan[i].name = stored'[j].name
    BY DEF FromPlan
  <2>2. CASE j \in DOMAIN stored
    <3>1. PICK i \in DOMAIN plan : i <= turn /\ Shown(plan[i]) /\ plan[i].name = stored[j].name
      BY <2>2 DEF FromPlan
    <3>2. i <= turn + 1
      BY <1>2, <3>1
    <3> QED BY <1>1, <2>2, <3>1, <3>2
  <2>3. CASE j = Len(stored) + 1
    BY <1>1, <1>2, <2>3
  <2> QED BY <1>1, <2>2, <2>3
<1>4. InOrder'
  <2>1. SUFFICES ASSUME NEW j \in DOMAIN stored', NEW k \in DOMAIN stored', j < k,
                        Head(stored'[j].name) = Head(stored'[k].name)
                 PROVE  Before(stored'[j].name, stored'[k].name)
    BY DEF InOrder
  <2>2. j \in DOMAIN stored /\ stored'[j] = stored[j]
    BY <1>1, <2>1
  <2>3. CASE k \in DOMAIN stored
    BY <1>1, <2>1, <2>2, <2>3 DEF InOrder
  <2>4. CASE k = Len(stored) + 1
    <3>1. PICK i \in DOMAIN plan : i <= turn /\ Shown(plan[i]) /\ plan[i].name = stored[j].name
      BY <2>2 DEF FromPlan
    <3>2. i < turn + 1
      BY <1>2, <3>1
    <3> QED BY <1>1, <1>2, <2>1, <2>2, <2>4, <3>1, <3>2 DEF PlanInOrder
  <2> QED BY <1>1, <2>3, <2>4
<1> QED BY <1>3, <1>4

LEMMA StoredStep ==
  ASSUME PackTypeOK, OrderInv, NothingYet, StoredInv, [PackNext]_packVars PROVE StoredInv'
<1>1. CASE Early
  BY <1>1, EarlySteps DEF StoredInv
<1>2. CASE Create
  <2>1. stored = <<>> /\ stored' = stored /\ DOMAIN <<>> = {}
    BY <1>2 DEF NothingYet, Create, Late, writing
  <2> QED BY <2>1 DEF StoredInv, FromPlan, InOrder
<1>3. ASSUME stage \in Late, stored' = stored, plan' = plan, turn' = turn \/ turn' = turn + 1 PROVE StoredInv'
  <2>1. \A i \in DOMAIN plan : i <= turn => i <= turn'
    BY <1>3 DEF PackTypeOK
  <2> QED BY <1>3, <2>1 DEF StoredInv, FromPlan, InOrder
<1>4. CASE Record
  <2> DEFINE e == Entry(AtHand.name, AtHand.kind, AtHand.to)
  <2>1. /\ stage = "writing" /\ plan' = plan /\ turn' = turn + 1 /\ turn < Len(plan) /\ AtHand.kind # "file"
        /\ \/ stored' = stored
           \/ Shown(AtHand) /\ stored' = Append(stored, e)
    BY <1>4 DEF Record, planning, Shown
  <2>2. Shown(AtHand) => e \in Entries
    BY <2>1, AtHandIs DEF Entry, Entries, Paths, Shown
  <2>3. e.name = AtHand.name
    BY DEF Entry
  <2> HIDE DEF e
  <2>4. FromPlan /\ InOrder /\ PlanInOrder
    BY <2>1 DEF StoredInv, Late, OrderInv
  <2> QED BY <1>3, <2>1, <2>2, <2>3, <2>4, StoreOne DEF StoredInv, Late
<1>5. CASE Stored
  <2> DEFINE e == Entry(AtHand.name, "file", reader.content)
  <2>1. /\ stage = "payload" /\ plan' = plan /\ turn' = turn + 1 /\ turn < Len(plan) /\ reader \in Readers
        /\ stored' = Append(stored, e)
    BY <1>5 DEF Stored, planning, PackTypeOK
  <2>2. e \in Entries /\ e.name = AtHand.name
    BY <2>1, AtHandIs DEF Entry, Entries, Readers
  <2> HIDE DEF e
  <2>3. FromPlan /\ InOrder /\ PlanInOrder
    BY <2>1 DEF StoredInv, Late, OrderInv
  <2>4. Shown(AtHand)
    <3>1. AtHand.kind = "file"
      BY <2>1 DEF PackTypeOK
    <3> QED BY <3>1 DEF Shown
  <2> QED BY <2>1, <2>2, <2>3, <2>4, StoreOne DEF StoredInv, Late
<1>6. CASE Open \/ Read \/ Finish
  <2>1. stage \in Late /\ stored' = stored /\ plan' = plan /\ (turn' = turn \/ turn' = turn + 1)
    BY <1>6 DEF Open, Read, Finish, Late, planning
  <2> QED BY <1>3, <2>1
<1>7. CASE Changed \/ UNCHANGED packVars
  <2>1. stage' = stage /\ stored' = stored /\ plan' = plan /\ turn' = turn
    BY <1>7 DEF Changed, packVars, planning, writing
  <2> QED BY <2>1 DEF StoredInv, FromPlan, InOrder
<1> QED BY <1>1, <1>2, <1>4, <1>5, <1>6, <1>7, StepIs

-------------------------------------------------------------------------------
(* Why an undisturbed run is refused.                                       *)

LEMMA SameTree ==
  ASSUME tree' = tree, asked' = asked
  PROVE  /\ \A p : Canonical(p)' = Canonical(p)
         /\ \A p : entry_name_for(p)' = entry_name_for(p)
         /\ \A q, kind : Is(q, kind)' = Is(q, kind)
         /\ Opens(asked.dst)' = Opens(asked.dst)
<1>1. \A p : Canonical(p)' = Canonical(p)
  BY CanonicalByTree
<1>2. \A q, kind : Is(q, kind)' = Is(q, kind)
  BY DEF Is
<1>3. \A p : entry_name_for(p)' = entry_name_for(p)
  BY <1>1 DEF entry_name_for
<1>4. \A q : Searchable(q)' = Searchable(q)
  BY <1>2 DEF Searchable
<1>5. Canonical(Front(asked.dst))' = Canonical(Front(asked.dst))
  BY <1>1
<1>6. Spot(asked.dst)' = Spot(asked.dst)
  BY <1>4, <1>5 DEF Spot, Searchable, Is
<1> QED BY <1>1, <1>2, <1>3, <1>4, <1>5, <1>6 DEF Opens, Searchable, Is

Known(j, name) == entry_name_for(asked.paths[j]) = <<Head(name)>>

(* The names planned are those of the paths walked, this one's once its root *)
(* is planned.                                                              *)
HeadsKnown ==
  \A i \in DOMAIN plan : Shown(plan[i]) =>
    \E j \in DOMAIN asked.paths :
      (j <= turn \/ (j = turn + 1 /\ OnWalk /\ Going)) /\ Known(j, plan[i].name)
HereKnown ==
  /\ stage = "root" =>
       here.at = AtTurn.at /\ (Is(Canonical(here.at), "dir") \/ Is(Canonical(here.at), "file"))
  /\ OnWalk => Known(turn + 1, here.name)
RootSeen ==
  turn >= 1 \/ stage \in {"listing", "walking", "linking"} =>
    excluded \/ \E item \in Carried : Shown(item)
Undisturbed == stage \notin Late \cup {"refused"} => HeadsKnown /\ HereKnown /\ RootSeen
RefusedWell == stage = "refused" => Refusable
RefusedInv == changes = {} => Undisturbed /\ RefusedWell

LEMMA RefusableSame ==
  ASSUME Refusable, tree' = tree, asked' = asked, excluded => excluded'
  PROVE  Refusable'
BY SameTree DEF Refusable, Is

LEMMA RefusedInit == ASSUME PackInit PROVE RefusedInv
<1>1. DOMAIN <<>> = {}
  OBVIOUS
<1> QED BY <1>1 DEF PackInit, RefusedInv, Undisturbed, RefusedWell, HeadsKnown, HereKnown, RootSeen, OnWalk

LEMMA RefusedName == ASSUME PackTypeOK, changes = {}, RefusedInv, Name PROVE RefusedInv'
<1>1. /\ tree' = tree /\ asked' = asked /\ plan' = plan /\ turn' = turn /\ excluded' = excluded
      /\ found' = found /\ stage = "naming" /\ here'.at = AtTurn.at /\ here'.name = entry_name_for(AtTurn)
      /\ turn + 1 \in DOMAIN asked.paths /\ turn \in Nat /\ AtTurn = asked.paths[turn + 1]
  <2>1. asked.paths \in Seq({p \in [at : Paths, dotted : BOOLEAN] : Named(p)}) /\ turn \in Nat
        /\ turn < Len(asked.paths)
    BY DEF PackTypeOK, Asks, Name
  <2>2. turn + 1 \in DOMAIN asked.paths
    BY <2>1
  <2> QED BY <2>1, <2>2 DEF Name, world, planning, AtTurn
<1>2. HeadsKnown /\ RootSeen
  BY <1>1 DEF RefusedInv, Undisturbed, Late
<1>3. CASE stage' = "root"
  <2>1. /\ entry_name_for(AtTurn) # Nowhere
        /\ Is(Canonical(AtTurn.at), "dir") \/ Is(Canonical(AtTurn.at), "file")
    BY <1>1, <1>3 DEF Name
  <2>2. turn + 1 \in 1 .. Len(asked.paths)
    <3>1. asked.paths \in Seq({p \in [at : Paths, dotted : BOOLEAN] : Named(p)})
      BY DEF PackTypeOK, Asks
    <3> QED BY <1>1, <3>1
  <2>3. PICK c \in Nat : entry_name_for(AtTurn) = <<c>>
    BY <1>1, <2>1, <2>2, EntryNameIs
  <2>4. Head(<<c>>) = c
    OBVIOUS
  <2>5. HereKnown'
    BY <1>1, <2>1, <2>3, <2>4, SameTree DEF HereKnown, Known, AtTurn
  <2>6. ~ OnWalk
    BY <1>1 DEF OnWalk
  <2>7. HeadsKnown'
    <3>1. ASSUME NEW i \in DOMAIN plan, Shown(plan[i])
          PROVE  \E j \in DOMAIN asked.paths : j <= turn /\ Known(j, plan[i].name)
      BY <1>2, <2>6, <3>1 DEF HeadsKnown
    <3> QED BY <1>1, <3>1, SameTree DEF HeadsKnown, Known
  <2>8. RootSeen'
    BY <1>1, <1>2, <1>3 DEF RootSeen, Carried
  <2> QED BY <1>3, <2>5, <2>7, <2>8 DEF RefusedInv, Undisturbed, RefusedWell
<1>4. CASE stage' = "refused"
  <2>1. \/ entry_name_for(AtTurn) = Nowhere \/ ~ Decodable(entry_name_for(AtTurn))
        \/ Canonical(AtTurn.at) = Nowhere \/ Is(Canonical(AtTurn.at), "special")
    <3>1. AtTurn.at \in Paths
      BY <1>1 DEF PackTypeOK, Asks
    <3>2. Canonical(AtTurn.at) = Nowhere \/ (\E kind \in {"dir", "file", "special"} : Is(Canonical(AtTurn.at), kind))
      BY <3>1, CanonicalNoLink
    <3> QED BY <1>4, <3>2 DEF Name
  <2>2. Refusable
    BY <1>1, <2>1 DEF Refusable
  <2> QED BY <1>1, <1>4, <2>2, RefusableSame DEF RefusedInv, Undisturbed, RefusedWell
<1> QED BY <1>3, <1>4 DEF Name

(* The steps of a walk that leave the plan alone.                            *)
LEMMA HeadsSame ==
  ASSUME HeadsKnown, tree' = tree, asked' = asked, plan' = plan, turn' = turn,
         ~ Going \/ (Going /\ OnWalk)'
  PROVE  HeadsKnown'
<1>1. ASSUME NEW i \in DOMAIN plan, Shown(plan[i])
      PROVE  \E j \in DOMAIN asked.paths :
               (j <= turn \/ (j = turn + 1 /\ (OnWalk /\ Going)')) /\ Known(j, plan[i].name)
  BY <1>1 DEF HeadsKnown
<1> QED BY <1>1, SameTree DEF HeadsKnown, Known

LEMMA RefusedRoot == ASSUME PackTypeOK, changes = {}, RefusedInv, Root PROVE RefusedInv'
<1> DEFINE e == item_for(here.name, here.at, Canonical(here.at))
<1>1. /\ tree' = tree /\ asked' = asked /\ plan' = plan /\ turn' = turn /\ excluded' = excluded
      /\ stage = "root" /\ here' = here /\ changes' = changes
      /\ stage' = IF Canonical(here.at) = Nowhere THEN "refused"
                  ELSE IF Is(Canonical(here.at), "dir") THEN "listing" ELSE "walking"
      /\ found' = IF Canonical(here.at) = Nowhere THEN <<>> ELSE <<e>>
  BY DEF Root, world, planning
<1>2. HeadsKnown /\ HereKnown
  BY <1>1 DEF RefusedInv, Undisturbed, Late
<1>3. Is(Canonical(here.at), "dir") \/ Is(Canonical(here.at), "file")
  BY <1>1, <1>2 DEF HereKnown
<1>4. Canonical(here.at) # Nowhere
  <2>1. DOMAIN tree \subseteq Paths
    BY WorldIs
  <2> QED BY <1>3, <2>1, NowhereNoPath DEF Is
<1>5. Shown(e)
  <2>1. e.kind \in {"dir", "file"}
    BY <1>3 DEF item_for, Item
  <2> QED BY <2>1 DEF Shown
<1> HIDE DEF e
<1>6. e \in Carried'
  <2>1. found' = <<e>> /\ Range(<<e>>) = {e}
    BY <1>1, <1>4 DEF Range
  <2> QED BY <2>1 DEF Carried
<1>7. RootSeen'
  BY <1>5, <1>6 DEF RootSeen
<1>8. HereKnown'
  BY <1>1, <1>2, SameTree DEF HereKnown, OnWalk, Known
<1>9. HeadsKnown'
  <2>1. ~ Going
    BY <1>1 DEF Going
  <2> QED BY <1>1, <1>2, <2>1, HeadsSame
<1> QED BY <1>1, <1>4, <1>7, <1>8, <1>9 DEF RefusedInv, Undisturbed, RefusedWell

LEMMA RefusedWalk ==
  ASSUME PackTypeOK, changes = {}, RefusedInv, OrderInv, List \/ Visit \/ ReadLink PROVE RefusedInv'
<1>1. /\ tree' = tree /\ asked' = asked /\ plan' = plan /\ turn' = turn /\ excluded' = excluded
      /\ stage \in {"listing", "walking", "linking"} /\ stage' \in {"listing", "walking", "linking"}
      /\ ~ Going
  <2>1. CASE List
    BY <2>1 DEF List, world, planning, Going
  <2>2. CASE Visit
    BY <2>2 DEF Visit, world, planning, Going
  <2>3. CASE ReadLink
    BY <2>3 DEF ReadLink, world, planning, Going
  <2> QED BY <2>1, <2>2, <2>3
<1>2. HeadsKnown /\ HereKnown /\ RootSeen
  BY <1>1 DEF RefusedInv, Undisturbed, Late
<1>3. HeadsKnown'
  BY <1>1, <1>2, HeadsSame
<1>4. Range(found) \subseteq Range(found)'
  <2>1. found' = found \/ \E e : found' = Append(found, e)
    BY DEF List, Visit, ReadLink
  <2>2. found \in Seq(Items)
    BY DEF PackTypeOK
  <2>3. \A e : Range(Append(found, e)) = Range(found) \cup {e}
    BY <2>2, AppendRange
  <2> QED BY <2>1, <2>3
<1>5. RootSeen'
  BY <1>1, <1>2, <1>4 DEF RootSeen, Carried
<1>6. Head(here'.name) = Head(here.name)
  <2>1. CASE List \/ ReadLink
    BY <2>1 DEF List, ReadLink
  <2>2. CASE Visit
    <3>1. stack # <<>> /\ here' = Head(stack) /\ stack \in Seq(Spots)
      BY <2>2 DEF Visit, PackTypeOK
    <3>2. Head(stack) = stack[1] /\ 1 \in DOMAIN stack
      BY <3>1
    <3>3. AllOwn
      BY <1>1 DEF OrderInv, WalkOrder, OnWalk
    <3> QED BY <3>1, <3>2, <3>3 DEF AllOwn, Own
  <2> QED BY <2>1, <2>2
<1>7. HereKnown'
  BY <1>1, <1>2, <1>6, SameTree DEF HereKnown, OnWalk, Known
<1> QED BY <1>1, <1>3, <1>5, <1>7 DEF RefusedInv, Undisturbed, RefusedWell

LEMMA RefusedSift ==
  ASSUME PackTypeOK, changes = {}, RefusedInv, OrderInv, Sift PROVE RefusedInv'
<1> DEFINE item == Head(found)
<1>1. /\ tree' = tree /\ asked' = asked /\ turn' = turn /\ here' = here
      /\ stage = "walking" /\ stack = <<>> /\ found # <<>> /\ found' = Tail(found) /\ (excluded => excluded')
      /\ \/ excluded' = TRUE /\ plan' = plan /\ stage' = "walking"
         \/ plan' = Append(plan, item) /\ stage' = "walking" /\ excluded' = excluded
            /\ (~ Shown(item) \/ item.name \notin Claimed)
         \/ Shown(item) /\ item.name \in Claimed /\ stage' = "refused" /\ plan' = plan
  BY DEF Sift, world, Shown
<1>2. HeadsKnown /\ HereKnown /\ RootSeen /\ OnWalk /\ AllOwn /\ (Fresh \/ Going)
  BY <1>1 DEF RefusedInv, Undisturbed, Late, OrderInv, WalkOrder, OnWalk
<1>3. found \in Seq(Items) /\ plan \in Seq(Items) /\ item = found[1] /\ 1 \in DOMAIN found /\ item \in Items
  <2>1. found \in Seq(Items) /\ plan \in Seq(Items)
    BY DEF PackTypeOK
  <2> QED BY <1>1, <2>1
<1>4. Shown(item) => Head(item.name) = Head(here.name)
  BY <1>2, <1>3 DEF AllOwn, Own
<1> HIDE DEF item
<1>5. CASE stage' = "walking"
  <2>1. Going' /\ OnWalk'
    BY <1>5, OrderSift DEF OnWalk
  <2>2. HereKnown'
    BY <1>1, <1>2, <1>5, SameTree DEF HereKnown, OnWalk, Known
  <2>3. HeadsKnown'
    <3>1. \A i \in DOMAIN plan : Shown(plan[i]) => \E j \in DOMAIN asked.paths :
             (j <= turn \/ j = turn + 1) /\ Known(j, plan[i].name)
      BY <1>2 DEF HeadsKnown
    <3>2. \A i \in DOMAIN plan' : Shown(plan'[i]) => (\E k \in DOMAIN plan : plan'[i] = plan[k]) \/ plan'[i] = item
      <4>1. CASE plan' = plan
        BY <4>1
      <4>2. CASE plan' = Append(plan, item)
        BY <1>3, <4>2, ClaimedAppend
      <4> QED BY <1>1, <1>5, <4>1, <4>2
    <3>3. turn + 1 \in DOMAIN asked.paths
      <4>1. asked.paths \in Seq({p \in [at : Paths, dotted : BOOLEAN] : Named(p)}) /\ turn \in Nat
            /\ turn < Len(asked.paths)
        BY <1>1 DEF PackTypeOK, Asks
      <4> QED BY <4>1
    <3>4. Shown(item) => Known(turn + 1, item.name)
      BY <1>2, <1>4 DEF HereKnown, Known
    <3>5. \A i \in DOMAIN plan' : Shown(plan'[i]) => \E j \in DOMAIN asked.paths :
             (j <= turn \/ j = turn + 1) /\ Known(j, plan'[i].name)
      BY <3>1, <3>2, <3>3, <3>4
    <3> QED BY <1>1, <2>1, <3>5, SameTree DEF HeadsKnown, Known
  <2>4. RootSeen'
    <3>1. Range(found) = {item} \cup Range(found')
      BY <1>1, <1>3, AppendRange DEF item
    <3>2. Range(plan) \subseteq Range(plan') /\ (~ excluded' => item \in Range(plan'))
      <4>1. CASE plan' = plan
        BY <1>1, <1>5, <4>1
      <4>2. CASE plan' = Append(plan, item)
        BY <1>3, <4>2, AppendRange
      <4> QED BY <1>1, <1>5, <4>1, <4>2
    <3>3. Carried \subseteq Carried' \/ excluded'
      BY <3>1, <3>2 DEF Carried
    <3> QED BY <1>1, <1>2, <3>3 DEF RootSeen
  <2> QED BY <1>5, <2>2, <2>3, <2>4 DEF RefusedInv, Undisturbed, RefusedWell
<1>6. CASE stage' = "refused"
  <2>1. Shown(item) /\ item.name \in Claimed
    BY <1>1, <1>6
  <2>2. PICK i \in DOMAIN plan : Shown(plan[i]) /\ plan[i].name = item.name
    BY <2>1 DEF Claimed, Shown
  <2>3. ~ Going
    <3>1. SUFFICES ASSUME Going PROVE FALSE
      OBVIOUS
    <3>2. Head(plan[i].name) = Head(here.name)
      BY <1>4, <2>1, <2>2
    <3>3. Before(plan[i].name, item.name)
      BY <1>3, <2>1, <2>2, <3>1, <3>2 DEF Going
    <3>4. item.name \in Paths
      BY <1>3 DEF Items
    <3> QED BY <2>2, <3>3, <3>4, BeforeStrict
  <2>4. PICK j \in DOMAIN asked.paths : j <= turn /\ Known(j, item.name)
    BY <1>2, <2>2, <2>3 DEF HeadsKnown
  <2>5. Known(turn + 1, here.name) /\ turn + 1 \in DOMAIN asked.paths /\ turn + 1 # j
    <3>1. asked.paths \in Seq({p \in [at : Paths, dotted : BOOLEAN] : Named(p)}) /\ turn \in Nat
          /\ turn < Len(asked.paths)
      BY <1>1 DEF PackTypeOK, Asks
    <3>2. turn + 1 \in DOMAIN asked.paths /\ j \in Nat
      BY <3>1
    <3> QED BY <1>2, <2>4, <3>1, <3>2 DEF HereKnown
  <2>6. entry_name_for(asked.paths[j]) = entry_name_for(asked.paths[turn + 1])
    BY <1>4, <2>1, <2>4, <2>5 DEF Known
  <2>7. Refusable
    BY <2>4, <2>5, <2>6 DEF Refusable
  <2> QED BY <1>1, <1>6, <2>7, RefusableSame DEF RefusedInv, Undisturbed, RefusedWell
<1> QED BY <1>1, <1>5, <1>6

LEMMA RefusedNextPath ==
  ASSUME PackTypeOK, changes = {}, RefusedInv, NextPath PROVE RefusedInv'
<1>1. /\ tree' = tree /\ asked' = asked /\ turn' = turn + 1 /\ plan' = plan /\ found' = found
      /\ stage = "walking" /\ stage' = "naming" /\ excluded' = excluded
      /\ turn \in Nat /\ DOMAIN asked.paths \subseteq Nat
  <2>1. asked.paths \in Seq({p \in [at : Paths, dotted : BOOLEAN] : Named(p)}) /\ turn \in Nat
    BY DEF PackTypeOK, Asks
  <2>2. DOMAIN asked.paths \subseteq Nat
    BY <2>1
  <2> QED BY <2>1, <2>2 DEF NextPath, world, planning, walking
<1>2. HeadsKnown /\ RootSeen
  BY <1>1 DEF RefusedInv, Undisturbed, Late
<1>3. HeadsKnown'
  <2>1. \A i \in DOMAIN plan : Shown(plan[i]) =>
           \E j \in DOMAIN asked.paths : j <= turn + 1 /\ Known(j, plan[i].name)
    BY <1>1, <1>2 DEF HeadsKnown
  <2> QED BY <1>1, <2>1, SameTree DEF HeadsKnown, Known
<1>4. HereKnown'
  BY <1>1 DEF HereKnown, OnWalk
<1>5. RootSeen'
  BY <1>1, <1>2 DEF RootSeen, Carried
<1> QED BY <1>1, <1>3, <1>4, <1>5 DEF RefusedInv, Undisturbed, RefusedWell

LEMMA RefusedCreate ==
  ASSUME PackTypeOK, changes = {}, RefusedInv, Create PROVE RefusedInv'
<1>1. /\ tree' = tree /\ asked' = asked /\ plan' = plan /\ excluded' = excluded
      /\ stage = "naming" /\ turn = Len(asked.paths) /\ found = <<>>
      /\ stage' = IF Barren \/ ~ Opens(asked.dst) THEN "refused" ELSE "writing"
  BY DEF Create, planning, PackTypeOK
<1>2. RootSeen
  BY <1>1 DEF RefusedInv, Undisturbed, Late
<1>3. turn >= 1
  <2>1. asked.paths \in Seq({p \in [at : Paths, dotted : BOOLEAN] : Named(p)}) \ {<<>>}
    BY DEF PackTypeOK, Asks
  <2> QED BY <1>1, <2>1
<1>4. CASE stage' = "refused"
  <2>1. Refusable
    <3>1. SUFFICES ASSUME Barren, ~ excluded PROVE FALSE
      BY <1>1, <1>4 DEF Refusable
    <3>2. PICK item \in Carried : Shown(item)
      BY <1>2, <1>3, <3>1 DEF RootSeen
    <3>3. item \in Range(plan)
      BY <1>1, <3>2 DEF Carried, Range
    <3> QED BY <3>1, <3>2, <3>3 DEF Barren, Range, Shown
  <2> QED BY <1>1, <1>4, <2>1, RefusableSame DEF RefusedInv, Undisturbed, RefusedWell
<1>5. CASE stage' = "writing"
  BY <1>5 DEF RefusedInv, Undisturbed, RefusedWell, Late
<1> QED BY <1>1, <1>4, <1>5

LEMMA RefusedStep ==
  ASSUME PackTypeOK, OrderInv, RefusedInv, [PackNext]_packVars PROVE RefusedInv'
<1>1. SUFFICES ASSUME changes' = {} PROVE RefusedInv'
  BY DEF RefusedInv
<1>2. changes = {}
  <2>1. CASE Changed
    <3>1. \E x : changes' = changes \cup {x}
      BY <2>1, ChangeIs
    <3> QED BY <1>1, <3>1
  <2>2. CASE Early
    BY <1>1, <2>2, EarlySteps
  <2>3. ASSUME Create \/ Record \/ Open \/ Read \/ Stored \/ Finish \/ UNCHANGED packVars PROVE changes' = changes
    BY <2>3 DEF Create, Record, Open, Read, Stored, Finish, packVars, world
  <2> QED BY <1>1, <2>1, <2>2, <2>3, StepIs
<1>3. CASE Changed
  <2>1. \E x : changes' = changes \cup {x}
    BY <1>3, ChangeIs
  <2> QED BY <1>1, <2>1
<1>4. CASE UNCHANGED packVars
  <2>1. tree' = tree /\ asked' = asked /\ plan' = plan /\ turn' = turn /\ excluded' = excluded /\ found' = found
        /\ stage' = stage /\ here' = here /\ stack' = stack
    BY <1>4 DEF packVars, world, walking, planning
  <2>2. Going' = Going /\ OnWalk' = OnWalk /\ AtTurn' = AtTurn /\ Carried' = Carried /\ Claimed' = Claimed
    BY <2>1 DEF Going, OnWalk, AtTurn, Carried, Claimed
  <2>3. HeadsKnown' = HeadsKnown
    BY <2>1, <2>2, SameTree DEF HeadsKnown, Known
  <2>4. HereKnown' = HereKnown
    BY <2>1, <2>2, SameTree DEF HereKnown, Known
  <2>5. RootSeen' = RootSeen
    BY <2>1, <2>2 DEF RootSeen
  <2> QED BY <1>2, <2>1, <2>3, <2>4, <2>5, RefusableSame DEF RefusedInv, Undisturbed, RefusedWell
<1>5. ASSUME Record \/ Open \/ Read \/ Stored \/ Finish PROVE RefusedInv'
  <2>1. stage' \in Late
    BY <1>5 DEF Record, Open, Read, Stored, Finish, Late
  <2> QED BY <2>1 DEF RefusedInv, Undisturbed, RefusedWell, Late
<1> QED BY <1>2, <1>3, <1>4, <1>5, StepIs, RefusedName, RefusedRoot, RefusedWalk, RefusedSift, RefusedNextPath,
           RefusedCreate DEF Early

-------------------------------------------------------------------------------
(* An archive left out of its successor, where links and files can be stored. *)

(* What an undisturbed walk took for a file is one.                          *)
FilesFound ==
  changes = {} => \A item \in Carried : item.kind = "file" => Is(Canonical(item.at), "file")

Unread == \E i \in DOMAIN files : ~ files[i].reads
Lasting(kind) == kind \in {"file", "link"}
ToCome == \E i \in DOMAIN plan : i > turn /\ Lasting(plan[i].kind)
WorthInv ==
  changes = {} /\ excluded /\ asked.holds.links =>
    /\ stage \in {"writing", "payload"} =>
         (\E k \in DOMAIN stored : stored[k].kind # "dir") \/ Unread \/ ToCome
    /\ stage = "done" => (\E k \in DOMAIN stored : stored[k].kind # "dir") \/ Unread

LEMMA FilesFoundStep ==
  ASSUME PackTypeOK, SpotsNamed, FilesFound, [PackNext]_packVars
  PROVE  FilesFound'
<1>1. CASE Changed
  <2>1. \E x : changes' = changes \cup {x}
    BY <1>1, ChangeIs
  <2> QED BY <2>1 DEF FilesFound
<1>2. ASSUME tree' = tree, changes' = changes,
             \A item \in Carried' \ Carried : item.kind = "file" => Is(Canonical(item.at), "file")
      PROVE  FilesFound'
  <2>1. \A p : Canonical(p)' = Canonical(p)
    BY <1>2, CanonicalByTree
  <2> QED BY <1>2, <2>1 DEF FilesFound, Is
<1>3. \A name : Skipped(name).kind # "file"
  BY DEF Skipped, Item
<1>4. ASSUME NEW name, NEW at, NEW q, item_for(name, at, q).kind = "file"
      PROVE  Is(q, "file") /\ item_for(name, at, q).at = at
  BY <1>4 DEF item_for, Item, Skipped
<1>6. CASE Root
  <2>1. tree' = tree /\ changes' = changes
    BY <1>6 DEF Root, world
  <2>2. Carried' \subseteq Carried \cup
              (IF Canonical(here.at) = Nowhere THEN {} ELSE {item_for(here.name, here.at, Canonical(here.at))})
    BY <1>6, CarriedSteps
  <2>3. \A item \in Carried' \ Carried : item.kind = "file" => Is(Canonical(item.at), "file")
    BY <1>4, <2>2
  <2> QED BY <1>2, <2>1, <2>3
<1>7. CASE Visit
  <2> DEFINE at == Head(stack).at
             e == item_for(Head(stack).name, at, Spot(at))
  <2>1. tree' = tree /\ changes' = changes /\ stack # <<>>
    BY <1>7 DEF Visit, world
  <2>2. Carried' \subseteq Carried \cup {Skipped(Head(stack).name)} \cup
              (IF Spot(at) # Nowhere /\ ~ Is(Spot(at), "link") THEN {e} ELSE {})
    BY <1>7, CarriedSteps
  <2>3. at \in Paths /\ at # <<>>
    <3>1. stack \in Seq(Spots) /\ Head(stack) = stack[1] /\ 1 \in DOMAIN stack
      BY <2>1 DEF PackTypeOK
    <3>2. Head(stack) \in Spots /\ at # <<>>
      BY <3>1 DEF SpotsNamed
    <3> HIDE DEF at
    <3>3. Head(stack).at \in Paths
      BY <3>2 DEF Spots
    <3> QED BY <3>2, <3>3 DEF at
  <2> HIDE DEF at
  <2>4. Spot(at) # Nowhere /\ ~ Is(Spot(at), "link") => Canonical(at) = Spot(at)
    BY <2>3, SpotLeads
  <2>5. \A item \in Carried' \ Carried : item.kind = "file" => Is(Canonical(item.at), "file")
    BY <1>3, <1>4, <2>2, <2>4
  <2> QED BY <1>2, <2>1, <2>5
<1>8. CASE List \/ ReadLink \/ Sift
  <2>1. tree' = tree /\ changes' = changes
    BY <1>8 DEF List, ReadLink, Sift, world
  <2>2. Carried' \subseteq Carried \cup {Skipped(here.name)} \cup {LinkItem}
    BY <1>8, CarriedSteps
  <2>3. LinkItem.kind = "link"
    BY DEF LinkItem, Item
  <2>4. \A item \in Carried' \ Carried : item.kind # "file"
    BY <1>3, <2>2, <2>3
  <2> QED BY <1>2, <2>1, <2>4
<1>9. ASSUME Name \/ NextPath \/ Create \/ Record \/ Open \/ Read \/ Stored \/ Finish \/ UNCHANGED packVars
      PROVE  FilesFound'
  <2>1. tree' = tree /\ changes' = changes
    BY <1>9 DEF Name, NextPath, Create, Record, Open, Read, Stored, Finish, packVars, world
  <2>2. Carried' = Carried
    BY <1>9, CarriedSteps
  <2> QED BY <1>2, <2>1, <2>2
<1> QED BY <1>1, <1>6, <1>7, <1>8, <1>9 DEF PackNext

LEMMA WorthInit == ASSUME PackInit PROVE WorthInv
BY DEF PackInit, WorthInv

LEMMA WorthStep ==
  ASSUME PackTypeOK, FilesFound, WorthInv, [PackNext]_packVars
  PROVE  WorthInv'
<1> DEFINE Kept0 == \E k \in DOMAIN stored : stored[k].kind # "dir"
<1>1. CASE Changed
  <2>1. \E x : changes' = changes \cup {x}
    BY <1>1, ChangeIs
  <2> QED BY <2>1 DEF WorthInv
<1>2. CASE Early
  <2>1. stage' \notin Late
    BY <1>2, EarlySteps
  <2> QED BY <2>1 DEF WorthInv, Late
<1>3. CASE Create
  <2>1. SUFFICES ASSUME stage' = "writing", excluded PROVE ToCome'
    BY <1>3 DEF Create, WorthInv, planning
  <2>2. ~ Barren /\ plan' = plan /\ turn' = 0
    BY <1>3, <2>1 DEF Create, planning
  <2>3. PICK i \in DOMAIN plan : Lasting(plan[i].kind)
    BY <2>1, <2>2 DEF Barren, Lasting
  <2>4. i > 0
    <3>1. plan \in Seq(Items)
      BY DEF PackTypeOK
    <3> QED BY <3>1
  <2> QED BY <2>2, <2>3, <2>4 DEF ToCome
<1>4. ASSUME Record \/ Open \/ Read \/ Stored \/ Finish \/ UNCHANGED packVars
      PROVE  /\ changes' = changes /\ files' = files /\ plan' = plan /\ asked' = asked
             /\ excluded' = excluded /\ Unread' = Unread
  <2>1. changes' = changes /\ files' = files /\ plan' = plan /\ asked' = asked /\ excluded' = excluded
    BY <1>4 DEF Record, Open, Read, Stored, Finish, packVars, world, planning
  <2> QED BY <2>1 DEF Unread
<1>5. ASSUME stage = "writing" \/ stage = "payload", stage' \in {"writing", "payload"}, turn' = turn + 1,
             plan' = plan, stored' = stored \/ (\E e \in Entries : stored' = Append(stored, e)),
             Lasting(AtHand.kind) => Kept0' \/ Unread', Unread' = Unread
      PROVE  Kept0 \/ Unread \/ ToCome => Kept0' \/ Unread' \/ ToCome'
  <2>1. turn \in Nat /\ plan \in Seq(Items) /\ stored \in Seq(Entries)
    BY DEF PackTypeOK
  <2>2. Kept0 => Kept0'
    <3>1. CASE stored' = stored
      BY <3>1
    <3>2. ASSUME NEW e \in Entries, stored' = Append(stored, e) PROVE Kept0 => Kept0'
      <4>1. \A k \in DOMAIN stored : k \in DOMAIN stored' /\ stored'[k] = stored[k]
        BY <2>1, <3>2
      <4> QED BY <4>1
    <3> QED BY <1>5, <3>1, <3>2
  <2>3. ToCome => Lasting(AtHand.kind) \/ ToCome'
    <3>1. SUFFICES ASSUME NEW i \in DOMAIN plan, i > turn, Lasting(plan[i].kind)
                   PROVE  Lasting(AtHand.kind) \/ ToCome'
      BY DEF ToCome
    <3>2. CASE i = turn + 1
      BY <3>1, <3>2 DEF AtHand
    <3>3. CASE i # turn + 1
      <4>1. i > turn + 1
        BY <2>1, <3>1, <3>3
      <4> QED BY <1>5, <3>1, <4>1 DEF ToCome
    <3> QED BY <3>2, <3>3
  <2> QED BY <1>5, <2>2, <2>3
<1> HIDE DEF Kept0
<1>6. WorthInv <=> (changes = {} /\ excluded /\ asked.holds.links =>
         /\ stage \in {"writing", "payload"} => Kept0 \/ Unread \/ ToCome
         /\ stage = "done" => Kept0 \/ Unread)
  BY DEF WorthInv, Kept0
<1>7. WorthInv' <=> (changes' = {} /\ excluded' /\ asked'.holds.links =>
         /\ stage' \in {"writing", "payload"} => Kept0' \/ Unread' \/ ToCome'
         /\ stage' = "done" => Kept0' \/ Unread')
  BY DEF WorthInv, Kept0
<1>8. CASE Record
  <2> DEFINE e == Entry(AtHand.name, AtHand.kind, AtHand.to)
  <2>1. /\ stage = "writing" /\ stage' = "writing" /\ turn' = turn + 1 /\ turn < Len(plan) /\ AtHand.kind # "file"
        /\ stored' = stored \/ (AtHand.kind # "skipped" /\ stored' = Append(stored, e))
        /\ AtHand.kind = "link" /\ asked.holds.links => stored' = Append(stored, e)
    BY <1>8 DEF Record, Holds
  <2>2. AtHand.kind # "skipped" => e \in Entries /\ e.kind = AtHand.kind
    BY <2>1, AtHandIs DEF Entry, Entries, Paths
  <2> HIDE DEF e
  <2>3. stored' = stored \/ (\E x \in Entries : stored' = Append(stored, x))
    BY <2>1, <2>2
  <2>4. Lasting(AtHand.kind) /\ asked.holds.links => Kept0'
    <3>1. SUFFICES ASSUME AtHand.kind = "link", asked.holds.links PROVE Kept0'
      BY <2>1 DEF Lasting
    <3>2. stored' = Append(stored, e) /\ stored \in Seq(Entries) /\ e \in Entries /\ e.kind = "link"
      BY <2>1, <2>2, <3>1 DEF PackTypeOK
    <3>3. Len(stored) + 1 \in DOMAIN stored' /\ stored'[Len(stored) + 1] = e
      BY <3>2
    <3> QED BY <3>2, <3>3 DEF Kept0
  <2> QED BY <1>4, <1>5, <1>6, <1>7, <1>8, <2>1, <2>3, <2>4
<1>9. CASE Stored
  <2> DEFINE e == Entry(AtHand.name, "file", reader.content)
  <2>1. /\ stage = "payload" /\ stored' = Append(stored, e) /\ turn < Len(plan) /\ reader \in Readers
        /\ stored \in Seq(Entries)
    BY <1>9 DEF Stored, PackTypeOK
  <2>2. e \in Entries /\ e.kind = "file"
    BY <2>1, AtHandIs DEF Entry, Entries, Readers
  <2> HIDE DEF e
  <2>3. Len(stored) + 1 \in DOMAIN stored' /\ stored'[Len(stored) + 1] = e
    BY <2>1, <2>2
  <2>4. Kept0'
    BY <2>2, <2>3 DEF Kept0
  <2> QED BY <1>7, <2>4
<1>10. CASE Open
  <2> DEFINE q == Canonical(AtHand.at)
  <2>1. /\ stage = "writing" /\ turn < Len(plan) /\ AtHand.kind = "file" /\ stored' = stored /\ tree' = tree
        /\ \/ Unopenable(q) /\ turn' = turn + 1 /\ stage' = "writing"
           \/ stage' = "payload" /\ turn' = turn
           \/ stage' \in {"failed", "waiting"}
    BY <1>10 DEF Open, world
  <2>2. AtHand \in Carried
    <3>1. plan \in Seq(Items) /\ turn \in Nat
      BY DEF PackTypeOK
    <3>2. turn + 1 \in DOMAIN plan
      BY <2>1, <3>1
    <3> QED BY <3>2 DEF Carried, AtHand, Range
  <2>3. changes = {} => Is(q, "file")
    BY <2>1, <2>2 DEF FilesFound
  <2> HIDE DEF q
  <2>4. CASE stage' = "payload" /\ turn' = turn
    <3>1. ToCome' = ToCome /\ Kept0' = Kept0
      BY <1>4, <1>10, <2>1, <2>4 DEF ToCome, Kept0
    <3> QED BY <1>4, <1>6, <1>7, <1>10, <2>1, <2>4, <3>1
  <2>5. CASE stage' \in {"failed", "waiting"}
    BY <1>7, <2>5
  <2>6. CASE Unopenable(q) /\ turn' = turn + 1 /\ stage' = "writing"
    <3>1. changes = {} => Unread
      <4>1. SUFFICES ASSUME changes = {} PROVE Unread
        OBVIOUS
      <4>2. Is(q, "file") /\ ~ Readable(q)
        <5>1. \A kind \in {"dir", "special"} : ~ Is(q, kind)
          BY <2>3, <4>1 DEF Is
        <5>2. q # Nowhere
          BY <2>3, <4>1, WorldIs, NowhereNoPath DEF Is
        <5> QED BY <2>3, <2>6, <4>1, <5>1, <5>2 DEF Unopenable
      <4>3. tree[q].ino \in DOMAIN files
        BY <4>2, WorldIs DEF Is
      <4> QED BY <4>2, <4>3 DEF Readable, Unread
    <3> QED BY <1>4, <1>7, <1>10, <2>6, <3>1
  <2> QED BY <2>1, <2>4, <2>5, <2>6
<1>11. CASE Read \/ UNCHANGED packVars
  <2>1. stage' = stage /\ turn' = turn /\ stored' = stored
    BY <1>11 DEF Read, packVars, writing
  <2>2. ToCome' = ToCome /\ Kept0' = Kept0
    BY <1>4, <1>11, <2>1 DEF ToCome, Kept0
  <2> QED BY <1>4, <1>6, <1>7, <1>11, <2>1, <2>2
<1>12. CASE Finish
  <2>1. stage = "writing" /\ turn = Len(plan) /\ stored' = stored /\ stage' = "done" /\ plan \in Seq(Items)
    BY <1>12 DEF Finish, PackTypeOK
  <2>2. ~ ToCome
    BY <2>1 DEF ToCome
  <2>3. Kept0' = Kept0
    BY <2>1 DEF Kept0
  <2> QED BY <1>4, <1>6, <1>7, <1>12, <2>1, <2>2, <2>3
<1> QED BY <1>1, <1>2, <1>3, <1>8, <1>9, <1>10, <1>11, <1>12, StepIs

LEMMA WorthDone == WorthInv => Worthwhile
BY DEF WorthInv, Worthwhile, Unread

-------------------------------------------------------------------------------
(* Paths below another.                                                     *)

LEMMA PrefixSelf == ASSUME NEW p \in Paths PROVE IsPrefix(p, p)
BY PathBasics, PrefixIs

LEMMA PrefixSteps ==
  ASSUME NEW p \in Paths, NEW q \in Paths, IsPrefix(p, q)
  PROVE  /\ p # q => q # <<>> /\ IsPrefix(p, Front(q)) /\ Len(p) < Len(q)
         /\ q # <<>> => IsPrefix(Front(q), q) /\ Front(q) # q
         /\ \A r \in Paths : IsPrefix(q, r) => IsPrefix(p, r)
         /\ IsPrefix(p, p) /\ Len(p) <= Len(q)
<1>1. /\ Len(p) \in Nat /\ Len(q) \in Nat /\ Len(p) <= Len(q)
      /\ \A i \in 1 .. Len(p) : p[i] = q[i]
  BY PathBasics, PrefixIs
<1>2. p # q => Len(p) < Len(q)
  <2>1. Len(p) = Len(q) => p = q
    BY <1>1, SeqEqual DEF Paths
  <2> QED BY <1>1, <2>1
<1>3. q # <<>> => /\ Front(q) \in Paths /\ Len(Front(q)) = Len(q) - 1 /\ Len(q) # 0
                  /\ \A i \in 1 .. Len(q) - 1 : Front(q)[i] = q[i]
  BY FrontIs, PathBasics
<1>4. p # q => q # <<>>
  <2>1. q = <<>> => Len(q) = 0
    BY PathBasics
  <2> QED BY <1>1, <1>2, <2>1
<1>5. ASSUME p # q PROVE IsPrefix(p, Front(q))
  <2> DEFINE f == Front(q)
  <2>1. f \in Paths /\ Len(f) = Len(q) - 1 /\ \A i \in 1 .. Len(q) - 1 : f[i] = q[i]
    BY <1>3, <1>4, <1>5
  <2> HIDE DEF f
  <2>2. Len(p) <= Len(f) /\ \A i \in 1 .. Len(p) : p[i] = f[i]
    BY <1>1, <1>2, <1>5, <2>1
  <2>3. IsPrefix(p, f)
    BY <2>1, <2>2, PrefixIs
  <2> QED BY <2>3 DEF f
<1>6. ASSUME q # <<>> PROVE IsPrefix(Front(q), q) /\ Front(q) # q
  <2> DEFINE f == Front(q)
  <2>1. f \in Paths /\ Len(f) = Len(q) - 1 /\ \A i \in 1 .. Len(q) - 1 : f[i] = q[i]
    BY <1>3, <1>6
  <2> HIDE DEF f
  <2>2. Len(f) <= Len(q) /\ (\A i \in 1 .. Len(f) : f[i] = q[i]) /\ f # q
    BY <1>1, <2>1
  <2>3. IsPrefix(f, q)
    BY <2>1, <2>2, PrefixIs
  <2> QED BY <2>2, <2>3 DEF f
<1>7. ASSUME NEW r \in Paths, IsPrefix(q, r) PROVE IsPrefix(p, r)
  <2>1. Len(q) <= Len(r) /\ Len(r) \in Nat /\ \A i \in 1 .. Len(q) : q[i] = r[i]
    BY <1>7, PrefixIs, PathBasics
  <2>2. Len(p) <= Len(r) /\ \A i \in 1 .. Len(p) : p[i] = r[i]
    BY <1>1, <2>1
  <2> QED BY <2>2, PrefixIs
<1>8. IsPrefix(p, p)
  BY <1>1, PrefixIs
<1> QED BY <1>1, <1>2, <1>4, <1>5, <1>6, <1>7, <1>8

(* The next step from a path towards one beneath it.                         *)
Toward(r, q) == Append(r, q[Len(r) + 1])
LEMMA TowardIs ==
  ASSUME NEW r \in Paths, NEW q \in Paths, IsPrefix(r, q), r # q
  PROVE  /\ Toward(r, q) \in Paths /\ IsPrefix(Toward(r, q), q) /\ Toward(r, q) # <<>> /\ IsPrefix(r, Toward(r, q))
         /\ Front(Toward(r, q)) = r /\ Last(Toward(r, q)) \in Nat /\ Toward(r, q) # r
         /\ Last(Toward(r, q)) = q[Len(r) + 1] /\ Len(Toward(r, q)) = Len(r) + 1
<1>1. /\ Len(r) \in Nat /\ Len(q) \in Nat /\ \A i \in 1 .. Len(r) : r[i] = q[i]
      /\ Len(r) < Len(q) /\ \A i \in 1 .. Len(q) : q[i] \in Nat
  BY PathBasics, PrefixIs, PrefixSteps
<1>2. q[Len(r) + 1] \in Nat
  BY <1>1
<1> DEFINE t == Append(r, q[Len(r) + 1])
<1>3. /\ t \in Paths /\ t # <<>> /\ Len(t) = Len(r) + 1
      /\ \A i \in 1 .. Len(r) : t[i] = r[i]
      /\ t[Len(r) + 1] = q[Len(r) + 1]
      /\ Front(t) = r /\ Last(t) = q[Len(r) + 1]
  BY <1>2, AppendIs
<1> HIDE DEF t
<1>4. Len(t) <= Len(q) /\ \A i \in 1 .. Len(t) : t[i] = q[i]
  BY <1>1, <1>3
<1>5. IsPrefix(t, q)
  BY <1>3, <1>4, PrefixIs
<1>6. IsPrefix(r, t)
  <2>1. Len(r) <= Len(t) /\ \A i \in 1 .. Len(r) : r[i] = t[i]
    BY <1>1, <1>3
  <2> QED BY <1>3, <2>1, PrefixIs
<1>7. t # r
  BY <1>1, <1>3
<1> QED BY <1>2, <1>3, <1>5, <1>6, <1>7 DEF Toward, t

(* What leads from a path to one beneath it.                                 *)
Rest(b, r) == SubSeq(r, Len(b) + 1, Len(r))
LEMMA RestIs ==
  ASSUME NEW b \in Paths, NEW r \in Paths, IsPrefix(b, r)
  PROVE  /\ Rest(b, r) \in Paths /\ Len(Rest(b, r)) = Len(r) - Len(b)
         /\ \A i \in 1 .. Len(r) - Len(b) : Rest(b, r)[i] = r[Len(b) + i]
<1>1. /\ Len(b) \in Nat /\ Len(r) \in Nat /\ Len(b) <= Len(r)
      /\ \A i \in 1 .. Len(r) : r[i] \in Nat
  BY PathBasics, PrefixIs
<1>2. r \in Seq(Nat)
  BY DEF Paths
<1>3. /\ SubSeq(r, Len(b) + 1, Len(r)) = [i \in 1 .. Len(r) - Len(b) |-> r[i + Len(b)]]
  BY <1>1, <1>2
<1>4. Len(SubSeq(r, Len(b) + 1, Len(r))) = Len(r) - Len(b)
  BY <1>1, <1>2
<1>5. \A i \in 1 .. Len(r) - Len(b) : i + Len(b) \in 1 .. Len(r) /\ i + Len(b) = Len(b) + i
  BY <1>1
<1>6. SubSeq(r, Len(b) + 1, Len(r)) \in Seq(Nat)
  BY <1>1, <1>2
<1> QED BY <1>3, <1>4, <1>5, <1>6 DEF Rest, Paths

LEMMA RestTop ==
  ASSUME NEW b \in Paths, NEW S, NEW x \in Seq(S)
  PROVE  Rest(b, b) = <<>> /\ x \o Rest(b, b) = x
<1>1. IsPrefix(b, b) /\ Len(b) \in Nat
  BY PathBasics, PrefixSteps, PrefixIs
<1>2. Rest(b, b) \in Paths /\ Len(Rest(b, b)) = 0
  BY <1>1, RestIs
<1>3. Rest(b, b) = <<>>
  BY <1>2, PathBasics
<1> QED BY <1>3

LEMMA RestEnd ==
  ASSUME NEW b \in Paths, NEW r \in Paths, IsPrefix(b, r), b # r, NEW x \in Seq(Int)
  PROVE  x \o Rest(b, r) = Append(x \o Rest(b, Front(r)), Last(r))
<1> DEFINE f == Front(r)
           u == Rest(b, r)
           v == Rest(b, f)
<1>1. /\ Len(b) \in Nat /\ Len(r) \in Nat /\ Len(b) < Len(r) /\ IsPrefix(b, f) /\ r # <<>>
  BY PathBasics, PrefixSteps
<1>2. f \in Paths /\ Len(f) = Len(r) - 1 /\ (\A i \in 1 .. Len(r) - 1 : f[i] = r[i]) /\ Last(r) = r[Len(r)]
      /\ Last(r) \in Nat
  BY <1>1, FrontIs
<1> HIDE DEF f
<1>3. /\ u \in Paths /\ Len(u) = Len(r) - Len(b)
      /\ \A i \in 1 .. Len(r) - Len(b) : u[i] = r[Len(b) + i]
  BY RestIs
<1>4. /\ v \in Paths /\ Len(v) = Len(f) - Len(b)
      /\ \A i \in 1 .. Len(f) - Len(b) : v[i] = f[Len(b) + i]
  BY <1>1, <1>2, RestIs
<1> HIDE DEF u, v
<1>5. u \in Seq(Int) /\ v \in Seq(Int) /\ Last(r) \in Int /\ Len(x) \in Nat
  BY <1>2, <1>3, <1>4 DEF Paths
<1> DEFINE xu == x \o u
           xv == x \o v
           a == Append(xv, Last(r))
<1>6. /\ xu \in Seq(Int) /\ Len(xu) = Len(x) + Len(u)
      /\ \A i \in 1 .. Len(x) + Len(u) : xu[i] = IF i <= Len(x) THEN x[i] ELSE u[i - Len(x)]
  BY <1>5
<1>7. /\ xv \in Seq(Int) /\ Len(xv) = Len(x) + Len(v)
      /\ \A i \in 1 .. Len(x) + Len(v) : xv[i] = IF i <= Len(x) THEN x[i] ELSE v[i - Len(x)]
  BY <1>5
<1> HIDE DEF xu, xv
<1>8. a \in Seq(Int) /\ Len(a) = Len(x) + Len(v) + 1 /\ (\A i \in 1 .. Len(x) + Len(v) : a[i] = xv[i])
      /\ a[Len(x) + Len(v) + 1] = Last(r)
  BY <1>5, <1>7
<1> HIDE DEF a
<1>9. Len(u) = Len(v) + 1 /\ Len(u) \in Nat /\ Len(v) \in Nat
  BY <1>1, <1>2, <1>3, <1>4
<1>10. \A i \in 1 .. Len(v) : u[i] = v[i]
  <2>1. ASSUME NEW i \in 1 .. Len(v) PROVE u[i] = v[i]
    <3>1. i \in 1 .. Len(r) - Len(b) /\ i \in 1 .. Len(f) - Len(b) /\ Len(b) + i \in 1 .. Len(r) - 1
      BY <1>1, <1>2, <1>4
    <3>2. u[i] = r[Len(b) + i] /\ v[i] = f[Len(b) + i] /\ f[Len(b) + i] = r[Len(b) + i]
      BY <1>2, <1>3, <1>4, <3>1
    <3> QED BY <3>2
  <2> QED BY <2>1
<1>11. u[Len(v) + 1] = Last(r)
  <2>1. Len(v) + 1 \in 1 .. Len(r) - Len(b) /\ Len(b) + (Len(v) + 1) = Len(r)
    BY <1>1, <1>2, <1>4
  <2> QED BY <1>2, <1>3, <2>1
<1>12. ASSUME NEW i \in 1 .. Len(x) + Len(v) + 1 PROVE xu[i] = a[i]
  <2>1. CASE i <= Len(x)
    <3>1. i \in 1 .. Len(x) + Len(v) /\ i \in 1 .. Len(x) + Len(u)
      BY <1>5, <1>9, <2>1
    <3> QED BY <1>6, <1>7, <1>8, <2>1, <3>1
  <2>2. CASE i > Len(x) /\ i <= Len(x) + Len(v)
    <3>1. i - Len(x) \in 1 .. Len(v) /\ i \in 1 .. Len(x) + Len(v) /\ i \in 1 .. Len(x) + Len(u) /\ ~ (i <= Len(x))
      BY <1>5, <1>9, <2>2
    <3> QED BY <1>6, <1>7, <1>8, <1>10, <3>1
  <2>3. CASE i = Len(x) + Len(v) + 1
    <3>1. i - Len(x) = Len(v) + 1 /\ ~ (i <= Len(x)) /\ i \in 1 .. Len(x) + Len(u)
      BY <1>5, <1>9, <2>3
    <3> QED BY <1>6, <1>8, <1>11, <2>3, <3>1
  <2>4. i \in Nat /\ Len(x) \in Nat /\ Len(v) \in Nat /\ i <= Len(x) + Len(v) + 1
    BY <1>5, <1>9
  <2>5. i <= Len(x) \/ (i > Len(x) /\ i <= Len(x) + Len(v)) \/ i = Len(x) + Len(v) + 1
    BY <2>4
  <2> QED BY <2>1, <2>2, <2>3, <2>5
<1>13. Len(xu) = Len(a) /\ Len(xu) = Len(x) + Len(v) + 1
  BY <1>5, <1>6, <1>8, <1>9
<1>14. xu = a
  <2>1. \A i \in 1 .. Len(xu) : xu[i] = a[i]
    BY <1>12, <1>13
  <2> QED BY <1>6, <1>8, <1>13, <2>1, SeqEqual
<1> QED BY <1>14 DEF a, xu, xv, u, v, f

LEMMA RestWhole ==
  ASSUME NEW b \in Paths, NEW r \in Paths, IsPrefix(b, r)
  PROVE  b \o Rest(b, r) = r
<1> DEFINE u == Rest(b, r)
<1>1. /\ Len(b) \in Nat /\ Len(r) \in Nat /\ Len(b) <= Len(r) /\ \A i \in 1 .. Len(b) : b[i] = r[i]
  BY PathBasics, PrefixIs
<1>2. /\ u \in Paths /\ Len(u) = Len(r) - Len(b)
      /\ \A i \in 1 .. Len(r) - Len(b) : u[i] = r[Len(b) + i]
  BY RestIs
<1> HIDE DEF u
<1>3. u \in Seq(Nat) /\ b \in Seq(Nat) /\ r \in Seq(Nat)
  BY <1>2 DEF Paths
<1>4. /\ b \o u \in Seq(Nat) /\ Len(b \o u) = Len(b) + Len(u)
      /\ \A i \in 1 .. Len(b) + Len(u) : (b \o u)[i] = IF i <= Len(b) THEN b[i] ELSE u[i - Len(b)]
  BY <1>3
<1>5. Len(b) + Len(u) = Len(r)
  BY <1>1, <1>2
<1>6. ASSUME NEW i \in 1 .. Len(r) PROVE (b \o u)[i] = r[i]
  <2>1. CASE i <= Len(b)
    BY <1>1, <1>4, <1>5, <2>1
  <2>2. CASE ~ (i <= Len(b))
    <3>1. i - Len(b) \in 1 .. Len(r) - Len(b) /\ Len(b) + (i - Len(b)) = i
      BY <1>1, <2>2
    <3> QED BY <1>2, <1>4, <1>5, <2>2, <3>1
  <2> QED BY <2>1, <2>2
<1>7. b \o u = r
  BY <1>3, <1>4, <1>5, <1>6, SeqEqual
<1> QED BY <1>7 DEF u

-------------------------------------------------------------------------------
(* What is beneath what, and where it is reached.                            *)

LEMMA UpTree ==
  ASSUME PackTypeOK, NEW q \in DOMAIN tree, NEW r \in Paths, IsPrefix(r, q)
  PROVE  r \in DOMAIN tree /\ (r # q => Is(r, "dir"))
<1>1. q \in Paths /\ \A p \in DOMAIN tree \ {<<>>} : Front(p) \in DOMAIN tree /\ tree[Front(p)].kind = "dir"
  BY DEF PackTypeOK, Tree
<1> DEFINE Between == {p \in DOMAIN tree : IsPrefix(r, p) /\ IsPrefix(p, q)}
           Lens == {Len(p) : p \in Between}
<1>2. q \in Between
  BY <1>1, PrefixSelf
<1>3. \A p \in Between : p \in Paths /\ Len(p) \in Nat
  BY WorldIs, PathBasics
<1>4. Lens \subseteq Nat /\ Lens # {}
  BY <1>2, <1>3
<1>5. PICK n \in Lens : \A k \in Lens : n <= k
  BY <1>4, LeastOf
<1>6. PICK p \in Between : Len(p) = n
  BY <1>5
<1>7. p = r
  <2>1. SUFFICES ASSUME p # r PROVE FALSE
    OBVIOUS
  <2>2. /\ p # <<>> /\ IsPrefix(r, Front(p)) /\ IsPrefix(Front(p), p) /\ Front(p) \in Paths
        /\ Len(Front(p)) = Len(p) - 1 /\ Len(p) \in Nat
    BY <1>3, <1>6, <2>1, PrefixSteps, FrontIs
  <2>3. Front(p) \in DOMAIN tree /\ IsPrefix(Front(p), q)
    <3>1. Front(p) \in DOMAIN tree
      BY <1>1, <1>6, <2>2
    <3>2. IsPrefix(p, q) /\ p \in Paths
      BY <1>3, <1>6
    <3> QED BY <1>1, <2>2, <3>1, <3>2, PrefixSteps
  <2>4. Front(p) \in Between
    BY <2>2, <2>3
  <2>5. Len(Front(p)) \in Lens
    BY <2>4
  <2> QED BY <1>5, <1>6, <2>2, <2>5
<1>8. r \in DOMAIN tree
  BY <1>6, <1>7
<1>9. ASSUME r # q PROVE Is(r, "dir")
  <2> DEFINE t == Toward(r, q)
  <2>1. t \in Paths /\ IsPrefix(t, q) /\ t # <<>> /\ Front(t) = r /\ IsPrefix(r, t) /\ t # r /\ Len(t) = Len(r) + 1
    BY <1>1, <1>9, TowardIs
  <2> HIDE DEF t
  <2> DEFINE Past == {x \in DOMAIN tree : IsPrefix(t, x) /\ IsPrefix(x, q)}
             Far == {Len(x) : x \in Past}
  <2>2. q \in Past
    BY <1>1, <2>1, PrefixSelf
  <2>3. \A x \in Past : x \in Paths /\ Len(x) \in Nat
    BY WorldIs, PathBasics
  <2>4. Far \subseteq Nat /\ Far # {}
    BY <2>2, <2>3
  <2>5. PICK m \in Far : \A k \in Far : m <= k
    BY <2>4, LeastOf
  <2>6. PICK x \in Past : Len(x) = m
    BY <2>5
  <2>7. x = t
    <3>1. SUFFICES ASSUME x # t PROVE FALSE
      OBVIOUS
    <3>2. /\ x # <<>> /\ IsPrefix(t, Front(x)) /\ IsPrefix(Front(x), x) /\ Front(x) \in Paths
          /\ Len(Front(x)) = Len(x) - 1 /\ Len(x) \in Nat
      BY <2>1, <2>3, <2>6, <3>1, PrefixSteps, FrontIs
    <3>3. Front(x) \in DOMAIN tree /\ IsPrefix(Front(x), q)
      <4>1. Front(x) \in DOMAIN tree
        BY <1>1, <2>6, <3>2
      <4>2. IsPrefix(x, q) /\ x \in Paths
        BY <2>3, <2>6
      <4> QED BY <1>1, <3>2, <4>1, <4>2, PrefixSteps
    <3>4. Front(x) \in Past
      BY <3>2, <3>3
    <3>5. Len(Front(x)) \in Far
      BY <3>4
    <3> QED BY <2>5, <2>6, <3>2, <3>5
  <2> QED BY <1>1, <2>1, <2>6, <2>7 DEF Is
<1> QED BY <1>8, <1>9

(* What is there, and no link, is led to by its own path, if by any; and a   *)
(* change elsewhere leaves it so.                                            *)
LEMMA OwnPath ==
  ASSUME PackTypeOK, PackTypeOK', NEW t, tree' = t, NEW path,
         \A r \in DOMAIN tree : r \in Paths /\ ~ IsPrefix(path, r) => r \in DOMAIN t /\ t[r] = tree[r],
         \A r \in Paths : r # <<>> /\ ~ IsPrefix(path, r) => ~ IsPrefix(path, Front(r)),
         NEW p \in DOMAIN tree, ~ IsPrefix(path, p), ~ Is(p, "link")
  PROVE  Canonical(p) \in {p, Nowhere} /\ Canonical(p)' = Canonical(p)
<1> DEFINE Good(q) == Canonical(q) \in {q, Nowhere} /\ LedIn(t, q)[Len(q)] = Canonical(q)
           Bad == {q \in DOMAIN tree : ~ IsPrefix(path, q) /\ ~ Is(q, "link") /\ ~ Good(q)}
           Lens == {Len(q) : q \in Bad}
<1>1. \A q \in DOMAIN tree : q \in Paths /\ Len(q) \in Nat
  BY WorldIs, PathBasics
<1>2. <<>> \in DOMAIN t /\ \A q \in DOMAIN tree \ {<<>>} : Front(q) \in DOMAIN tree /\ tree[Front(q)].kind = "dir"
  BY DEF PackTypeOK, Tree
<1>3. Bad = {}
  <2>1. SUFFICES ASSUME Bad # {} PROVE FALSE
    OBVIOUS
  <2>2. Lens \subseteq Nat /\ Lens # {}
    BY <1>1, <2>1
  <2>3. PICK n \in Lens : \A k \in Lens : n <= k
    BY <2>2, LeastOf
  <2>4. PICK q \in Bad : Len(q) = n
    BY <2>3
  <2>5. q \in DOMAIN tree /\ q \in Paths /\ ~ IsPrefix(path, q) /\ ~ Is(q, "link") /\ ~ Good(q)
    BY <1>1, <2>4
  <2>6. CASE q = <<>>
    <3>1. Canonical(<<>>) = <<>>
      BY CanonicalTop
    <3>2. LedIn(t, <<>>)[0] = <<>> /\ Len(<<>>) = 0 /\ <<>> \in Paths
      <4>1. Len(<<>>) = 0
        OBVIOUS
      <4> QED BY <1>2, <2>5, <2>6, <4>1, LedInSteps
    <3> QED BY <2>5, <2>6, <3>1, <3>2
  <2>7. CASE q # <<>>
    <3> DEFINE f == Front(q)
               c == Last(q)
    <3>1. f \in Paths /\ Len(f) = Len(q) - 1 /\ q = Append(f, c) /\ c \in Nat
      BY <2>5, <2>7, FrontIs
    <3>2. f \in DOMAIN tree /\ tree[f].kind = "dir" /\ ~ IsPrefix(path, f)
      BY <1>2, <2>5, <2>7
    <3>3. Canonical(q) = IntoIn(tree, Canonical(f), c)
      BY <2>5, <2>7, CanonicalEnd, IntoByTree
    <3>4. LedIn(t, q)[Len(q)] = IntoIn(t, LedIn(t, f)[Len(f)], c)
      BY <1>2, <2>5, <2>7, CanonicalByTreeEnd
    <3> HIDE DEF f, c
    <3>5. Good(f)
      <4>1. SUFFICES ASSUME ~ Good(f) PROVE FALSE
        OBVIOUS
      <4>2. f \in Bad
        BY <3>2, <4>1 DEF Is
      <4>3. Len(f) \in Lens /\ Len(q) \in Nat
        BY <1>1, <2>5, <4>2
      <4> QED BY <2>3, <2>4, <3>1, <4>3
    <3>6. q \in DOMAIN t /\ t[q] = tree[q] /\ f \in DOMAIN t /\ t[f] = tree[f]
      BY <2>5, <3>1, <3>2
    <3>7. Nowhere \notin DOMAIN tree /\ Nowhere \notin DOMAIN t
      <4>1. DOMAIN t \subseteq Paths
        BY DEF PackTypeOK, Tree
      <4> QED BY <1>1, <4>1, NowhereNoPath
    <3>8. LandedIn(tree, q) = q /\ LandedIn(t, q) = q
      BY <2>5, <3>6 DEF LandedIn, HopIn, IsIn, Is
    <3>9. CASE Canonical(f) = Nowhere
      BY <2>5, <3>3, <3>4, <3>5, <3>7, <3>9 DEF IntoIn, IsIn
    <3>10. CASE Canonical(f) = f
      <4>1. IntoIn(tree, f, c) = IF tree[f].enters THEN q ELSE Nowhere
        BY <2>5, <3>1, <3>2, <3>8 DEF IntoIn, IsIn
      <4>2. IntoIn(t, f, c) = IF tree[f].enters THEN q ELSE Nowhere
        BY <3>1, <3>2, <3>6, <3>8 DEF IntoIn, IsIn
      <4> QED BY <2>5, <3>3, <3>4, <3>5, <3>10, <4>1, <4>2
    <3> QED BY <3>5, <3>9, <3>10
  <2> QED BY <2>6, <2>7
<1> HIDE DEF Good
<1>4. Good(p)
  BY <1>3
<1> QED BY <1>4, CanonicalByTree DEF Good

(* In the next state, too, what a path leads to is no link.                  *)
LEMMA CanonicalNoLinkNext ==
  ASSUME PackTypeOK', NEW p \in Paths
  PROVE  ~ Is(Canonical(p), "link")' /\ Canonical(p)' \in DOMAIN tree' \cup {Nowhere}
<1> DEFINE t == tree'
           r == LedIn(t, p)[Len(p)]
<1>1. <<>> \in DOMAIN t /\ DOMAIN t \subseteq Paths /\ t[<<>>].kind = "dir"
  BY DEF PackTypeOK, Tree
<1>2. Canonical(p)' = r
  BY CanonicalByTree
<1>3. Canonical(p)' \in DOMAIN t \cup {Nowhere}
  BY <1>1, CanonicalThere
<1>4. ~ IsIn(t, r, "link")
  <2>1. CASE p = <<>>
    <3>1. Len(<<>>) = 0
      OBVIOUS
    <3>2. r = <<>>
      BY <1>1, <2>1, <3>1, LedInSteps
    <3> QED BY <1>1, <3>2 DEF IsIn
  <2>2. CASE p # <<>>
    <3>1. r = IntoIn(t, LedIn(t, Front(p))[Len(Front(p))], Last(p))
      BY <1>1, <2>2, CanonicalByTreeEnd
    <3>2. \A d, c : ~ IsIn(t, IntoIn(t, d, c), "link")
      <4>1. Nowhere \notin DOMAIN t
        BY <1>1, NowhereNoPath
      <4> QED BY <4>1 DEF IntoIn, LandedIn, IsIn
    <3> QED BY <3>1, <3>2
  <2> QED BY <2>1, <2>2
<1> HIDE DEF r
<1> QED BY <1>2, <1>3, <1>4 DEF Is, IsIn

-------------------------------------------------------------------------------
(* Where the walk of a path named reaches what is beneath it.                *)
WayTo(k, r) == asked.paths[k].at \o Rest(Base(k), r)
Reached(k, r) == [at |-> WayTo(k, r), name |-> NameAt(k, r)]

LEMMA WalkedIs ==
  ASSUME PackTypeOK, NEW k \in Walked
  PROVE  /\ k \in DOMAIN asked.paths /\ k \in 1 .. Len(asked.paths) /\ Len(asked.paths) \in Nat
         /\ asked.paths[k].at \in Paths /\ Base(k) \in DOMAIN tree /\ Base(k) \in Paths
         /\ ~ Is(Base(k), "link") /\ Base(k) \in Beneath(k)
         /\ entry_name_for(asked.paths[k]) \in Seq(Int)
         /\ \A r \in Beneath(k) : r \in Paths /\ r \in DOMAIN tree /\ IsPrefix(Base(k), r)
<1>1. asked.paths \in Seq({p \in [at : Paths, dotted : BOOLEAN] : Named(p)})
  BY DEF PackTypeOK, Asks
<1>2. k \in DOMAIN asked.paths /\ k \in 1 .. Len(asked.paths) /\ Len(asked.paths) \in Nat /\ Base(k) # Nowhere
  BY <1>1 DEF Walked, Base
<1>3. asked.paths[k].at \in Paths
  BY <1>1, <1>2
<1>4. Base(k) \in DOMAIN tree /\ ~ Is(Base(k), "link")
  BY <1>2, <1>3, CanonicalIs, CanonicalNoLink DEF Base
<1>5. Base(k) \in Paths /\ DOMAIN tree \subseteq Paths
  BY <1>4, WorldIs
<1>6. entry_name_for(asked.paths[k]) \in Seq(Int)
  <2>1. entry_name_for(asked.paths[k]) \in Paths \cup {Nowhere}
    BY <1>2, EntryNameIs
  <2>2. Paths \subseteq Seq(Int)
    BY DEF Paths
  <2>3. Nowhere \in Seq(Int)
    <3>1. -1 \in Int
      OBVIOUS
    <3> QED BY <3>1 DEF Nowhere
  <2> QED BY <2>1, <2>2, <2>3
<1>7. Base(k) \in Beneath(k)
  BY <1>4, <1>5, PrefixSteps, PathBasics, PrefixIs DEF Beneath
<1>8. \A r \in Beneath(k) : r \in Paths /\ r \in DOMAIN tree /\ IsPrefix(Base(k), r)
  BY <1>5 DEF Beneath
<1> QED BY <1>2, <1>3, <1>4, <1>5, <1>6, <1>7, <1>8

LEMMA ReachTop ==
  ASSUME PackTypeOK, NEW k \in Walked
  PROVE  WayTo(k, Base(k)) = asked.paths[k].at /\ NameAt(k, Base(k)) = entry_name_for(asked.paths[k])
<1>1. /\ asked.paths[k].at \in Seq(Nat) /\ Base(k) \in Paths
      /\ entry_name_for(asked.paths[k]) \in Seq(Int)
  BY WalkedIs DEF Paths
<1>2. \A x \in Seq(Int) : x \o Rest(Base(k), Base(k)) = x
  BY <1>1, RestTop
<1>3. asked.paths[k].at \o Rest(Base(k), Base(k)) = asked.paths[k].at
  BY <1>1, RestTop
<1> QED BY <1>1, <1>2, <1>3 DEF WayTo, NameAt, Rest

LEMMA ReachEnd ==
  ASSUME PackTypeOK, NEW k \in Walked, NEW r \in Beneath(k), r # Base(k)
  PROVE  /\ Front(r) \in Beneath(k) /\ r # <<>> /\ Last(r) \in Nat /\ Is(Front(r), "dir")
         /\ WayTo(k, r) = Append(WayTo(k, Front(r)), Last(r))
         /\ NameAt(k, r) = Append(NameAt(k, Front(r)), Last(r))
<1>1. /\ asked.paths[k].at \in Paths /\ Base(k) \in Paths /\ r \in Paths /\ IsPrefix(Base(k), r)
      /\ r \in DOMAIN tree
      /\ entry_name_for(asked.paths[k]) \in Seq(Int)
  BY WalkedIs
<1>2. asked.paths[k].at \in Seq(Int)
  <2>1. Paths \subseteq Seq(Int)
    BY DEF Paths
  <2> QED BY <1>1, <2>1
<1>3. r # <<>> /\ IsPrefix(Base(k), Front(r)) /\ IsPrefix(Front(r), r) /\ Front(r) # r
  BY <1>1, PrefixSteps
<1>4. Front(r) \in Paths /\ Last(r) \in Nat
  BY <1>1, <1>3, FrontIs
<1>5. Front(r) \in DOMAIN tree /\ Is(Front(r), "dir")
  BY <1>1, <1>3, <1>4, UpTree
<1>6. \A x \in Seq(Int) : x \o Rest(Base(k), r) = Append(x \o Rest(Base(k), Front(r)), Last(r))
  BY <1>1, RestEnd
<1>7. WayTo(k, r) = Append(WayTo(k, Front(r)), Last(r))
  BY <1>2, <1>6 DEF WayTo
<1>8. NameAt(k, r) = Append(NameAt(k, Front(r)), Last(r))
  BY <1>1, <1>6 DEF NameAt, Rest
<1> QED BY <1>3, <1>4, <1>5, <1>7, <1>8 DEF Beneath

-------------------------------------------------------------------------------
(* What stands still, from one state to the next.                           *)

(* r can be stored, as far as the way to it goes, and the path it is reached *)
(* by leads to it.                                                          *)
Met(k, r) ==
  /\ Decodable(NameAt(k, r))
  /\ \A t \in Beneath(k) : IsPrefix(t, r) => ~ Barred(k, t) /\ (t # r => tree[t].lists)
  /\ ~ Is(r, "link") => Canonical(WayTo(k, r)) = r

Alike(item, k, q) ==
  /\ Met(k, q) /\ item.kind \in {"dir", "file", "link"} /\ item.kind = tree[q].kind
  /\ item.name = NameAt(k, q) /\ item.at = WayTo(k, q)
  /\ item.kind = "file" => item.size = Size(q)
  /\ item.kind = "link" => Decodable(item.to)
  /\ item.to = IF item.kind = "link" THEN tree[q].to ELSE <<>>

(* An item that says what is at q, or names why it cannot be stored.         *)
Lost(name, k, q) == \E t \in Stop(k, q) : name = Rendered(NameAt(k, t))
Covers(item, k, q) == (~ Shown(item) /\ Lost(item.name, k, q)) \/ Alike(item, k, q)

Framed(k, q) ==
  /\ k \in Walked /\ q \in Beneath(k) /\ Steady(k, q)
  /\ asked' = asked /\ target' = target
  /\ Base(k)' = Base(k) /\ entry_name_for(asked.paths[k])' = entry_name_for(asked.paths[k])
  /\ \A t \in Paths : IsPrefix(t, q) =>
       (t \in DOMAIN tree' <=> t \in DOMAIN tree) /\ (t \in DOMAIN tree => tree'[t] = tree[t])
  /\ Is(q, "file") => files'[tree[q].ino] = files[tree[q].ino]
  /\ \A t \in Beneath(k) : IsPrefix(t, q) /\ ~ Is(t, "link") => Canonical(WayTo(k, t))' = Canonical(WayTo(k, t))

LEMMA FrameGives ==
  ASSUME PackTypeOK, PackTypeOK', NEW k, NEW q, Framed(k, q)
  PROVE  /\ \A t : NameAt(k, t)' = NameAt(k, t) /\ WayTo(k, t)' = WayTo(k, t)
         /\ Stop(k, q)' = Stop(k, q)
         /\ \A r \in Beneath(k) : IsPrefix(r, q) => r \in Beneath(k)' /\ Met(k, r)' = Met(k, r)
                                   /\ tree'[r] = tree[r] /\ \A kind : Is(r, kind)' = Is(r, kind)
         /\ \A item : Alike(item, k, q)' = Alike(item, k, q) /\ Covers(item, k, q)' = Covers(item, k, q)
         /\ ContentAt(q)' = ContentAt(q) /\ tree'[q] = tree[q] /\ Readable(q)' = Readable(q)
<1>1. /\ k \in Walked /\ q \in Beneath(k) /\ asked' = asked /\ target' = target
      /\ Base(k)' = Base(k) /\ entry_name_for(asked.paths[k])' = entry_name_for(asked.paths[k])
      /\ \A t \in Paths : IsPrefix(t, q) =>
           (t \in DOMAIN tree' <=> t \in DOMAIN tree) /\ (t \in DOMAIN tree => tree'[t] = tree[t])
      /\ Is(q, "file") => files'[tree[q].ino] = files[tree[q].ino]
      /\ \A t \in Beneath(k) : IsPrefix(t, q) /\ ~ Is(t, "link") => Canonical(WayTo(k, t))' = Canonical(WayTo(k, t))
  BY DEF Framed
<1>2. \A t : NameAt(k, t)' = NameAt(k, t) /\ WayTo(k, t)' = WayTo(k, t)
  BY <1>1 DEF NameAt, WayTo
<1>3. q \in Paths /\ Base(k) \in Paths /\ q \in DOMAIN tree /\ DOMAIN tree \subseteq Paths /\ IsPrefix(q, q)
      /\ DOMAIN tree' \subseteq Paths
  <2>1. DOMAIN tree' \subseteq Paths
    BY DEF PackTypeOK, Tree
  <2> QED BY <1>1, <2>1, WalkedIs, WorldIs, PrefixSelf
<1>4. \A t : IsPrefix(t, q) => (t \in Beneath(k)' <=> t \in Beneath(k))
  BY <1>1, <1>3 DEF Beneath
<1>5. \A t \in Beneath(k) : t \in Paths /\ (t # Base(k) => Front(t) \in Beneath(k))
  BY <1>1, WalkedIs, ReachEnd
<1>6. \A t \in Beneath(k) : IsPrefix(t, q) => tree'[t] = tree[t] /\ (\A kind : Is(t, kind)' = Is(t, kind))
                                              /\ Searchable(t)' = Searchable(t)
  <2>1. ASSUME NEW t \in Beneath(k), IsPrefix(t, q)
        PROVE  tree'[t] = tree[t] /\ (\A kind : Is(t, kind)' = Is(t, kind)) /\ Searchable(t)' = Searchable(t)
    <3>1. t \in Paths /\ t \in DOMAIN tree
      BY <1>1, WalkedIs
    <3>2. t \in DOMAIN tree' /\ tree'[t] = tree[t]
      BY <1>1, <2>1, <3>1
    <3> QED BY <3>1, <3>2 DEF Is, Searchable
  <2> QED BY <2>1
<1>7. \A t \in Beneath(k) : IsPrefix(t, q) /\ t # Base(k) => IsPrefix(Front(t), q)
  <2>1. ASSUME NEW t \in Beneath(k), IsPrefix(t, q), t # Base(k) PROVE IsPrefix(Front(t), q)
    <3>1. t # <<>> /\ t \in Paths /\ Front(t) \in Paths
      <4>1. Front(t) \in Beneath(k) /\ t # <<>>
        BY <1>1, <2>1, ReachEnd
      <4> QED BY <1>5, <4>1
    <3>2. IsPrefix(Front(t), t)
      BY <3>1, PrefixSelf, PrefixSteps
    <3> QED BY <1>3, <2>1, <3>1, <3>2, PrefixSteps
  <2> QED BY <2>1
<1>8. \A t \in Beneath(k) : IsPrefix(t, q) => Barred(k, t)' = Barred(k, t)
  <2>1. ASSUME NEW t \in Beneath(k), IsPrefix(t, q) PROVE Barred(k, t)' = Barred(k, t)
    <3>1. CASE t = Base(k)
      BY <1>1, <3>1 DEF Barred
    <3>2. CASE t # Base(k)
      <4>1. Searchable(Front(t))' = Searchable(Front(t))
        BY <1>5, <1>6, <1>7, <2>1, <3>2
      <4> QED BY <1>1, <4>1 DEF Barred, Decodable
    <3> QED BY <3>1, <3>2
  <2> QED BY <2>1
<1>9. Readable(q)' = Readable(q) /\ Unstorable(k, q)' = Unstorable(k, q)
  <2>1. Is(q, "file")' = Is(q, "file") /\ tree'[q] = tree[q] /\ Barred(k, q)' = Barred(k, q)
        /\ (\A kind : Is(q, kind)' = Is(q, kind))
    BY <1>1, <1>3, <1>6, <1>8
  <2>2. Readable(q)' = Readable(q)
    BY <1>1, <2>1 DEF Readable
  <2> QED BY <1>1, <2>1, <2>2 DEF Unstorable, Decodable
<1>10. Stop(k, q)' = Stop(k, q)
  <2>1. ASSUME NEW t PROVE t \in Stop(k, q)' <=> t \in Stop(k, q)
    <3>1. t \in Stop(k, q) <=> t \in Beneath(k) /\ IsPrefix(t, q) /\ (IF t = q THEN Unstorable(k, t)
                                                         ELSE Barred(k, t) \/ ~ tree[t].lists)
      BY DEF Stop
    <3>2. t \in Stop(k, q)' <=> t \in Beneath(k)' /\ IsPrefix(t, q) /\ (IF t = q THEN Unstorable(k, t)'
                                                         ELSE Barred(k, t)' \/ ~ tree'[t].lists)
      BY DEF Stop
    <3>3. CASE t \in Beneath(k) /\ IsPrefix(t, q)
      BY <1>4, <1>6, <1>8, <1>9, <3>1, <3>2, <3>3
    <3>4. CASE ~ (t \in Beneath(k) /\ IsPrefix(t, q))
      BY <1>4, <3>1, <3>2, <3>4
    <3> QED BY <3>3, <3>4
  <2> QED BY <2>1
<1>11. ASSUME NEW r \in Beneath(k), IsPrefix(r, q) PROVE Met(k, r)' = Met(k, r)
  <2>1. Decodable(NameAt(k, r))' = Decodable(NameAt(k, r))
    BY <1>2 DEF Decodable
  <2>2. \A t \in Beneath(k) : IsPrefix(t, r) => IsPrefix(t, q)
    BY <1>3, <1>5, <1>11, PrefixSteps
  <2>3. (\A t \in Beneath(k)' : IsPrefix(t, r) => ~ Barred(k, t)' /\ (t # r => tree'[t].lists))
         <=> (\A t \in Beneath(k) : IsPrefix(t, r) => ~ Barred(k, t) /\ (t # r => tree[t].lists))
    <3>1. \A t : IsPrefix(t, r) => (t \in Beneath(k)' <=> t \in Beneath(k))
      <4>1. ASSUME NEW t, IsPrefix(t, r), t \in Beneath(k)' PROVE t \in Beneath(k)
        <5>1. t \in Paths /\ r \in Paths
          BY <1>3, <1>5, <1>11, <4>1 DEF Beneath
        <5>2. IsPrefix(t, q)
          BY <1>3, <1>11, <4>1, <5>1, PrefixSteps
        <5> QED BY <1>4, <4>1, <5>2
      <4> QED BY <1>4, <2>2, <4>1
    <3> QED BY <1>6, <1>8, <2>2, <3>1
  <2>4. Is(r, "link")' = Is(r, "link") /\ (~ Is(r, "link") => Canonical(WayTo(k, r))' = Canonical(WayTo(k, r)))
    BY <1>1, <1>6, <1>11
  <2> QED BY <2>1, <2>3, <2>4 DEF Met
<1>12. /\ tree'[q] = tree[q] /\ (\A kind : Is(q, kind)' = Is(q, kind)) /\ Met(k, q)' = Met(k, q)
       /\ (Is(q, "file") => Size(q)' = Size(q)) /\ (Is(q, "file") <=> tree[q].kind = "file")
  <2>1. tree'[q] = tree[q] /\ (\A kind : Is(q, kind)' = Is(q, kind)) /\ Met(k, q)' = Met(k, q)
    BY <1>1, <1>3, <1>6, <1>11
  <2> QED BY <1>1, <1>3, <2>1 DEF Size, Is
<1>13. ContentAt(q)' = ContentAt(q)
  BY <1>1, <1>12 DEF ContentAt
<1>14. \A item : Alike(item, k, q)' = Alike(item, k, q)
  BY <1>2, <1>12 DEF Alike, Decodable
<1>15. \A name : Lost(name, k, q)' = Lost(name, k, q)
  BY <1>2, <1>10 DEF Lost, Rendered
<1>16. \A item : Covers(item, k, q)' = Covers(item, k, q)
  BY <1>14, <1>15 DEF Covers, Shown
<1>17. \A r \in Beneath(k) : IsPrefix(r, q) => r \in Beneath(k)' /\ Met(k, r)' = Met(k, r)
                                   /\ tree'[r] = tree[r] /\ \A kind : Is(r, kind)' = Is(r, kind)
  BY <1>4, <1>6, <1>11
<1> QED BY <1>2, <1>9, <1>10, <1>12, <1>13, <1>14, <1>16, <1>17

-------------------------------------------------------------------------------
(* What stands still after a step stood still before it, and the step left   *)
(* it and the way to it alone.                                              *)

(* Until the archive is created nothing is written through.                  *)
OpenedLate == stage \notin Late => opened = NoInode

LEMMA OpenedInit == ASSUME PackInit PROVE OpenedLate
BY DEF PackInit, OpenedLate

LEMMA OpenedStep == ASSUME OpenedLate, [PackNext]_packVars PROVE OpenedLate'
<1>1. CASE Early
  BY <1>1, EarlySteps DEF OpenedLate
<1>2. CASE Create
  <2>1. stage \notin Late /\ (stage' = "writing" \/ opened' = NoInode)
    BY <1>2 DEF Create, Late
  <2> QED BY <2>1 DEF OpenedLate, Late
<1>3. ASSUME Record \/ Open \/ Read \/ Stored \/ Finish PROVE OpenedLate'
  <2>1. stage' \in Late
    BY <1>3 DEF Record, Open, Read, Stored, Finish, Late
  <2> QED BY <2>1 DEF OpenedLate
<1>4. ASSUME Changed \/ UNCHANGED packVars PROVE OpenedLate'
  <2>1. stage' = stage /\ opened' = opened
    BY <1>4 DEF Changed, packVars
  <2> QED BY <2>1 DEF OpenedLate
<1> QED BY <1>1, <1>2, <1>3, <1>4, StepIs

LEMMA FrameAlone ==
  ASSUME PackTypeOK, PackTypeOK', NEW k \in Walked', NEW q \in Beneath(k)', Steady(k, q)',
         tree' = tree, changes' = changes, asked' = asked, target' = target,
         \/ opened' = opened /\ files' = files
         \/ /\ opened = NoInode
            /\ opened' # NoInode => \A i \in DOMAIN files : i # opened' => files'[i] = files[i]
            /\ opened' = NoInode => files' = files
  PROVE  Framed(k, q)
<1>1. /\ \A p : Canonical(p)' = Canonical(p)
      /\ \A p : entry_name_for(p)' = entry_name_for(p)
      /\ \A r, kind : Is(r, kind)' = Is(r, kind)
  BY SameTree
<1>2. Base(k)' = Base(k) /\ k \in Walked
  BY <1>1 DEF Base, Walked
<1>3. q \in Beneath(k) /\ q \in DOMAIN tree
  BY <1>2 DEF Beneath
<1>4. Is(q, "file") => tree[q].ino \in DOMAIN files /\ tree[q].ino # NoInode
  BY <1>3, WorldIs DEF Is, NoInode
<1>5. Is(q, "file") => tree[q].ino # opened'
  BY <1>1 DEF Steady
<1>6. Steady(k, q)
  <2>1. Is(q, "file") => tree[q].ino # opened
    BY <1>4, <1>5
  <2> QED BY <1>1, <1>2, <2>1 DEF Steady
<1>7. Is(q, "file") => files'[tree[q].ino] = files[tree[q].ino]
  BY <1>4, <1>5
<1>8. \A t : Canonical(WayTo(k, t))' = Canonical(WayTo(k, t))
  <2>1. \A t : WayTo(k, t)' = WayTo(k, t)
    BY <1>2 DEF WayTo
  <2>2. ASSUME NEW t PROVE Canonical(WayTo(k, t))' = Canonical(WayTo(k, t))
    <3>1. Canonical(WayTo(k, t))' = LedIn(tree', WayTo(k, t)')[Len(WayTo(k, t)')]
      BY CanonicalByTree DEF Canonical, LedIn, Into, IntoIn, Searchable, Landed, LandedIn, Hop, HopIn, Is, IsIn
    <3>2. Canonical(WayTo(k, t)) = LedIn(tree, WayTo(k, t))[Len(WayTo(k, t))]
      BY CanonicalByTree
    <3> QED BY <2>1, <3>1, <3>2
  <2> QED BY <2>2
<1> QED BY <1>1, <1>2, <1>3, <1>6, <1>7, <1>8 DEF Framed

LEMMA FrameChanged ==
  ASSUME PackTypeOK, PackTypeOK', Changed, NEW k \in Walked', NEW q \in Beneath(k)', Steady(k, q)'
  PROVE  Framed(k, q)
<1>1. PICK c \in pending :
           /\ c \in Changing(DOMAIN files)
           /\ UNCHANGED <<asked, target, opened, stage, turn, walking, planning, told, writing>>
           /\ ~ Ended
           /\ \/ /\ c.what = "path" /\ c.path \in Paths \ {<<>>}
                 /\ c.node \in Nodes(DOMAIN files) \cup [kind : {"none"}]
                 /\ Is(Front(c.path), "dir")
                 /\ tree' = Put(c.path, c.node)
                 /\ changes' = changes \cup {c} /\ files' = files
              \/ /\ c.what = "file" /\ c.ino \in DOMAIN files /\ c.file \in FileStates
                 /\ files' = [files EXCEPT ![c.ino] = c.file]
                 /\ changes' = changes \cup {[c EXCEPT !.was = files[c.ino].bytes]}
                 /\ [c EXCEPT !.was = files[c.ino].bytes].what = "file"
                 /\ [c EXCEPT !.was = files[c.ino].bytes].ino = c.ino
                 /\ [c EXCEPT !.was = files[c.ino].bytes].was = files[c.ino].bytes
                 /\ tree' = tree
  BY ChangeIs
<1>2. asked' = asked /\ target' = target /\ opened' = opened
  BY <1>1
<1>3. CASE /\ c.what = "file" /\ c.ino \in DOMAIN files /\ c.file \in FileStates
           /\ files' = [files EXCEPT ![c.ino] = c.file]
           /\ changes' = changes \cup {[c EXCEPT !.was = files[c.ino].bytes]}
           /\ [c EXCEPT !.was = files[c.ino].bytes].what = "file"
           /\ [c EXCEPT !.was = files[c.ino].bytes].ino = c.ino
           /\ tree' = tree
  <2> DEFINE d == [c EXCEPT !.was = files[c.ino].bytes]
  <2>1. d.what = "file" /\ d.ino = c.ino /\ changes' = changes \cup {d} /\ tree' = tree
        /\ files' = [files EXCEPT ![c.ino] = c.file]
    BY <1>3
  <2> HIDE DEF d
  <2>2. /\ \A p : Canonical(p)' = Canonical(p)
        /\ \A p : entry_name_for(p)' = entry_name_for(p)
        /\ \A r, kind : Is(r, kind)' = Is(r, kind)
    BY <1>2, <2>1, SameTree
  <2>3. Base(k)' = Base(k) /\ k \in Walked
    BY <1>2, <2>2 DEF Base, Walked
  <2>4. q \in Beneath(k) /\ q \in DOMAIN tree
    BY <2>1, <2>3 DEF Beneath
  <2>5. Is(q, "file") => tree[q].ino # c.ino
    BY <2>1, <2>2 DEF Steady
  <2>6. Steady(k, q)
    BY <1>2, <2>1, <2>2, <2>3 DEF Steady
  <2>7. Is(q, "file") => files'[tree[q].ino] = files[tree[q].ino]
    <3>1. Is(q, "file") => tree[q].ino \in DOMAIN files
      BY <2>4, WorldIs DEF Is
    <3> QED BY <2>1, <2>5, <3>1
  <2>8. \A t : Canonical(WayTo(k, t))' = Canonical(WayTo(k, t))
    <3>1. \A t : WayTo(k, t)' = WayTo(k, t)
      BY <1>2, <2>3 DEF WayTo
    <3>2. ASSUME NEW t PROVE Canonical(WayTo(k, t))' = Canonical(WayTo(k, t))
      <4>1. Canonical(WayTo(k, t))' = LedIn(tree', WayTo(k, t)')[Len(WayTo(k, t)')]
        BY CanonicalByTree DEF Canonical, LedIn, Into, IntoIn, Searchable, Landed, LandedIn, Hop, HopIn, Is, IsIn
      <4>2. Canonical(WayTo(k, t)) = LedIn(tree, WayTo(k, t))[Len(WayTo(k, t))]
        BY CanonicalByTree
      <4> QED BY <2>1, <3>1, <4>1, <4>2
    <3> QED BY <3>2
  <2> QED BY <1>2, <2>1, <2>2, <2>3, <2>4, <2>6, <2>7, <2>8 DEF Framed
<1>4. CASE /\ c.what = "path" /\ c.path \in Paths \ {<<>>}
           /\ c.node \in Nodes(DOMAIN files) \cup [kind : {"none"}]
           /\ tree' = Put(c.path, c.node)
           /\ changes' = changes \cup {c} /\ files' = files
  <2> DEFINE path == c.path
  <2>0. asked.paths[k].at \in Paths
    <3>1. k \in DOMAIN asked.paths
      BY <1>2 DEF Walked
    <3>2. asked.paths \in Seq({p \in [at : Paths, dotted : BOOLEAN] : Named(p)})
      BY DEF PackTypeOK, Asks
    <3> QED BY <3>1, <3>2
  <2>P. PICK P \in Paths : P = asked.paths[k].at
    BY <2>0
  <2>1. k \in DOMAIN asked.paths /\ P \in Paths /\ q \in DOMAIN tree' /\ IsPrefix(Base(k)', q) /\ q \in Paths
        /\ Base(k)' # Nowhere
    <3>1. k \in DOMAIN asked.paths /\ q \in DOMAIN tree' /\ IsPrefix(Base(k)', q) /\ Base(k)' # Nowhere
      BY <1>2 DEF Walked, Beneath, Base
    <3>4. DOMAIN tree' \subseteq Paths
      BY DEF PackTypeOK, Tree
    <3> QED BY <3>1, <3>4
  <2>2. P = Base(k)' /\ ~ IsPrefix(path, q)
    BY <1>2, <1>4, <2>P DEF Steady
  <2>3. Base(k)' = Canonical(P)' /\ Base(k) = Canonical(P)
    BY <1>2, <2>P, CanonicalByTree DEF Base
  <2>4. /\ \A r : r \in DOMAIN tree' <=>
               \/ r \in DOMAIN tree /\ ~ IsPrefix(path, r)
               \/ r = path /\ c.node.kind # "none"
        /\ \A r \in DOMAIN tree' : r # path => tree'[r] = tree[r]
    BY <1>4, PutIs
  <2>5. path \in Paths /\ IsPrefix(path, path) /\ path # <<>>
    BY <1>4, PrefixSelf
  <2> HIDE DEF path
  <2>6. \A r : ~ IsPrefix(path, r) =>
           (r \in DOMAIN tree' <=> r \in DOMAIN tree) /\ (r \in DOMAIN tree => tree'[r] = tree[r])
    BY <2>4, <2>5
  <2>7. \A t \in Paths : IsPrefix(t, q) => ~ IsPrefix(path, t)
    <3>1. ASSUME NEW t \in Paths, IsPrefix(t, q), IsPrefix(path, t) PROVE FALSE
      BY <2>1, <2>2, <2>5, <3>1, PrefixSteps
    <3> QED BY <3>1
  <2>8. q \in DOMAIN tree /\ tree'[q] = tree[q]
    <3>1. ~ IsPrefix(path, q)
      BY <2>2
    <3> QED BY <2>1, <2>6, <3>1
  <2>9. \A r \in Paths : r # <<>> /\ ~ IsPrefix(path, r) => ~ IsPrefix(path, Front(r))
    <3>1. ASSUME NEW r \in Paths, r # <<>>, IsPrefix(path, Front(r)) PROVE IsPrefix(path, r)
      <4>1. Front(r) \in Paths /\ IsPrefix(Front(r), r)
        BY <3>1, FrontIs, PrefixSelf, PrefixSteps
      <4> QED BY <2>5, <3>1, <4>1, PrefixSteps
    <3> QED BY <3>1
  <2> DEFINE t0 == tree'
  <2>10. \A r \in DOMAIN tree : r \in Paths /\ ~ IsPrefix(path, r) => r \in DOMAIN t0 /\ t0[r] = tree[r]
    BY <2>6
  <2>11. ASSUME NEW t \in DOMAIN tree, IsPrefix(t, q), ~ Is(t, "link")
         PROVE  Canonical(t) \in {t, Nowhere} /\ Canonical(t)' = Canonical(t)
    <3>1. ~ IsPrefix(path, t)
      BY <2>7, <2>11, WorldIs
    <3> HIDE DEF t0
    <3>2. tree' = t0
      BY DEF t0
    <3> QED BY <2>9, <2>10, <2>11, <3>1, <3>2, OwnPath
  <2>12. Base(k) = P /\ P \in DOMAIN tree /\ ~ Is(P, "link")
    <3>1. IsPrefix(P, q)
      BY <2>1, <2>2
    <3>2. P \in DOMAIN tree' /\ ~ Is(P, "link")'
      <4>1. ~ Is(Canonical(P), "link")' /\ Canonical(P)' \in DOMAIN tree' \cup {Nowhere}
        BY <2>1, CanonicalNoLinkNext
      <4>2. Canonical(P)' = P
        BY <2>2, <2>3
      <4> QED BY <2>1, <2>2, <4>1, <4>2 DEF Is
    <3>3. ~ IsPrefix(path, P)
      BY <2>1, <2>7, <3>1
    <3>4. P \in DOMAIN tree /\ ~ Is(P, "link")
      BY <2>6, <3>2, <3>3 DEF Is
    <3> QED BY <2>2, <2>3, <2>11, <3>1, <3>4
  <2>13. Base(k)' = Base(k) /\ k \in Walked
    <3>1. P # Nowhere
      BY <2>1, NowhereNoPath
    <3> QED BY <2>1, <2>2, <2>P, <2>12, <3>1 DEF Walked, Base
  <2>14. q \in Beneath(k)
    BY <2>1, <2>8, <2>13 DEF Beneath
  <2>15. Steady(k, q)
    <3>1. Is(q, "file")' = Is(q, "file")
      BY <2>1, <2>8 DEF Is
    <3> QED BY <1>2, <1>4, <2>8, <2>13, <3>1 DEF Steady
  <2>16. entry_name_for(asked.paths[k])' = entry_name_for(asked.paths[k])
    BY <1>2, <2>13 DEF entry_name_for, Base
  <2>17. ASSUME NEW t \in Beneath(k), IsPrefix(t, q), ~ Is(t, "link")
         PROVE  Canonical(WayTo(k, t))' = Canonical(WayTo(k, t))
    <3>1. WayTo(k, t) = t /\ t \in DOMAIN tree
      <4>1. t \in Paths /\ IsPrefix(P, t) /\ t \in DOMAIN tree
        BY <2>12, <2>13, <2>17, WalkedIs
      <4>2. P \o Rest(P, t) = t
        BY <2>1, <4>1, RestWhole
      <4> QED BY <2>P, <2>12, <4>1, <4>2 DEF WayTo
    <3>2. WayTo(k, t)' = WayTo(k, t)
      BY <1>2, <2>13 DEF WayTo
    <3>3. Canonical(WayTo(k, t))' = LedIn(tree', WayTo(k, t)')[Len(WayTo(k, t)')]
      BY CanonicalByTree DEF Canonical, LedIn, Into, IntoIn, Searchable, Landed, LandedIn, Hop, HopIn, Is, IsIn
    <3>4. Canonical(t)' = LedIn(tree', t)[Len(t)]
      BY CanonicalByTree
    <3>5. Canonical(WayTo(k, t))' = Canonical(t)'
      BY <3>1, <3>2, <3>3, <3>4
    <3> QED BY <2>11, <2>17, <3>1, <3>5
  <2> QED BY <1>2, <1>4, <2>6, <2>7, <2>13, <2>14, <2>15, <2>16, <2>17 DEF Framed
<1> QED BY <1>1, <1>3, <1>4

LEMMA FrameStep ==
  ASSUME PackTypeOK, PackTypeOK', OpenedLate, [PackNext]_packVars,
         NEW k \in Walked', NEW q \in Beneath(k)', Steady(k, q)'
  PROVE  Framed(k, q)
<1>1. CASE Changed
  BY <1>1, FrameChanged
<1>2. CASE Early
  <2>1. tree' = tree /\ changes' = changes /\ asked' = asked /\ target' = target /\ opened' = opened /\ files' = files
    BY <1>2, EarlySteps
  <2> QED BY <2>1, FrameAlone
<1>3. ASSUME Record \/ Open \/ Read \/ Stored \/ Finish \/ UNCHANGED packVars PROVE Framed(k, q)
  <2>1. tree' = tree /\ changes' = changes /\ asked' = asked /\ target' = target /\ opened' = opened /\ files' = files
    BY <1>3 DEF Record, Open, Read, Stored, Finish, packVars, world
  <2> QED BY <2>1, FrameAlone
<1>4. CASE Create
  <2>1. tree' = tree /\ changes' = changes /\ asked' = asked /\ target' = target /\ stage = "naming"
    BY <1>4 DEF Create
  <2>6. /\ files' = IF stage' = "writing" /\ Through
                    THEN [files EXCEPT ![tree[Canonical(asked.dst)].ino].bytes = <<>>] ELSE files
        /\ opened' = IF stage' = "writing" /\ Through THEN tree[Canonical(asked.dst)].ino ELSE NoInode
    BY <1>4 DEF Create
  <2>2. opened = NoInode
    BY <2>1 DEF OpenedLate, Late
  <2>3. Through => tree[Canonical(asked.dst)].ino \in DOMAIN files /\ tree[Canonical(asked.dst)].ino # NoInode
    BY WorldIs DEF Through, Is, NoInode
  <2>7. files \in [DOMAIN files -> FileStates]
    BY DEF PackTypeOK
  <2>4. opened' # NoInode => \A i \in DOMAIN files : i # opened' => files'[i] = files[i]
    BY <2>6, <2>7
  <2>5. opened' = NoInode => files' = files
    BY <2>3, <2>6
  <2> QED BY <2>1, <2>2, <2>4, <2>5, FrameAlone
<1> QED BY <1>1, <1>2, <1>3, <1>4, StepIs

-------------------------------------------------------------------------------
(* Nothing that stood still is forgotten.                                   *)

(* The items of the plan still to be written.                                *)
Ahead ==
  IF stage = "payload" THEN turn + 2 .. Len(plan)
  ELSE IF stage \in Late THEN turn + 1 .. Len(plan) ELSE 1 .. Len(plan)
Held(item, k, q) == Covers(item, k, q) /\ (Shown(item) /\ Is(q, "file") => q # target)

Reading(k, q) ==
  /\ stage = "payload" /\ Is(q, "file") /\ Stop(k, q) = {}
  /\ AtHand.name = NameAt(k, q) /\ reader.ino = tree[q].ino
  /\ reader.at = Len(reader.content) /\ reader.at + reader.remaining = Size(q)
  /\ \A n \in 1 .. reader.at : reader.content[n] = files[tree[q].ino].bytes[n]

(* What was at q is named, stored, or in hand...                             *)
Settled(k, q) ==
  \/ \E t \in Stop(k, q) : Rendered(NameAt(k, t)) \in told
  \/ Stop(k, q) = {} /\ Kept(k, q)
  \/ \E item \in Range(found) : Covers(item, k, q)
  \/ \E i \in Ahead : Held(plan[i], k, q)
  \/ Reading(k, q)

(* ... or the walk is still to come by it.                                   *)
Due(k, q, r) ==
  /\ r \in Beneath(k) /\ r # Base(k) /\ IsPrefix(r, q)
  /\ Met(k, Front(r)) /\ tree[Front(r)].lists
ToVisit(k, q, r) == Due(k, q, r) /\ Reached(k, r) \in Range(stack)
ToList(k, q, r) ==
  stage = "listing" /\ r \in Beneath(k) /\ IsPrefix(r, q) /\ r # q /\ here = Reached(k, r) /\ Met(k, r)
Coming(k, q) ==
  \/ Settled(k, q)
  \/ stage = "root" /\ here = Reached(k, Base(k)) /\ Decodable(here.name)
  \/ \E r : ToVisit(k, q, r)
  \/ \E r : ToList(k, q, r)
  \/ stage = "linking" /\ here = Reached(k, q) /\ Due(k, q, q) /\ Met(k, q) /\ Is(q, "link")

KeptAt(k, q) ==
  /\ stage \in Late \/ k <= turn => Settled(k, q)
  /\ OnWalk /\ k = turn + 1 => Coming(k, q)
KeptInv ==
  stage \notin {"refused", "failed", "waiting"} =>
    \A k \in Walked : \A q \in Beneath(k) : Steady(k, q) => KeptAt(k, q)

LEMMA SettledParts ==
  ASSUME PackTypeOK, PackTypeOK', NEW k, NEW q, Framed(k, q)
  PROVE  /\ \A t \in Stop(k, q) : Rendered(NameAt(k, t)) \in told' => Settled(k, q)'
         /\ Stop(k, q) = {} /\ Entry(NameAt(k, q), tree[q].kind, ContentAt(q)) \in Range(stored') => Settled(k, q)'
         /\ \A item : Covers(item, k, q) /\ item \in Range(found') => Settled(k, q)'
         /\ \A i, item : Held(item, k, q) /\ i \in Ahead' /\ plan'[i] = item => Settled(k, q)'
         /\ Reading(k, q) /\ stage' = stage /\ AtHand' = AtHand /\ reader' = reader => Settled(k, q)'
<1>1. /\ \A t : NameAt(k, t)' = NameAt(k, t) /\ WayTo(k, t)' = WayTo(k, t)
      /\ Stop(k, q)' = Stop(k, q)
      /\ \A item : Alike(item, k, q)' = Alike(item, k, q) /\ Covers(item, k, q)' = Covers(item, k, q)
      /\ ContentAt(q)' = ContentAt(q) /\ tree'[q] = tree[q] /\ Readable(q)' = Readable(q)
  BY FrameGives
<1>2. target' = target /\ q \in DOMAIN tree /\ q \in DOMAIN tree'
      /\ (Is(q, "file") => files'[tree[q].ino] = files[tree[q].ino])
  <2>1. k \in Walked /\ q \in Beneath(k)
    BY DEF Framed
  <2>2. q \in Paths /\ q \in DOMAIN tree /\ IsPrefix(q, q)
    BY <2>1, WalkedIs, PrefixSelf
  <2> QED BY <2>2 DEF Framed
<1>3. Is(q, "file")' = Is(q, "file")
  BY <1>1, <1>2 DEF Is
<1>4. ASSUME NEW t \in Stop(k, q), Rendered(NameAt(k, t)) \in told' PROVE Settled(k, q)'
  <2>1. Rendered(NameAt(k, t))' = Rendered(NameAt(k, t))
    BY <1>1 DEF Rendered
  <2> QED BY <1>1, <1>4, <2>1 DEF Settled
<1>5. ASSUME Stop(k, q) = {}, Entry(NameAt(k, q), tree[q].kind, ContentAt(q)) \in Range(stored') PROVE Settled(k, q)'
  <2>1. Kept(k, q)' <=> Entry(NameAt(k, q)', tree'[q].kind, ContentAt(q)') \in Range(stored')
    BY DEF Kept
  <2> QED BY <1>1, <1>5, <2>1 DEF Settled
<1>6. ASSUME NEW item, Covers(item, k, q), item \in Range(found') PROVE Settled(k, q)'
  BY <1>1, <1>6 DEF Settled
<1>7. ASSUME NEW i, NEW item, Held(item, k, q), i \in Ahead', plan'[i] = item PROVE Settled(k, q)'
  <2>1. PICK e : e = item
    OBVIOUS
  <2>2. Held(e, k, q)'
    BY <1>1, <1>2, <1>3, <1>7, <2>1 DEF Held, Shown
  <2>3. Held(plan[i], k, q)'
    BY <1>7, <2>1, <2>2 DEF Held, Covers, Alike, Lost, Shown
  <2> QED BY <1>7, <2>3 DEF Settled
<1>8. ASSUME Reading(k, q), stage' = stage, AtHand' = AtHand, reader' = reader PROVE Settled(k, q)'
  <2>1. Size(q)' = Size(q)
    BY <1>1, <1>2, <1>8 DEF Size, Reading
  <2>2. Reading(k, q)'
    BY <1>1, <1>2, <1>3, <1>8, <2>1 DEF Reading
  <2> QED BY <2>2 DEF Settled
<1> QED BY <1>4, <1>5, <1>6, <1>7, <1>8

LEMMA ComingParts ==
  ASSUME PackTypeOK, PackTypeOK', NEW k, NEW q, Framed(k, q)
  PROVE  /\ \A r : Due(k, q, r) /\ Reached(k, r) \in Range(stack') => Coming(k, q)'
         /\ \A r \in Beneath(k) : Met(k, r) /\ IsPrefix(r, q) /\ r # q /\ stage' = "listing"
                                  /\ here' = Reached(k, r) => Coming(k, q)'
         /\ stage' = "linking" /\ here' = Reached(k, q) /\ Due(k, q, q) /\ Met(k, q) /\ Is(q, "link") => Coming(k, q)'
         /\ stage' = "root" /\ here' = Reached(k, Base(k)) /\ Decodable(here'.name) => Coming(k, q)'
         /\ Settled(k, q)' => Coming(k, q)'
<1>1. /\ \A t : NameAt(k, t)' = NameAt(k, t) /\ WayTo(k, t)' = WayTo(k, t)
      /\ \A r \in Beneath(k) : IsPrefix(r, q) => r \in Beneath(k)' /\ Met(k, r)' = Met(k, r)
                                   /\ tree'[r] = tree[r] /\ \A kind : Is(r, kind)' = Is(r, kind)
  BY FrameGives
<1>2. k \in Walked /\ q \in Beneath(k) /\ Base(k)' = Base(k)
  BY DEF Framed
<1>3. q \in Paths /\ IsPrefix(q, q) /\ \A r \in Beneath(k) : r \in Paths
  BY <1>2, WalkedIs, PrefixSelf
<1>4. \A r : Reached(k, r)' = Reached(k, r)
  BY <1>1 DEF Reached
<1>5. ASSUME NEW r, Due(k, q, r) PROVE Due(k, q, r)'
  <2>1. r \in Beneath(k) /\ r # Base(k) /\ IsPrefix(r, q) /\ Met(k, Front(r)) /\ tree[Front(r)].lists
    BY <1>5 DEF Due
  <2>2. Front(r) \in Beneath(k) /\ r # <<>>
    BY <1>2, <2>1, ReachEnd
  <2>3. IsPrefix(Front(r), q)
    <3>1. r \in Paths /\ Front(r) \in Paths /\ IsPrefix(Front(r), r)
      BY <1>3, <2>1, <2>2, PrefixSelf, PrefixSteps
    <3> QED BY <1>3, <2>1, <3>1, PrefixSteps
  <2> QED BY <1>1, <1>2, <2>1, <2>2, <2>3 DEF Due
<1>10. ASSUME NEW r, Due(k, q, r), Reached(k, r) \in Range(stack') PROVE Coming(k, q)'
  <2>1. ToVisit(k, q, r)'
    BY <1>4, <1>5, <1>10 DEF ToVisit
  <2> QED BY <2>1 DEF Coming
<1>6. ASSUME NEW r \in Beneath(k), Met(k, r), IsPrefix(r, q), r # q, stage' = "listing", here' = Reached(k, r)
      PROVE  Coming(k, q)'
  <2>1. ToList(k, q, r)'
    BY <1>1, <1>4, <1>6 DEF ToList
  <2> QED BY <2>1 DEF Coming
<1>7. ASSUME stage' = "linking", here' = Reached(k, q), Due(k, q, q), Met(k, q), Is(q, "link") PROVE Coming(k, q)'
  BY <1>1, <1>2, <1>3, <1>4, <1>5, <1>7 DEF Coming
<1>8. ASSUME stage' = "root", here' = Reached(k, Base(k)), Decodable(here'.name) PROVE Coming(k, q)'
  <2>1. Reached(k, Base(k))' = Reached(k, Base(k))
    BY <1>1, <1>2 DEF Reached
  <2>2. Decodable(here.name)'
    BY <1>8 DEF Decodable
  <2> QED BY <1>8, <2>1, <2>2 DEF Coming
<1> QED BY <1>6, <1>7, <1>8, <1>10 DEF Coming

LEMMA SpotAt ==
  ASSUME PackTypeOK, NEW k \in Walked, NEW r \in Beneath(k), r # Base(k), Met(k, Front(r))
  PROVE  /\ Spot(WayTo(k, r)) = IF Searchable(Front(r)) THEN r ELSE Nowhere
         /\ WayTo(k, r) \in Paths /\ WayTo(k, r) # <<>> /\ Last(NameAt(k, r)) = Last(r)
<1>1. /\ Front(r) \in Beneath(k) /\ r # <<>> /\ Last(r) \in Nat /\ Is(Front(r), "dir")
      /\ WayTo(k, r) = Append(WayTo(k, Front(r)), Last(r))
      /\ NameAt(k, r) = Append(NameAt(k, Front(r)), Last(r))
  BY ReachEnd
<1>2. Canonical(WayTo(k, Front(r))) = Front(r)
  <2>1. ~ Is(Front(r), "link")
    BY <1>1 DEF Is
  <2> QED BY <2>1 DEF Met
<1>3. r \in Paths /\ r \in DOMAIN tree /\ Front(r) \in Paths /\ IsPrefix(Base(k), Front(r)) /\ Base(k) \in Paths
      /\ asked.paths[k].at \in Paths /\ entry_name_for(asked.paths[k]) \in Seq(Int)
  BY <1>1, WalkedIs
<1>4. WayTo(k, Front(r)) \in Paths /\ NameAt(k, Front(r)) \in Seq(Int)
  <2>1. Rest(Base(k), Front(r)) \in Paths
    BY <1>3, RestIs
  <2>2. Rest(Base(k), Front(r)) \in Seq(Int) /\ Rest(Base(k), Front(r)) \in Seq(Nat)
    BY <2>1 DEF Paths
  <2>3. NameAt(k, Front(r)) = entry_name_for(asked.paths[k]) \o Rest(Base(k), Front(r))
    BY DEF NameAt, Rest
  <2> QED BY <1>3, <2>2, <2>3 DEF WayTo, Paths
<1>5. /\ WayTo(k, r) \in Paths /\ WayTo(k, r) # <<>>
      /\ Front(WayTo(k, r)) = WayTo(k, Front(r)) /\ Last(WayTo(k, r)) = Last(r)
  <2>1. ASSUME NEW p \in Paths, NEW c \in Nat
        PROVE  Append(p, c) \in Paths /\ Append(p, c) # <<>> /\ Front(Append(p, c)) = p /\ Last(Append(p, c)) = c
    BY AppendIs
  <2>2. Last(r) \in Nat /\ WayTo(k, r) = Append(WayTo(k, Front(r)), Last(r))
    BY <1>1
  <2> QED BY <1>4, <2>1, <2>2
<1>6. Append(Front(r), Last(r)) = r
  BY <1>1, <1>3, FrontIs
<1>7. Last(NameAt(k, r)) = Last(r)
  <2> DEFINE n == NameAt(k, Front(r))
             c == Last(r)
  <2>1. n \in Seq(Int) /\ c \in Int
    BY <1>1, <1>4
  <2> HIDE DEF n, c
  <2>2. Last(Append(n, c)) = c
    BY <2>1 DEF Last
  <2> QED BY <1>1, <2>2 DEF n, c
<1> QED BY <1>2, <1>3, <1>5, <1>6, <1>7 DEF Spot

(* What is not barred is reached where what it is in was.                    *)
LEMMA MeetChild ==
  ASSUME PackTypeOK, NEW k \in Walked, NEW r \in Beneath(k), r # Base(k), Met(k, Front(r)),
         tree[Front(r)].lists, ~ Barred(k, r)
  PROVE  Met(k, r)
<1>1. /\ Front(r) \in Beneath(k) /\ r # <<>> /\ Last(r) \in Nat /\ Is(Front(r), "dir")
      /\ NameAt(k, r) = Append(NameAt(k, Front(r)), Last(r))
  BY ReachEnd
<1>2. /\ Spot(WayTo(k, r)) = IF Searchable(Front(r)) THEN r ELSE Nowhere
      /\ WayTo(k, r) \in Paths /\ WayTo(k, r) # <<>>
  BY SpotAt
<1>3. Searchable(Front(r)) /\ Decodable(<<Last(r)>>)
  BY DEF Barred
<1>4. r \in Paths /\ Front(r) \in Paths /\ r # Nowhere /\ entry_name_for(asked.paths[k]) \in Seq(Int)
      /\ IsPrefix(Base(k), Front(r)) /\ Base(k) \in Paths
  BY <1>1, WalkedIs, NowhereNoPath
<1>5. Decodable(NameAt(k, r))
  <2> DEFINE n == NameAt(k, Front(r))
             c == Last(r)
  <2>1. n \in Seq(Int) /\ c \in Int
    <3>1. Rest(Base(k), Front(r)) \in Paths
      BY <1>4, RestIs
    <3>2. Rest(Base(k), Front(r)) \in Seq(Int)
      BY <3>1 DEF Paths
    <3>3. n = entry_name_for(asked.paths[k]) \o Rest(Base(k), Front(r))
      BY DEF NameAt, Rest
    <3> QED BY <1>1, <1>4, <3>2, <3>3
  <2>2. c \notin Garbled /\ \A i \in DOMAIN n : n[i] \notin Garbled
    <3>1. 1 \in DOMAIN <<c>> /\ <<c>>[1] = c
      OBVIOUS
    <3> QED BY <1>3, <3>1 DEF Decodable, Met
  <2> HIDE DEF n, c
  <2>3. DOMAIN n = 1 .. Len(n) /\ Len(n) \in Nat /\ DOMAIN Append(n, c) = 1 .. Len(n) + 1
        /\ Append(n, c)[Len(n) + 1] = c /\ \A i \in 1 .. Len(n) : Append(n, c)[i] = n[i]
    BY <2>1
  <2>4. \A i \in DOMAIN Append(n, c) : Append(n, c)[i] \notin Garbled
    BY <2>2, <2>3
  <2> QED BY <1>1, <2>4 DEF Decodable, n, c
<1>6. ASSUME NEW t \in Beneath(k), IsPrefix(t, r) PROVE ~ Barred(k, t) /\ (t # r => tree[t].lists)
  <2>1. t \in Paths
    BY WalkedIs
  <2>2. CASE t = r
    BY <2>2
  <2>3. CASE t # r
    <3>1. IsPrefix(t, Front(r))
      BY <1>4, <1>6, <2>1, <2>3, PrefixSteps
    <3> QED BY <1>6, <2>3, <3>1 DEF Met
  <2> QED BY <2>2, <2>3
<1>7. ~ Is(r, "link") => Canonical(WayTo(k, r)) = r
  BY <1>2, <1>3, <1>4, SpotLeads
<1> QED BY <1>5, <1>6, <1>7 DEF Met

LEMMA DecodableStays == ASSUME NEW name, Decodable(name), NEW S, name \in Seq(S) PROVE Rendered(name) = name
BY DEF Decodable, Rendered

(* A stop on the way is told of by the item skipped for it.                  *)
LEMMA StopAt ==
  ASSUME PackTypeOK, NEW k, NEW q, NEW r \in Beneath(k), IsPrefix(r, q),
         IF r = q THEN Unstorable(k, r) ELSE Barred(k, r) \/ ~ tree[r].lists
  PROVE  r \in Stop(k, q) /\ Covers(Skipped(NameAt(k, r)), k, q)
<1>1. r \in Stop(k, q)
  BY DEF Stop
<1>2. Skipped(NameAt(k, r)).name = Rendered(NameAt(k, r)) /\ Skipped(NameAt(k, r)).kind = "skipped"
  BY DEF Skipped, Item
<1> QED BY <1>1, <1>2 DEF Covers, Lost, Shown

LEMMA AlikeItem ==
  ASSUME PackTypeOK, NEW k \in Walked, NEW q \in Beneath(k), Met(k, q), Is(q, "dir") \/ Is(q, "file")
  PROVE  Covers(item_for(NameAt(k, q), WayTo(k, q), q), k, q)
<1>1. CASE Is(q, "dir")
  <2>1. item_for(NameAt(k, q), WayTo(k, q), q) = Item(NameAt(k, q), WayTo(k, q), "dir", 0, NoInode, <<>>)
    BY <1>1 DEF item_for
  <2>2. tree[q].kind = "dir"
    BY <1>1 DEF Is
  <2> QED BY <2>1, <2>2 DEF Covers, Alike, Item
<1>2. CASE Is(q, "file")
  <2>1. tree[q].kind = "file" /\ ~ Is(q, "dir")
    BY <1>2 DEF Is
  <2>2. item_for(NameAt(k, q), WayTo(k, q), q) = Item(NameAt(k, q), WayTo(k, q), "file", Size(q), link_id_of(q), <<>>)
    BY <1>2, <2>1 DEF item_for
  <2> QED BY <2>1, <2>2 DEF Covers, Alike, Item
<1> QED BY <1>1, <1>2

(* A special file is the end of its way.                                     *)
LEMMA SpecialItem ==
  ASSUME PackTypeOK, NEW k \in Walked, NEW q \in Beneath(k), NEW name, NEW at, ~ Is(q, "dir"), ~ Is(q, "file"), ~ Is(q, "link")
  PROVE  Is(q, "special") /\ item_for(name, at, q) = Skipped(name)
<1>1. q \in DOMAIN tree /\ tree[q].kind \in {"dir", "file", "link", "special"}
  BY WalkedIs, WorldIs
<1> QED BY <1>1 DEF Is, item_for
-------------------------------------------------------------------------------
(* One lemma per step.                                                      *)

(* What is settled stays so while nothing is taken away.                     *)
LEMMA SettledOn ==
  ASSUME PackTypeOK, PackTypeOK', NEW k, NEW q, Framed(k, q), Settled(k, q),
         told \subseteq told', Range(stored) \subseteq Range(stored'),
         Range(found) \subseteq Range(found'), \A i \in Ahead : i \in Ahead' /\ plan'[i] = plan[i],
         stage = "payload" => stage' = stage /\ AtHand' = AtHand /\ reader' = reader
  PROVE  Settled(k, q)'
<1>1. /\ \A t \in Stop(k, q) : Rendered(NameAt(k, t)) \in told' => Settled(k, q)'
      /\ Stop(k, q) = {} /\ Entry(NameAt(k, q), tree[q].kind, ContentAt(q)) \in Range(stored') => Settled(k, q)'
      /\ \A item : Covers(item, k, q) /\ item \in Range(found') => Settled(k, q)'
      /\ \A i, item : Held(item, k, q) /\ i \in Ahead' /\ plan'[i] = item => Settled(k, q)'
      /\ Reading(k, q) /\ stage' = stage /\ AtHand' = AtHand /\ reader' = reader => Settled(k, q)'
  BY SettledParts
<1>2. \/ \E t \in Stop(k, q) : Rendered(NameAt(k, t)) \in told
      \/ Stop(k, q) = {} /\ Kept(k, q)
      \/ \E item \in Range(found) : Covers(item, k, q)
      \/ \E i \in Ahead : Held(plan[i], k, q)
      \/ Reading(k, q)
  BY DEF Settled
<1>3. ASSUME Stop(k, q) = {}, Kept(k, q) PROVE Settled(k, q)'
  BY <1>1, <1>3 DEF Kept
<1>4. ASSUME Reading(k, q) PROVE Settled(k, q)'
  <2>1. stage = "payload"
    BY <1>4 DEF Reading
  <2> QED BY <1>1, <1>4, <2>1
<1> QED BY <1>1, <1>2, <1>3, <1>4

(* The walk so far is settled, and what it has found of what is to come.     *)
LEMMA FoundSettles ==
  ASSUME PackTypeOK, PackTypeOK', NEW k, NEW q, Framed(k, q), NEW item, Covers(item, k, q), item \in Range(found')
  PROVE  Settled(k, q)'
<1>1. \A e : Covers(e, k, q) /\ e \in Range(found') => Settled(k, q)'
  BY SettledParts
<1> QED BY <1>1

(* The stages of a walk.                                                     *)
LEMMA WalkAhead ==
  ASSUME stage \notin Late, stage' \notin Late, plan' = plan
  PROVE  \A i \in Ahead : i \in Ahead' /\ plan'[i] = plan[i]
BY DEF Ahead, Late

LEMMA KeptName ==
  ASSUME PackTypeOK, PackTypeOK', NEW k, NEW q, Framed(k, q), KeptAt(k, q), Name, stage' # "refused"
  PROVE  KeptAt(k, q)'
<1>1. /\ stage = "naming" /\ stage' = "root" /\ UNCHANGED <<turn, found, plan, told, stored, asked>>
      /\ here' = [at |-> AtTurn.at, name |-> entry_name_for(AtTurn)]
      /\ Decodable(entry_name_for(AtTurn))
  BY DEF Name, planning, writing
<1>2. stage \notin Late /\ stage' \notin Late /\ stage # "payload"
  BY <1>1 DEF Late
<1>3. ASSUME k <= turn PROVE Settled(k, q)'
  <2>1. Settled(k, q)
    BY <1>3 DEF KeptAt
  <2> QED BY <1>1, <1>2, <2>1, SettledOn, WalkAhead
<1>4. ASSUME k = turn + 1 PROVE Coming(k, q)'
  <2>1. stage' = "root" /\ here' = Reached(k, Base(k)) /\ Decodable(here'.name) => Coming(k, q)'
    BY ComingParts
  <2>2. k \in Walked
    BY DEF Framed
  <2>3. Reached(k, Base(k)) = [at |-> asked.paths[k].at, name |-> entry_name_for(asked.paths[k])]
    BY <2>2, ReachTop DEF Reached
  <2>4. here' = Reached(k, Base(k)) /\ here'.name = entry_name_for(AtTurn)
    BY <1>1, <1>4, <2>3 DEF AtTurn
  <2> QED BY <1>1, <2>1, <2>4
<1> QED BY <1>1, <1>2, <1>3, <1>4 DEF KeptAt

LEMMA KeptRoot ==
  ASSUME PackTypeOK, PackTypeOK', NEW k, NEW q, Framed(k, q), KeptAt(k, q), Root, stage' # "refused"
  PROVE  KeptAt(k, q)'
<1> DEFINE real == Canonical(here.at)
<1>1. /\ stage = "root" /\ real # Nowhere
      /\ stage' = IF Is(real, "dir") THEN "listing" ELSE "walking"
      /\ found' = <<item_for(here.name, here.at, real)>>
      /\ UNCHANGED <<turn, plan, told, stored, here>>
  BY DEF Root, planning, writing
<1>2. stage \notin Late /\ stage' \notin Late /\ stage # "payload" /\ OnWalk
  BY <1>1 DEF Late, OnWalk
<1>3. found = <<>> /\ stack = <<>> /\ DOMAIN <<>> = {}
  BY <1>1 DEF PackTypeOK
<1>4. ASSUME Settled(k, q) PROVE Settled(k, q)'
  <2>1. Range(found) \subseteq Range(found')
    BY <1>3 DEF Range
  <2> QED BY <1>1, <1>2, <1>4, <2>1, SettledOn, WalkAhead
<1>5. ASSUME k = turn + 1 PROVE Coming(k, q)'
  <2>1. \/ Settled(k, q)
        \/ here = Reached(k, Base(k)) /\ Decodable(here.name)
    BY <1>1, <1>2, <1>3, <1>5 DEF KeptAt, Coming, ToVisit, ToList, Range
  <2>2. CASE Settled(k, q)
    BY <1>4, <2>2 DEF Coming
  <2>3. CASE here = Reached(k, Base(k)) /\ Decodable(here.name)
    <3>1. k \in Walked /\ q \in Beneath(k)
      BY DEF Framed
    <3>2. /\ WayTo(k, Base(k)) = asked.paths[k].at /\ here.at = WayTo(k, Base(k)) /\ here.name = NameAt(k, Base(k))
      BY <2>3, <3>1, ReachTop DEF Reached
    <3>3. real = Base(k)
      BY <3>2 DEF Base
    <3>4. /\ Base(k) \in Beneath(k) /\ ~ Is(Base(k), "link") /\ Base(k) \in Paths
          /\ \A r \in Beneath(k) : r \in Paths /\ r \in DOMAIN tree /\ IsPrefix(Base(k), r)
      BY <3>1, WalkedIs
    <3>5. Met(k, Base(k))
      <4>1. ASSUME NEW t \in Beneath(k), IsPrefix(t, Base(k)) PROVE t = Base(k)
        <5>1. t \in Paths /\ IsPrefix(Base(k), t) /\ Len(t) \in Nat /\ Len(Base(k)) \in Nat
          BY <3>4, PathBasics
        <5>2. Len(t) <= Len(Base(k)) /\ (t # Base(k) => Len(t) < Len(Base(k))) /\ Len(Base(k)) <= Len(t)
          <6>1. \A a, b \in Paths : IsPrefix(a, b) => Len(a) <= Len(b) /\ (a # b => Len(a) < Len(b))
            BY PrefixSteps
          <6> QED BY <3>4, <4>1, <5>1, <6>1
        <5> QED BY <5>1, <5>2
      <4>2. Canonical(WayTo(k, Base(k))) = Base(k)
        BY <3>2 DEF Base
      <4> QED BY <2>3, <3>2, <4>1, <4>2 DEF Met, Barred
    <3>6. /\ \A r \in Beneath(k) : Met(k, r) /\ IsPrefix(r, q) /\ r # q /\ stage' = "listing"
                                  /\ here' = Reached(k, r) => Coming(k, q)'
          /\ Settled(k, q)' => Coming(k, q)'
      BY ComingParts
    <3>7. item_for(here.name, here.at, real) \in Range(found')
      <4>1. DOMAIN found' = {1} /\ found'[1] = item_for(here.name, here.at, real)
        BY <1>1
      <4> QED BY <4>1 DEF Range
    <3>8. CASE q = Base(k)
      <4>1. Covers(item_for(NameAt(k, q), WayTo(k, q), q), k, q)
        <5>1. CASE Is(q, "dir") \/ Is(q, "file")
          BY <3>1, <3>5, <3>8, <5>1, AlikeItem
        <5>2. CASE ~ (Is(q, "dir") \/ Is(q, "file"))
          <6>1. Is(q, "special") /\ item_for(NameAt(k, q), WayTo(k, q), q) = Skipped(NameAt(k, q))
            BY <3>1, <3>4, <3>8, <5>2, SpecialItem
          <6>2. Unstorable(k, q)
            BY <6>1 DEF Unstorable
          <6> QED BY <3>1, <3>4, <3>8, <6>1, <6>2, StopAt
        <5> QED BY <5>1, <5>2
      <4> QED BY <3>2, <3>3, <3>6, <3>7, <3>8, <4>1, FoundSettles
    <3>9. CASE q # Base(k)
      <4>1. Is(Base(k), "dir")
        BY <3>1, <3>4, <3>9, UpTree
      <4> QED BY <1>1, <2>3, <3>1, <3>3, <3>4, <3>5, <3>6, <3>9, <4>1
    <3> QED BY <3>8, <3>9
  <2> QED BY <2>1, <2>2, <2>3
<1>6. ASSUME k <= turn PROVE Settled(k, q)'
  BY <1>4, <1>6 DEF KeptAt
<1> QED BY <1>1, <1>2, <1>5, <1>6 DEF KeptAt

LEMMA RangeOf ==
  ASSUME NEW S, NEW s \in Seq(S), NEW t \in Seq(S)
  PROVE  /\ Range(s \o t) = Range(s) \cup Range(t)
         /\ \A e \in S : Range(Append(s, e)) = Range(s) \cup {e}
         /\ s # <<>> => Range(s) = {Head(s)} \cup Range(Tail(s))
<1>1. \A e \in S : Range(Append(s, e)) = Range(s) \cup {e}
  BY AppendRange
<1>2. s # <<>> => Range(s) = {Head(s)} \cup Range(Tail(s))
  BY AppendRange
<1>3. Range(s \o t) = Range(s) \cup Range(t)
  <2>1. /\ Len(s) \in Nat /\ Len(t) \in Nat /\ DOMAIN s = 1 .. Len(s) /\ DOMAIN t = 1 .. Len(t)
        /\ DOMAIN (s \o t) = 1 .. Len(s) + Len(t)
        /\ \A i \in 1 .. Len(s) : (s \o t)[i] = s[i]
        /\ \A i \in 1 .. Len(t) : (s \o t)[Len(s) + i] = t[i]
    OBVIOUS
  <2> DEFINE u == s \o t
  <2>2. /\ DOMAIN u = 1 .. Len(s) + Len(t)
        /\ \A i \in 1 .. Len(s) : u[i] = s[i]
        /\ \A i \in 1 .. Len(t) : u[Len(s) + i] = t[i]
    BY <2>1
  <2> HIDE DEF u
  <2>3. \A i \in 1 .. Len(s) + Len(t) : i \in 1 .. Len(s) \/ \E j \in 1 .. Len(t) : i = Len(s) + j
    <3>1. ASSUME NEW i \in 1 .. Len(s) + Len(t), i \notin 1 .. Len(s) PROVE i - Len(s) \in 1 .. Len(t) /\ i = Len(s) + (i - Len(s))
      BY <2>1, <3>1
    <3> QED BY <3>1
  <2>4. Range(u) \subseteq Range(s) \cup Range(t)
    <3>1. \A i \in DOMAIN u : u[i] \in Range(s) \cup Range(t)
      <4>1. ASSUME NEW i \in DOMAIN u PROVE u[i] \in Range(s) \cup Range(t)
        <5>1. CASE i \in 1 .. Len(s)
          BY <2>1, <2>2, <5>1 DEF Range
        <5>2. ASSUME NEW j \in 1 .. Len(t), i = Len(s) + j PROVE u[i] \in Range(s) \cup Range(t)
          BY <2>1, <2>2, <5>2 DEF Range
        <5> QED BY <2>2, <2>3, <5>1, <5>2
      <4> QED BY <4>1
    <3> QED BY <3>1 DEF Range
  <2>5. Range(s) \subseteq Range(u)
    <3>1. 1 .. Len(s) \subseteq 1 .. Len(s) + Len(t)
      BY <2>1
    <3> QED BY <2>1, <2>2, <3>1 DEF Range
  <2>6. Range(t) \subseteq Range(u)
    <3>1. \A i \in 1 .. Len(t) : Len(s) + i \in 1 .. Len(s) + Len(t)
      BY <2>1
    <3> QED BY <2>1, <2>2, <3>1 DEF Range
  <2> QED BY <2>4, <2>5, <2>6 DEF u
<1> QED BY <1>1, <1>2, <1>3

LEMMA KeptList ==
  ASSUME PackTypeOK, PackTypeOK', NEW k, NEW q, Framed(k, q), KeptAt(k, q), List
  PROVE  KeptAt(k, q)'
<1> DEFINE real == Canonical(here.at)
           lists == Is(real, "dir") /\ tree[real].lists
           kids == Children(here, real)
<1>1. /\ stage = "listing" /\ stage' = "walking" /\ UNCHANGED <<turn, plan, told, stored, here>>
      /\ lists => stack' = kids \o stack /\ found' = found
      /\ ~ lists => found' = Append(found, Skipped(here.name)) /\ stack' = stack
  BY DEF List, planning, writing
<1>2. stage \notin Late /\ stage' \notin Late /\ stage # "payload" /\ OnWalk
  BY <1>1 DEF Late, OnWalk
<1>3. stack \in Seq(Spots) /\ found \in Seq(Items) /\ here \in Spots
  <2>1. here \in [at : Paths, name : Paths \cup {Nowhere}] /\ here.name \in Paths
    BY <1>1 DEF PackTypeOK
  <2> QED BY <2>1 DEF PackTypeOK, Spots
<1>4. Skipped(here.name) \in Items
  <2>1. here.name \in Paths /\ <<>> \in Paths
    BY <1>3 DEF Spots, Paths
  <2> QED BY <2>1, RenderedIs
<1>5. Range(found) \subseteq Range(found') /\ (~ lists => Skipped(here.name) \in Range(found'))
  <2>1. Range(Append(found, Skipped(here.name))) = Range(found) \cup {Skipped(here.name)}
    BY <1>3, <1>4, RangeOf
  <2> QED BY <1>1, <2>1
<1>6. /\ kids \in Seq(Spots)
      /\ \A c \in NamesIn(real) : \E i \in DOMAIN kids : kids[i] = Child(here, c)
  <2>1. Tree(tree, DOMAIN files)
    BY DEF PackTypeOK
  <2> QED BY <1>3, <2>1, ChildrenAre
<1>7. Range(stack) \subseteq Range(stack') /\ (lists => Range(kids) \subseteq Range(stack'))
  <2>1. Range(kids \o stack) = Range(kids) \cup Range(stack)
    BY <1>3, <1>6, RangeOf
  <2> QED BY <1>1, <2>1
<1>8. ASSUME Settled(k, q) PROVE Settled(k, q)'
  BY <1>1, <1>2, <1>5, <1>8, SettledOn, WalkAhead
<1>9. ASSUME k = turn + 1 PROVE Coming(k, q)'
  <2>1. /\ \A r : Due(k, q, r) /\ Reached(k, r) \in Range(stack') => Coming(k, q)'
        /\ Settled(k, q)' => Coming(k, q)'
    BY ComingParts
  <2>2. \/ Settled(k, q)
        \/ \E r : Due(k, q, r) /\ Reached(k, r) \in Range(stack)
        \/ \E r \in Beneath(k) : IsPrefix(r, q) /\ r # q /\ here = Reached(k, r) /\ Met(k, r)
    BY <1>1, <1>2, <1>9 DEF KeptAt, Coming, ToVisit, ToList
  <2>3. ASSUME NEW r \in Beneath(k), IsPrefix(r, q), r # q, here = Reached(k, r), Met(k, r)
        PROVE  Coming(k, q)'
    <3>1. k \in Walked /\ q \in Beneath(k)
      BY DEF Framed
    <3>2. /\ Base(k) \in Paths
          /\ \A t \in Beneath(k) : t \in Paths /\ t \in DOMAIN tree /\ IsPrefix(Base(k), t)
      BY <3>1, WalkedIs
    <3>3. Is(r, "dir") /\ here.at = WayTo(k, r) /\ here.name = NameAt(k, r)
      BY <2>3, <3>1, <3>2, UpTree DEF Reached
    <3>4. real = r
      <4>1. ~ Is(r, "link")
        BY <3>3 DEF Is
      <4> QED BY <2>3, <3>3, <4>1 DEF Met
    <3>5. CASE tree[r].lists
      <4> DEFINE s == Toward(r, q)
      <4>1. /\ s \in Paths /\ IsPrefix(s, q) /\ s # <<>> /\ IsPrefix(r, s)
            /\ Front(s) = r /\ Last(s) \in Nat /\ s # r
        BY <2>3, <3>1, <3>2, TowardIs
      <4> HIDE DEF s
      <4>2. s \in DOMAIN tree
        BY <3>1, <3>2, <4>1, UpTree
      <4>3. s \in Beneath(k) /\ s # Base(k)
        <5>1. \A t \in Paths : IsPrefix(r, t) => IsPrefix(Base(k), t)
          BY <3>2, PrefixSteps
        <5>2. IsPrefix(Base(k), s)
          BY <4>1, <5>1
        <5>3. s = Base(k) => s = r
          <6>1. s = Base(k) => IsPrefix(s, r)
            BY <3>2
          <6>2. \A a, b \in Paths : IsPrefix(a, b) => Len(a) <= Len(b) /\ (a # b => Len(a) < Len(b))
            BY PrefixSteps
          <6>3. Len(s) \in Nat /\ Len(r) \in Nat
            BY <3>2, <4>1, PathBasics
          <6> QED BY <3>2, <4>1, <6>1, <6>2, <6>3
        <5> QED BY <4>1, <4>2, <5>2, <5>3 DEF Beneath
      <4>4. Due(k, q, s)
        BY <2>3, <3>5, <4>1, <4>3 DEF Due
      <4>5. Last(s) \in NamesIn(real)
        BY <3>4, <4>1, <4>2 DEF NamesIn
      <4>6. Child(here, Last(s)) = Reached(k, s)
        <5>1. WayTo(k, s) = Append(WayTo(k, r), Last(s)) /\ NameAt(k, s) = Append(NameAt(k, r), Last(s))
          BY <3>1, <4>1, <4>3, ReachEnd
        <5> QED BY <3>3, <5>1 DEF Child, Reached
      <4>7. Reached(k, s) \in Range(kids)
        BY <1>6, <4>5, <4>6 DEF Range
      <4> QED BY <1>7, <2>1, <3>3, <3>4, <3>5, <4>4, <4>7
    <3>6. CASE ~ tree[r].lists
      <4>1. Covers(Skipped(NameAt(k, r)), k, q)
        BY <2>3, <3>6, StopAt
      <4> QED BY <1>5, <2>1, <3>3, <3>4, <3>6, <4>1, FoundSettles
    <3> QED BY <3>5, <3>6
  <2> QED BY <1>7, <1>8, <2>1, <2>2, <2>3
<1>10. ASSUME k <= turn PROVE Settled(k, q)'
  BY <1>8, <1>10 DEF KeptAt
<1> QED BY <1>1, <1>2, <1>9, <1>10 DEF KeptAt

LEMMA KeptVisit ==
  ASSUME PackTypeOK, PackTypeOK', NEW k, NEW q, Framed(k, q), KeptAt(k, q), Visit
  PROVE  KeptAt(k, q)'
<1> DEFINE child == Head(stack)
           spot == Spot(child.at)
           lost == spot = Nowhere \/ ~ Decodable(<<Last(child.name)>>)
<1>1. /\ stage = "walking" /\ stack # <<>> /\ here' = child /\ stack' = Tail(stack)
      /\ UNCHANGED <<turn, plan, told, stored>>
      /\ lost => found' = Append(found, Skipped(child.name)) /\ stage' = "walking"
      /\ ~ lost /\ Is(spot, "link") => stage' = "linking" /\ found' = found
      /\ ~ lost /\ ~ Is(spot, "link") =>
           /\ stage' = IF Is(spot, "dir") THEN "listing" ELSE "walking"
           /\ found' = Append(found, item_for(child.name, child.at, spot))
  BY DEF Visit, planning, writing
<1>2. stage \notin Late /\ stage' \notin Late /\ stage # "payload" /\ OnWalk
  <2>1. stage' \in {"walking", "linking", "listing"}
    BY <1>1
  <2> QED BY <1>1, <2>1 DEF Late, OnWalk
<1>3. stack \in Seq(Spots) /\ found \in Seq(Items) /\ child \in Spots /\ child.name \in Paths /\ child.at \in Paths
  <2>1. stack \in Seq(Spots) /\ found \in Seq(Items)
    BY DEF PackTypeOK
  <2>2. child \in Spots
    BY <1>1, <2>1
  <2> QED BY <2>1, <2>2 DEF Spots
<1>4. Skipped(child.name) \in Items /\ (spot # Nowhere /\ ~ Is(spot, "link") => item_for(child.name, child.at, spot) \in Items)
  <2>1. Skipped(child.name) \in Items
    BY <1>3, RenderedIs
  <2>2. spot # Nowhere => spot \in DOMAIN tree
    BY <1>3, SpotIs
  <2> QED BY <1>3, <2>1, <2>2, ItemIs
<1>5. /\ Range(found) \subseteq Range(found')
      /\ lost => Skipped(child.name) \in Range(found')
      /\ ~ lost /\ ~ Is(spot, "link") => item_for(child.name, child.at, spot) \in Range(found')
  <2>1. \A e \in Items : Range(Append(found, e)) = Range(found) \cup {e}
    BY <1>3, RangeOf
  <2> QED BY <1>1, <1>4, <2>1
<1>6. Range(stack) = {child} \cup Range(stack')
  BY <1>1, <1>3, RangeOf
<1>8. ASSUME Settled(k, q) PROVE Settled(k, q)'
  BY <1>1, <1>2, <1>5, <1>8, SettledOn, WalkAhead
<1>9. ASSUME k = turn + 1 PROVE Coming(k, q)'
  <2>1. /\ \A r : Due(k, q, r) /\ Reached(k, r) \in Range(stack') => Coming(k, q)'
        /\ \A r \in Beneath(k) : Met(k, r) /\ IsPrefix(r, q) /\ r # q /\ stage' = "listing"
                                  /\ here' = Reached(k, r) => Coming(k, q)'
        /\ stage' = "linking" /\ here' = Reached(k, q) /\ Due(k, q, q) /\ Met(k, q) /\ Is(q, "link") => Coming(k, q)'
        /\ Settled(k, q)' => Coming(k, q)'
    BY ComingParts
  <2>2. \/ Settled(k, q)
        \/ \E r : Due(k, q, r) /\ Reached(k, r) \in Range(stack)
    BY <1>1, <1>2, <1>9 DEF KeptAt, Coming, ToVisit, ToList
  <2>3. ASSUME NEW r, Due(k, q, r), child = Reached(k, r)
        PROVE  Coming(k, q)'
    <3>1. k \in Walked /\ q \in Beneath(k)
      BY DEF Framed
    <3>2. /\ r \in Beneath(k) /\ r # Base(k) /\ IsPrefix(r, q) /\ Met(k, Front(r)) /\ tree[Front(r)].lists
      BY <2>3 DEF Due
    <3>3. /\ r \in Paths /\ r \in DOMAIN tree /\ q \in DOMAIN tree /\ r # Nowhere
          /\ child.at = WayTo(k, r) /\ child.name = NameAt(k, r)
      BY <2>3, <3>1, <3>2, WalkedIs, NowhereNoPath DEF Reached
    <3>4. spot = (IF Searchable(Front(r)) THEN r ELSE Nowhere) /\ Last(child.name) = Last(r)
      BY <3>1, <3>2, <3>3, SpotAt
    <3>5. lost <=> Barred(k, r)
      BY <3>2, <3>3, <3>4 DEF Barred
    <3>6. r # q => Is(r, "dir")
      BY <3>1, <3>2, <3>3, UpTree
    <3>7. CASE lost
      <4>1. Unstorable(k, r)
        BY <3>5, <3>7 DEF Unstorable
      <4>2. Covers(Skipped(NameAt(k, r)), k, q)
        BY <3>2, <3>5, <3>7, <4>1, StopAt
      <4> QED BY <1>5, <2>1, <3>3, <3>7, <4>2, FoundSettles
    <3>8. CASE ~ lost
      <4>1. spot = r
        BY <3>4, <3>8
      <4>2. Met(k, r)
        BY <3>1, <3>2, <3>5, <3>8, MeetChild
      <4>3. CASE Is(r, "link")
        <5>1. r = q
          BY <3>6, <4>3 DEF Is
        <5> QED BY <1>1, <2>1, <2>3, <3>8, <4>1, <4>2, <4>3, <5>1
      <4>4. CASE ~ Is(r, "link") /\ r # q
        BY <1>1, <2>1, <2>3, <3>2, <3>6, <3>8, <4>1, <4>2, <4>4
      <4>5. CASE ~ Is(r, "link") /\ r = q
        <5>1. Covers(item_for(NameAt(k, q), WayTo(k, q), q), k, q)
          <6>1. CASE Is(q, "dir") \/ Is(q, "file")
            BY <3>1, <4>2, <4>5, <6>1, AlikeItem
          <6>2. CASE ~ (Is(q, "dir") \/ Is(q, "file"))
            <7>1. Is(q, "special") /\ item_for(NameAt(k, q), WayTo(k, q), q) = Skipped(NameAt(k, q))
              BY <3>1, <4>5, <6>2, SpecialItem
            <7>2. Unstorable(k, q)
              BY <7>1 DEF Unstorable
            <7> QED BY <3>1, <3>2, <4>5, <7>1, <7>2, StopAt
          <6> QED BY <6>1, <6>2
        <5> QED BY <1>5, <2>1, <3>3, <3>8, <4>1, <4>5, <5>1, FoundSettles
      <4> QED BY <4>3, <4>4, <4>5
    <3> QED BY <3>7, <3>8
  <2> QED BY <1>6, <1>8, <2>1, <2>2, <2>3
<1>10. ASSUME k <= turn PROVE Settled(k, q)'
  BY <1>8, <1>10 DEF KeptAt
<1> QED BY <1>1, <1>2, <1>9, <1>10 DEF KeptAt

LEMMA KeptReadLink ==
  ASSUME PackTypeOK, PackTypeOK', NEW k, NEW q, Framed(k, q), KeptAt(k, q), ReadLink
  PROVE  KeptAt(k, q)'
<1> DEFINE spot == Spot(here.at)
           item == IF Is(spot, "link") /\ Decodable(tree[spot].to)
                   THEN Item(here.name, here.at, "link", 0, NoInode, tree[spot].to)
                   ELSE Skipped(here.name)
<1>1. /\ stage = "linking" /\ stage' = "walking" /\ UNCHANGED <<turn, plan, told, stored, here, stack>>
      /\ found' = Append(found, item)
  BY DEF ReadLink, planning, writing
<1>2. stage \notin Late /\ stage' \notin Late /\ stage # "payload" /\ OnWalk
  BY <1>1 DEF Late, OnWalk
<1>3. here.name \in Paths /\ here.at \in Paths /\ found \in Seq(Items)
  <2>1. here \in [at : Paths, name : Paths \cup {Nowhere}] /\ here.name \in Paths
    BY <1>1 DEF PackTypeOK
  <2> QED BY <2>1 DEF PackTypeOK
<1>4. item \in Items
  <2>1. Skipped(here.name) \in Items
    BY <1>3, RenderedIs
  <2>2. Is(spot, "link") => tree[spot].to \in Paths
    BY WorldIs DEF Is
  <2> QED BY <1>3, <2>1, <2>2 DEF Item, Items, NoInode
<1> HIDE DEF item
<1>5. Range(found') = Range(found) \cup {item}
  BY <1>1, <1>3, <1>4, RangeOf
<1>8. ASSUME Settled(k, q) PROVE Settled(k, q)'
  BY <1>1, <1>2, <1>5, <1>8, SettledOn, WalkAhead
<1>9. ASSUME k = turn + 1 PROVE Coming(k, q)'
  <2>1. /\ \A r : Due(k, q, r) /\ Reached(k, r) \in Range(stack') => Coming(k, q)'
        /\ Settled(k, q)' => Coming(k, q)'
    BY ComingParts
  <2>2. \/ Settled(k, q)
        \/ \E r : Due(k, q, r) /\ Reached(k, r) \in Range(stack)
        \/ here = Reached(k, q) /\ Due(k, q, q) /\ Met(k, q) /\ Is(q, "link")
    BY <1>1, <1>2, <1>9 DEF KeptAt, Coming, ToVisit, ToList
  <2>3. ASSUME here = Reached(k, q), Due(k, q, q), Met(k, q), Is(q, "link") PROVE Coming(k, q)'
    <3>1. k \in Walked /\ q \in Beneath(k)
      BY DEF Framed
    <3>2. /\ q # Base(k) /\ IsPrefix(q, q) /\ Met(k, Front(q))
          /\ here.at = WayTo(k, q) /\ here.name = NameAt(k, q)
      BY <2>3 DEF Due, Reached
    <3>3. ~ Barred(k, q)
      BY <2>3, <3>1, <3>2 DEF Met
    <3>4. spot = q
      <4>1. Spot(WayTo(k, q)) = IF Searchable(Front(q)) THEN q ELSE Nowhere
        BY <3>1, <3>2, SpotAt
      <4> QED BY <3>2, <3>3, <4>1 DEF Barred
    <3>5. tree[q].kind = "link"
      BY <2>3 DEF Is
    <3>6. Covers(item, k, q)
      <4>1. CASE Decodable(tree[q].to)
        <5>1. item = Item(NameAt(k, q), WayTo(k, q), "link", 0, NoInode, tree[q].to)
          BY <2>3, <3>2, <3>4, <4>1 DEF item
        <5> QED BY <2>3, <3>5, <4>1, <5>1 DEF Covers, Alike, Item
      <4>2. CASE ~ Decodable(tree[q].to)
        <5>1. item = Skipped(NameAt(k, q))
          BY <2>3, <3>2, <3>4, <4>2 DEF item
        <5>2. Unstorable(k, q)
          BY <2>3, <4>2 DEF Unstorable
        <5> QED BY <3>1, <3>2, <5>1, <5>2, StopAt
      <4> QED BY <4>1, <4>2
    <3> QED BY <1>5, <2>1, <3>6, FoundSettles
  <2> QED BY <1>1, <1>8, <2>1, <2>2, <2>3
<1>10. ASSUME k <= turn PROVE Settled(k, q)'
  BY <1>8, <1>10 DEF KeptAt
<1> QED BY <1>1, <1>2, <1>9, <1>10 DEF KeptAt

(* With nothing to visit, whatever is to come has come.                      *)
LEMMA AllSettled ==
  ASSUME NEW k, NEW q, KeptAt(k, q), stage = "walking", stack = <<>>, k <= turn \/ k = turn + 1
  PROVE  Settled(k, q)
<1>1. DOMAIN <<>> = {} /\ Range(stack) = {}
  BY DEF Range
<1> QED BY <1>1 DEF KeptAt, Coming, ToVisit, ToList, OnWalk

LEMMA SiftSettled ==
  ASSUME PackTypeOK, PackTypeOK', NEW k, NEW q, Framed(k, q), Settled(k, q), Sift, stage' # "refused"
  PROVE  Settled(k, q)'
<1> DEFINE item == Head(found)
<1>1. /\ stage = "walking" /\ stage' = "walking" /\ found # <<>> /\ found' = Tail(found)
      /\ stored' = stored
      /\ \/ is_output_file(item) /\ told' = told \cup {item.name} /\ plan' = plan
         \/ ~ is_output_file(item) /\ plan' = Append(plan, item) /\ told' = told
  BY DEF Sift, writing
<1>2. found \in Seq(Items) /\ plan \in Seq(Items) /\ item \in Items
  <2>1. found \in Seq(Items) /\ plan \in Seq(Items)
    BY DEF PackTypeOK
  <2> QED BY <1>1, <2>1
<1>3. Range(found) = {item} \cup Range(found')
  BY <1>1, <1>2, RangeOf
<1>4. /\ Len(plan) \in Nat /\ Ahead = 1 .. Len(plan) /\ Ahead' = 1 .. Len(plan')
      /\ \A i \in 1 .. Len(plan) : i \in Ahead' /\ plan'[i] = plan[i]
      /\ told \subseteq told'
      /\ ~ is_output_file(item) => Len(plan) + 1 \in Ahead' /\ plan'[Len(plan) + 1] = item
  <2>1. Ahead = 1 .. Len(plan) /\ Ahead' = 1 .. Len(plan') /\ told \subseteq told'
    BY <1>1 DEF Ahead, Late
  <2>2. \A e \in Items : /\ Len(Append(plan, e)) = Len(plan) + 1 /\ Append(plan, e)[Len(plan) + 1] = e
                        /\ \A i \in 1 .. Len(plan) : Append(plan, e)[i] = plan[i]
    BY <1>2
  <2>3. Len(plan) \in Nat
    BY <1>2
  <2>4. plan' = Append(plan, item) =>
          /\ Len(plan') = Len(plan) + 1 /\ plan'[Len(plan) + 1] = item
          /\ \A i \in 1 .. Len(plan) : plan'[i] = plan[i]
    BY <1>2, <2>2
  <2> HIDE DEF item
  <2> QED BY <1>1, <2>1, <2>3, <2>4
<1> HIDE DEF item
<1>5. /\ \A t \in Stop(k, q) : Rendered(NameAt(k, t)) \in told' => Settled(k, q)'
      /\ Stop(k, q) = {} /\ Entry(NameAt(k, q), tree[q].kind, ContentAt(q)) \in Range(stored') => Settled(k, q)'
      /\ \A e : Covers(e, k, q) /\ e \in Range(found') => Settled(k, q)'
      /\ \A i, e : Held(e, k, q) /\ i \in Ahead' /\ plan'[i] = e => Settled(k, q)'
      /\ Reading(k, q) /\ stage' = stage /\ AtHand' = AtHand /\ reader' = reader => Settled(k, q)'
  BY SettledParts
<1>6. \/ \E t \in Stop(k, q) : Rendered(NameAt(k, t)) \in told
      \/ Stop(k, q) = {} /\ Entry(NameAt(k, q), tree[q].kind, ContentAt(q)) \in Range(stored)
      \/ \E e \in Range(found) : Covers(e, k, q)
      \/ \E i \in Ahead : Held(plan[i], k, q)
  BY <1>1 DEF Settled, Kept, Reading
<1>7. ASSUME Covers(item, k, q) PROVE Settled(k, q)'
  <2>1. k \in Walked /\ q \in Beneath(k)
    BY DEF Framed
  <2>2. q \in Paths /\ q # Nowhere /\ IsPrefix(q, q) /\ entry_name_for(asked.paths[k]) \in Seq(Int)
        /\ IsPrefix(Base(k), q) /\ Base(k) \in Paths /\ q \in DOMAIN tree
    BY <2>1, WalkedIs, NowhereNoPath, PrefixSelf
  <2>3. CASE is_output_file(item)
    <3>1. item.kind = "file" /\ Canonical(item.at) = target
      BY <2>3 DEF is_output_file
    <3>2. Alike(item, k, q)
      BY <1>7, <3>1 DEF Covers, Shown
    <3>3. item.at = WayTo(k, q) /\ item.name = NameAt(k, q) /\ tree[q].kind = "file" /\ Met(k, q)
      BY <3>1, <3>2 DEF Alike
    <3>4. Is(q, "file") /\ ~ Is(q, "link")
      BY <2>2, <3>3 DEF Is
    <3>5. q = target
      BY <3>1, <3>3, <3>4 DEF Met
    <3>6. q \in Stop(k, q)
      BY <2>1, <2>2, <3>4, <3>5, StopAt DEF Unstorable
    <3>7. Rendered(item.name) = item.name
      <4>1. item.name \in Seq(Nat)
        BY <1>2 DEF Items, Paths
      <4>2. Decodable(item.name)
        BY <3>3 DEF Met
      <4> QED BY <4>1, <4>2, DecodableStays
    <3>8. item.name \in told'
      BY <1>1, <2>3
    <3> QED BY <1>5, <3>3, <3>6, <3>7, <3>8
  <2>4. CASE ~ is_output_file(item)
    <3>1. ASSUME Shown(item), Is(q, "file") PROVE q # target
      <4>1. Alike(item, k, q)
        BY <1>7, <3>1 DEF Covers
      <4>2. item.kind = "file" /\ item.at = WayTo(k, q) /\ Met(k, q) /\ ~ Is(q, "link")
        BY <3>1, <4>1 DEF Alike, Is
      <4>3. Canonical(item.at) = q
        BY <4>2 DEF Met
      <4> QED BY <2>2, <2>4, <4>2, <4>3 DEF is_output_file
    <3>2. Held(item, k, q)
      BY <1>7, <3>1 DEF Held
    <3> QED BY <1>4, <1>5, <2>4, <3>2
  <2> QED BY <2>3, <2>4
<1> QED BY <1>1, <1>3, <1>4, <1>5, <1>6, <1>7

LEMMA KeptSift ==
  ASSUME PackTypeOK, PackTypeOK', NEW k, NEW q, Framed(k, q), KeptAt(k, q), Sift, stage' # "refused"
  PROVE  KeptAt(k, q)'
<1>1. /\ stage = "walking" /\ stack = <<>> /\ stage' = "walking" /\ turn' = turn
  BY DEF Sift
<1>2. ASSUME k <= turn \/ k = turn + 1 PROVE Settled(k, q)'
  BY <1>1, <1>2, AllSettled, SiftSettled
<1> QED BY <1>1, <1>2 DEF KeptAt, Coming, Late

LEMMA KeptNextPath ==
  ASSUME PackTypeOK, PackTypeOK', NEW k, NEW q, Framed(k, q), KeptAt(k, q), NextPath
  PROVE  KeptAt(k, q)'
<1>1. /\ stage = "walking" /\ stack = <<>> /\ stage' = "naming" /\ turn' = turn + 1
      /\ UNCHANGED <<found, plan, told, stored>>
  BY DEF NextPath, walking, planning, writing
<1>2. stage \notin Late /\ stage' \notin Late /\ stage # "payload" /\ ~ OnWalk'
  BY <1>1 DEF Late, OnWalk
<1>3. ASSUME Settled(k, q) PROVE Settled(k, q)'
  BY <1>1, <1>2, <1>3, SettledOn, WalkAhead
<1>4. ASSUME k <= turn + 1 PROVE Settled(k, q)'
  <2>1. k \in Nat /\ turn \in Nat
    <3>1. k \in Walked
      BY DEF Framed
    <3>2. k \in 1 .. Len(asked.paths) /\ Len(asked.paths) \in Nat
      BY <3>1, WalkedIs
    <3> QED BY <3>2 DEF PackTypeOK
  <2>2. k <= turn \/ k = turn + 1
    BY <1>4, <2>1
  <2> QED BY <1>1, <1>3, <2>2, AllSettled
<1> QED BY <1>1, <1>2, <1>4 DEF KeptAt

LEMMA KeptCreate ==
  ASSUME PackTypeOK, PackTypeOK', NEW k, NEW q, Framed(k, q), KeptAt(k, q), Create, stage' # "refused"
  PROVE  KeptAt(k, q)'
<1>1. /\ stage = "naming" /\ turn = Len(asked.paths) /\ stage' = "writing" /\ turn' = 0
      /\ UNCHANGED <<found, plan, told, stored>>
  BY DEF Create, walking, planning, writing
<1>2. ~ OnWalk'
  BY <1>1 DEF OnWalk
<1>3. k <= turn
  <2>1. k \in Walked
    BY DEF Framed
  <2>2. k \in 1 .. Len(asked.paths)
    BY <2>1, WalkedIs
  <2> QED BY <1>1, <2>2
<1>4. Settled(k, q)
  BY <1>3 DEF KeptAt
<1>5. \A i \in Ahead : i \in Ahead' /\ plan'[i] = plan[i]
  BY <1>1 DEF Ahead, Late
<1>6. Settled(k, q)'
  BY <1>1, <1>4, <1>5, SettledOn
<1> QED BY <1>1, <1>2, <1>6 DEF KeptAt

(* The writing goes from the item at hand to the next.                       *)
LEMMA WrittenOn ==
  ASSUME PackTypeOK, PackTypeOK', NEW k, NEW q, Framed(k, q), Settled(k, q),
         stage = "writing", turn < Len(plan), found' = found, plan' = plan,
         told \subseteq told', Range(stored) \subseteq Range(stored'),
         \/ stage' = "writing" /\ turn' = turn + 1
         \/ stage' = "payload" /\ turn' = turn,
         Held(AtHand, k, q) => Settled(k, q)'
  PROVE  KeptAt(k, q)'
<1>1. turn \in Nat /\ Len(plan) \in Nat
  BY DEF PackTypeOK
<1>2. Ahead = turn + 1 .. Len(plan) /\ Ahead' = turn + 2 .. Len(plan)
  <2>1. turn + 1 + 1 = turn + 2
    BY <1>1
  <2> QED BY <2>1 DEF Ahead, Late
<1>3. /\ \A t \in Stop(k, q) : Rendered(NameAt(k, t)) \in told' => Settled(k, q)'
      /\ Stop(k, q) = {} /\ Entry(NameAt(k, q), tree[q].kind, ContentAt(q)) \in Range(stored') => Settled(k, q)'
      /\ \A item : Covers(item, k, q) /\ item \in Range(found') => Settled(k, q)'
      /\ \A i, item : Held(item, k, q) /\ i \in Ahead' /\ plan'[i] = item => Settled(k, q)'
      /\ Reading(k, q) /\ stage' = stage /\ AtHand' = AtHand /\ reader' = reader => Settled(k, q)'
  BY SettledParts
<1>4. \/ \E t \in Stop(k, q) : Rendered(NameAt(k, t)) \in told
      \/ Stop(k, q) = {} /\ Entry(NameAt(k, q), tree[q].kind, ContentAt(q)) \in Range(stored)
      \/ \E e \in Range(found) : Covers(e, k, q)
      \/ \E i \in Ahead : Held(plan[i], k, q)
  BY DEF Settled, Kept, Reading
<1>5. ASSUME NEW i \in Ahead, Held(plan[i], k, q) PROVE Settled(k, q)'
  <2>1. CASE i = turn + 1
    BY <1>5, <2>1 DEF AtHand
  <2>2. CASE i # turn + 1
    <3>1. i \in Ahead' /\ plan'[i] = plan[i]
      BY <1>1, <1>2, <2>2
    <3> QED BY <1>3, <1>5, <3>1
  <2> QED BY <2>1, <2>2
<1>6. Settled(k, q)'
  BY <1>3, <1>4, <1>5
<1>7. stage' \in {"writing", "payload"}
  OBVIOUS
<1> QED BY <1>6, <1>7 DEF KeptAt, OnWalk

LEMMA LateSettled == ASSUME NEW k, NEW q, KeptAt(k, q), stage \in Late PROVE Settled(k, q)
BY DEF KeptAt

(* An item like what is at q, read where it leads, is what is at q.          *)
LEMMA AlikeIs ==
  ASSUME PackTypeOK, NEW k, NEW q, Framed(k, q), NEW item \in Items, Alike(item, k, q)
  PROVE  /\ q \in DOMAIN tree /\ IsPrefix(q, q) /\ q \in Beneath(k) /\ q # Nowhere
         /\ tree[q].kind = item.kind /\ Is(q, item.kind) /\ Rendered(item.name) = item.name
         /\ item.name = NameAt(k, q)
         /\ item.kind # "link" => Canonical(item.at) = q
         /\ \A t \in Stop(k, q) : t = q /\ Unstorable(k, q)
         /\ Unstorable(k, q) => q \in Stop(k, q)
         /\ ~ Barred(k, q)
<1>1. k \in Walked /\ q \in Beneath(k)
  BY DEF Framed
<1>2. q \in Paths /\ q # Nowhere /\ IsPrefix(q, q) /\ q \in DOMAIN tree
  BY <1>1, WalkedIs, NowhereNoPath, PrefixSelf
<1>3. Met(k, q) /\ item.kind = tree[q].kind /\ item.name = NameAt(k, q) /\ item.at = WayTo(k, q)
  BY DEF Alike
<1>4. Is(q, item.kind) /\ (item.kind # "link" => ~ Is(q, "link"))
  BY <1>2, <1>3 DEF Is
<1>5. Rendered(item.name) = item.name
  <2>1. item.name \in Seq(Nat)
    BY DEF Items, Paths
  <2>2. Decodable(item.name)
    BY <1>3 DEF Met
  <2> QED BY <2>1, <2>2, DecodableStays
<1>6. \A t \in Stop(k, q) : t = q /\ Unstorable(k, q)
  BY <1>3 DEF Stop, Met
<1>7. ~ Barred(k, q)
  BY <1>1, <1>2, <1>3 DEF Met
<1>8. Unstorable(k, q) => q \in Stop(k, q)
  BY <1>1, <1>2 DEF Stop
<1> QED BY <1>1, <1>2, <1>3, <1>4, <1>5, <1>6, <1>7, <1>8 DEF Met

LEMMA KeptRecord ==
  ASSUME PackTypeOK, PackTypeOK', NEW k, NEW q, Framed(k, q), KeptAt(k, q), Record
  PROVE  KeptAt(k, q)'
<1>1. /\ stage = "writing" /\ turn < Len(plan) /\ AtHand.kind # "file" /\ stage' = "writing"
      /\ turn' = turn + 1 /\ found' = found /\ plan' = plan
      /\ \/ /\ AtHand.kind # "skipped" /\ Holds(AtHand.kind)
            /\ stored' = Append(stored, Entry(AtHand.name, AtHand.kind, AtHand.to)) /\ told' = told
         \/ /\ AtHand.kind = "skipped" \/ ~ Holds(AtHand.kind)
            /\ told' = told \cup {AtHand.name} /\ stored' = stored
  BY DEF Record, walking, planning, Telling
<1>2. AtHand \in Items /\ stored \in Seq(Entries)
  BY <1>1, AtHandIs DEF PackTypeOK
<1>3. Settled(k, q)
  BY <1>1, LateSettled DEF Late
<1>4. AtHand.kind # "skipped" => Entry(AtHand.name, AtHand.kind, AtHand.to) \in Entries
  BY <1>1, <1>2 DEF Entry, Entries, Items, Paths
<1>5. told \subseteq told' /\ Range(stored) \subseteq Range(stored')
      /\ (stored' # stored => Entry(AtHand.name, AtHand.kind, AtHand.to) \in Range(stored'))
  <2>1. \A e \in Entries : Range(Append(stored, e)) = Range(stored) \cup {e}
    BY <1>2, RangeOf
  <2> QED BY <1>1, <1>4, <2>1
<1>6. /\ \A t \in Stop(k, q) : Rendered(NameAt(k, t)) \in told' => Settled(k, q)'
      /\ Stop(k, q) = {} /\ Entry(NameAt(k, q), tree[q].kind, ContentAt(q)) \in Range(stored') => Settled(k, q)'
      /\ \A item : Covers(item, k, q) /\ item \in Range(found') => Settled(k, q)'
      /\ \A i, item : Held(item, k, q) /\ i \in Ahead' /\ plan'[i] = item => Settled(k, q)'
      /\ Reading(k, q) /\ stage' = stage /\ AtHand' = AtHand /\ reader' = reader => Settled(k, q)'
  BY SettledParts
<1>7. ASSUME Held(AtHand, k, q) PROVE Settled(k, q)'
  <2>1. CASE AtHand.kind = "skipped"
    <3>1. PICK t \in Stop(k, q) : AtHand.name = Rendered(NameAt(k, t))
      BY <1>7, <2>1 DEF Held, Covers, Lost, Alike
    <3>2. AtHand.name \in told'
      BY <1>1, <2>1
    <3> QED BY <1>6, <3>1, <3>2
  <2>2. CASE AtHand.kind # "skipped"
    <3>1. Alike(AtHand, k, q)
      BY <1>7, <2>2 DEF Held, Covers, Shown
    <3>2. /\ q \in DOMAIN tree /\ tree[q].kind = AtHand.kind /\ Is(q, AtHand.kind)
          /\ Rendered(AtHand.name) = AtHand.name /\ AtHand.name = NameAt(k, q)
          /\ \A t \in Stop(k, q) : t = q /\ Unstorable(k, q)
          /\ Unstorable(k, q) => q \in Stop(k, q)
          /\ ~ Barred(k, q)
      BY <1>2, <3>1, AlikeIs
    <3>3. AtHand.kind \in {"dir", "link"} /\ (AtHand.kind = "link" => Decodable(tree[q].to))
          /\ AtHand.to = IF AtHand.kind = "link" THEN tree[q].to ELSE <<>>
      BY <1>1, <3>1 DEF Alike
    <3>4. Unstorable(k, q) <=> ~ Holds(AtHand.kind)
      <4>1. ~ Is(q, "special") /\ ~ Is(q, "file")
            /\ (Is(q, "link") <=> AtHand.kind = "link") /\ (Is(q, "dir") <=> AtHand.kind = "dir")
        BY <3>2, <3>3 DEF Is
      <4> QED BY <3>2, <3>3, <4>1 DEF Unstorable, Holds
    <3>5. CASE Holds(AtHand.kind)
      <4>1. Stop(k, q) = {}
        BY <3>2, <3>4, <3>5
      <4>2. ContentAt(q) = AtHand.to
        BY <3>2, <3>3 DEF ContentAt, Is
      <4>3. Entry(AtHand.name, AtHand.kind, AtHand.to) \in Range(stored')
        <5>1. stored' = Append(stored, Entry(AtHand.name, AtHand.kind, AtHand.to))
          BY <1>1, <2>2, <3>5
        <5>2. \A e \in Entries : Range(Append(stored, e)) = Range(stored) \cup {e}
          BY <1>2, RangeOf
        <5> QED BY <1>4, <2>2, <5>1, <5>2
      <4> QED BY <1>6, <3>2, <4>1, <4>2, <4>3
    <3>6. CASE ~ Holds(AtHand.kind)
      BY <1>1, <1>6, <3>2, <3>4, <3>6
    <3> QED BY <3>5, <3>6
  <2> QED BY <2>1, <2>2
<1> QED BY <1>1, <1>3, <1>5, <1>7, WrittenOn

LEMMA KeptOpen ==
  ASSUME PackTypeOK, PackTypeOK', NEW k, NEW q, Framed(k, q), KeptAt(k, q), Open,
         stage' \notin {"failed", "waiting"}
  PROVE  KeptAt(k, q)'
<1> DEFINE r == Canonical(AtHand.at)
<1>1. /\ stage = "writing" /\ turn < Len(plan) /\ AtHand.kind = "file"
      /\ found' = found /\ plan' = plan /\ stored' = stored /\ UNCHANGED <<tree, files, asked>>
      /\ \/ /\ Unopenable(r) /\ told' = told \cup {AtHand.name} /\ turn' = turn + 1 /\ stage' = "writing"
         \/ /\ Readable(r) /\ stage' = "payload" /\ told' = told /\ turn' = turn
            /\ reader' = [Idle EXCEPT !.ino = tree[r].ino, !.remaining = AtHand.size]
  BY DEF Open, world, walking, planning, Telling
<1>2. AtHand \in Items /\ AtHand.size \in Nat
  BY <1>1, AtHandIs DEF Items
<1>3. Settled(k, q)
  BY <1>1, LateSettled DEF Late
<1>4. told \subseteq told' /\ Range(stored) \subseteq Range(stored')
  BY <1>1
<1>6. /\ \A t \in Stop(k, q) : Rendered(NameAt(k, t)) \in told' => Settled(k, q)'
  BY SettledParts
<1>7. ASSUME Held(AtHand, k, q) PROVE Settled(k, q)'
  <2>1. Alike(AtHand, k, q) /\ (Is(q, "file") => q # target)
    BY <1>1, <1>7 DEF Held, Covers, Shown
  <2>2. /\ q \in DOMAIN tree /\ tree[q].kind = "file" /\ Is(q, "file") /\ r = q
        /\ Rendered(AtHand.name) = AtHand.name /\ AtHand.name = NameAt(k, q)
        /\ \A t \in Stop(k, q) : t = q /\ Unstorable(k, q)
        /\ Unstorable(k, q) => q \in Stop(k, q)
        /\ ~ Barred(k, q) /\ q # Nowhere
    BY <1>1, <1>2, <2>1, AlikeIs
  <2>3. ~ Is(q, "special") /\ ~ Is(q, "dir") /\ ~ Is(q, "link")
    BY <2>2 DEF Is
  <2>4. Unstorable(k, q) <=> ~ Readable(q)
    BY <2>1, <2>2, <2>3 DEF Unstorable
  <2>5. Unopenable(q) <=> ~ Readable(q)
    BY <2>2, <2>3 DEF Unopenable
  <2>6. CASE ~ Readable(q)
    BY <1>1, <1>6, <2>2, <2>4, <2>6
  <2>7. CASE Readable(q)
    <3>1. /\ stage' = "payload" /\ turn' = turn
          /\ reader' = [Idle EXCEPT !.ino = tree[q].ino, !.remaining = AtHand.size]
      BY <1>1, <2>2, <2>5, <2>7
    <3>2. /\ reader'.ino = tree[q].ino /\ reader'.at = 0 /\ reader'.remaining = AtHand.size
          /\ reader'.content = <<>> /\ Len(reader'.content) = 0
      BY <3>1 DEF Idle
    <3>3. Stop(k, q)' = {}
      <4>1. Stop(k, q)' = Stop(k, q)
        BY FrameGives
      <4> QED BY <2>2, <2>4, <2>7, <4>1
    <3>4. AtHand.size = Size(q) /\ Size(q)' = Size(q)
      BY <1>1, <2>1 DEF Alike, Size
    <3>5. NameAt(k, q)' = NameAt(k, q) /\ AtHand' = AtHand /\ Is(q, "file")'
      <4>1. \A t : NameAt(k, t)' = NameAt(k, t)
        BY FrameGives
      <4> QED BY <1>1, <2>2, <3>1, <4>1 DEF AtHand, Is
    <3>6. Reading(k, q)'
      <4>1. reader'.at + reader'.remaining = Size(q)'
        BY <1>2, <3>2, <3>4
      <4>2. \A n \in 1 .. reader'.at : FALSE
        BY <3>2
      <4> QED BY <1>1, <2>2, <3>1, <3>2, <3>3, <3>5, <4>1, <4>2 DEF Reading
    <3> QED BY <3>6 DEF Settled
  <2> QED BY <2>6, <2>7
<1> QED BY <1>1, <1>3, <1>4, <1>7, WrittenOn

LEMMA KeptRead ==
  ASSUME PackTypeOK, PackTypeOK', NEW k, NEW q, Framed(k, q), KeptAt(k, q), Read
  PROVE  KeptAt(k, q)'
<1>1. /\ stage = "payload" /\ stage' = "payload" /\ reader.remaining > 0
      /\ UNCHANGED <<turn, found, plan, told, stored, tree, files>>
      /\ Left => reader' = [reader EXCEPT !.at = @ + 1, !.remaining = @ - 1,
                                   !.content = Append(@, files[reader.ino].bytes[reader.at + 1])]
  BY DEF Read, world, walking, planning
<1>2. Settled(k, q) /\ stage' \in Late /\ ~ OnWalk'
  BY <1>1, LateSettled DEF Late, OnWalk
<1>3. Ahead' = Ahead /\ AtHand' = AtHand
  BY <1>1 DEF Ahead, AtHand
<1>4. /\ \A t \in Stop(k, q) : Rendered(NameAt(k, t)) \in told' => Settled(k, q)'
      /\ Stop(k, q) = {} /\ Entry(NameAt(k, q), tree[q].kind, ContentAt(q)) \in Range(stored') => Settled(k, q)'
      /\ \A item : Covers(item, k, q) /\ item \in Range(found') => Settled(k, q)'
      /\ \A i, item : Held(item, k, q) /\ i \in Ahead' /\ plan'[i] = item => Settled(k, q)'
      /\ Reading(k, q) /\ stage' = stage /\ AtHand' = AtHand /\ reader' = reader => Settled(k, q)'
  BY SettledParts
<1>5. ASSUME Reading(k, q) PROVE Settled(k, q)'
  <2>1. /\ Is(q, "file") /\ Stop(k, q) = {} /\ AtHand.name = NameAt(k, q) /\ reader.ino = tree[q].ino
        /\ reader.at = Len(reader.content) /\ reader.at + reader.remaining = Size(q)
        /\ \A n \in 1 .. reader.at : reader.content[n] = files[tree[q].ino].bytes[n]
    BY <1>5 DEF Reading
  <2>2. reader.at \in Nat /\ reader.remaining \in Nat /\ reader.content \in Seq(Nat)
        /\ reader = [ino |-> reader.ino, at |-> reader.at, remaining |-> reader.remaining,
                     content |-> reader.content, padded |-> reader.padded]
    <3>1. reader \in Readers
      BY DEF PackTypeOK
    <3> QED BY <3>1 DEF Readers
  <2>3. reader.at < Size(q)
    BY <1>1, <2>1, <2>2 DEF Size
  <2>4. Left
    BY <2>1, <2>2, <2>3 DEF Left, Size
  <2> DEFINE b == files[reader.ino].bytes[reader.at + 1]
             c == reader.content
  <2>5. reader' = [ino |-> reader.ino, at |-> reader.at + 1, remaining |-> reader.remaining - 1,
                   content |-> Append(c, b), padded |-> reader.padded]
    BY <1>1, <2>2, <2>4
  <2>6. reader'.ino = reader.ino /\ reader'.at = reader.at + 1 /\ reader'.remaining = reader.remaining - 1
        /\ reader'.content = Append(c, b)
    BY <2>5
  <2>7. b \in Nat
    <3>1. files[tree[q].ino].bytes \in Seq(Nat)
      <4>1. k \in Walked /\ q \in Beneath(k)
        BY DEF Framed
      <4>2. q \in DOMAIN tree /\ tree[q].kind = "file"
        BY <2>1, <4>1, WalkedIs DEF Is
      <4> QED BY <4>2, WorldIs
    <3>2. reader.at + 1 \in 1 .. Len(files[tree[q].ino].bytes)
      BY <2>2, <2>3 DEF Size
    <3>3. \A s \in Seq(Nat) : \A i \in 1 .. Len(s) : s[i] \in Nat
      OBVIOUS
    <3>4. files[tree[q].ino].bytes[reader.at + 1] \in Nat
      BY <3>1, <3>2, <3>3
    <3> QED BY <2>1, <3>4
  <2>8. Len(Append(c, b)) = reader.at + 1 /\ Append(c, b)[reader.at + 1] = b
        /\ \A n \in 1 .. reader.at : Append(c, b)[n] = c[n]
    BY <2>1, <2>2, <2>7
  <2>9. /\ NameAt(k, q)' = NameAt(k, q) /\ Stop(k, q)' = {} /\ Is(q, "file")' /\ Size(q)' = Size(q)
    <3>1. (\A t : NameAt(k, t)' = NameAt(k, t)) /\ Stop(k, q)' = Stop(k, q)
      BY FrameGives
    <3> QED BY <1>1, <2>1, <3>1 DEF Is, Size
  <2>10. \A n \in 1 .. reader.at + 1 : reader'.content[n] = files[tree[q].ino].bytes[n]
    <3>1. ASSUME NEW n \in 1 .. reader.at + 1 PROVE Append(c, b)[n] = files[tree[q].ino].bytes[n]
      <4>1. n = reader.at + 1 \/ n \in 1 .. reader.at
        BY <2>2
      <4> QED BY <2>1, <2>8, <4>1
    <3> QED BY <2>6, <3>1
  <2>11. reader'.at = Len(reader'.content) /\ reader'.at + reader'.remaining = Size(q)
    <3>1. reader'.at = Len(reader'.content)
      BY <2>6, <2>8
    <3>2. reader.at + 1 + (reader.remaining - 1) = reader.at + reader.remaining
      BY <2>2
    <3> QED BY <2>1, <2>6, <3>1, <3>2
  <2>12. Reading(k, q)'
    BY <1>1, <1>3, <2>1, <2>6, <2>9, <2>10, <2>11 DEF Reading
  <2> QED BY <2>12 DEF Settled
<1>6. Settled(k, q)'
  <2>1. \/ \E t \in Stop(k, q) : Rendered(NameAt(k, t)) \in told
        \/ Stop(k, q) = {} /\ Entry(NameAt(k, q), tree[q].kind, ContentAt(q)) \in Range(stored)
        \/ \E e \in Range(found) : Covers(e, k, q)
        \/ \E i \in Ahead : Held(plan[i], k, q)
        \/ Reading(k, q)
    BY <1>2 DEF Settled, Kept
  <2> QED BY <1>1, <1>3, <1>4, <1>5, <2>1
<1> QED BY <1>2, <1>6 DEF KeptAt

LEMMA KeptStored ==
  ASSUME PackTypeOK, PackTypeOK', NEW k, NEW q, Framed(k, q), KeptAt(k, q), Stored, stage' # "failed"
  PROVE  KeptAt(k, q)'
<1>1. /\ stage = "payload" /\ stage' = "writing" /\ reader.remaining = 0 /\ turn' = turn + 1
      /\ UNCHANGED <<found, plan>> /\ told \subseteq told'
      /\ stored' = Append(stored, Entry(AtHand.name, "file", reader.content))
  BY DEF Stored, walking, planning
<1>2. Settled(k, q) /\ stage' \in Late /\ ~ OnWalk'
  BY <1>1, LateSettled DEF Late, OnWalk
<1>3. Ahead' = Ahead
  <2>1. turn \in Nat
    BY DEF PackTypeOK
  <2>2. turn + 1 + 1 = turn + 2
    BY <2>1
  <2> QED BY <1>1, <2>2 DEF Ahead, Late
<1>4. Range(stored') = Range(stored) \cup {Entry(AtHand.name, "file", reader.content)}
  <2>1. AtHand \in Items /\ reader \in Readers /\ stored \in Seq(Entries)
    BY <1>1, AtHandIs DEF PackTypeOK
  <2>2. Entry(AtHand.name, "file", reader.content) \in Entries
    BY <2>1 DEF Entry, Entries, Items, Readers
  <2>3. \A e \in Entries : Range(Append(stored, e)) = Range(stored) \cup {e}
    BY <2>1, RangeOf
  <2> QED BY <1>1, <2>2, <2>3
<1>5. /\ \A t \in Stop(k, q) : Rendered(NameAt(k, t)) \in told' => Settled(k, q)'
      /\ Stop(k, q) = {} /\ Entry(NameAt(k, q), tree[q].kind, ContentAt(q)) \in Range(stored') => Settled(k, q)'
      /\ \A item : Covers(item, k, q) /\ item \in Range(found') => Settled(k, q)'
      /\ \A i, item : Held(item, k, q) /\ i \in Ahead' /\ plan'[i] = item => Settled(k, q)'
      /\ Reading(k, q) /\ stage' = stage /\ AtHand' = AtHand /\ reader' = reader => Settled(k, q)'
  BY SettledParts
<1>6. ASSUME Reading(k, q) PROVE Settled(k, q)'
  <2>1. /\ Is(q, "file") /\ Stop(k, q) = {} /\ AtHand.name = NameAt(k, q)
        /\ reader.at = Len(reader.content) /\ reader.at + reader.remaining = Size(q)
        /\ \A n \in 1 .. reader.at : reader.content[n] = files[tree[q].ino].bytes[n]
    BY <1>6 DEF Reading
  <2>2. reader.at \in Nat /\ reader.content \in Seq(Nat)
    <3>1. reader \in Readers
      BY DEF PackTypeOK
    <3> QED BY <3>1 DEF Readers
  <2>3. files[tree[q].ino].bytes \in Seq(Nat) /\ tree[q].kind = "file"
    <3>1. k \in Walked /\ q \in Beneath(k)
      BY DEF Framed
    <3>2. q \in DOMAIN tree /\ tree[q].kind = "file"
      BY <2>1, <3>1, WalkedIs DEF Is
    <3> QED BY <3>2, WorldIs
  <2>4. reader.content = files[tree[q].ino].bytes
    <3>1. Len(reader.content) = Len(files[tree[q].ino].bytes)
      BY <1>1, <2>1, <2>2 DEF Size
    <3>2. \A s, t \in Seq(Nat) : Len(s) = Len(t) /\ (\A n \in 1 .. Len(s) : s[n] = t[n]) => s = t
      OBVIOUS
    <3>3. \A n \in 1 .. Len(reader.content) : reader.content[n] = files[tree[q].ino].bytes[n]
      BY <2>1
    <3> QED BY <2>2, <2>3, <3>1, <3>2, <3>3
  <2>5. ContentAt(q) = reader.content
    BY <2>1, <2>4 DEF ContentAt
  <2> QED BY <1>4, <1>5, <2>1, <2>3, <2>5
<1>7. Settled(k, q)'
  <2>1. \/ \E t \in Stop(k, q) : Rendered(NameAt(k, t)) \in told
        \/ Stop(k, q) = {} /\ Entry(NameAt(k, q), tree[q].kind, ContentAt(q)) \in Range(stored)
        \/ \E e \in Range(found) : Covers(e, k, q)
        \/ \E i \in Ahead : Held(plan[i], k, q)
        \/ Reading(k, q)
    BY <1>2 DEF Settled, Kept
  <2> QED BY <1>1, <1>3, <1>4, <1>5, <1>6, <2>1
<1> QED BY <1>2, <1>7 DEF KeptAt

LEMMA KeptFinish ==
  ASSUME PackTypeOK, PackTypeOK', NEW k, NEW q, Framed(k, q), KeptAt(k, q), Finish
  PROVE  KeptAt(k, q)'
<1>1. /\ stage = "writing" /\ stage' = "done" /\ UNCHANGED <<turn, found, plan, told, stored>>
  BY DEF Finish, walking, planning
<1>2. Settled(k, q) /\ stage' \in Late /\ ~ OnWalk'
  BY <1>1, LateSettled DEF Late, OnWalk
<1>3. \A i \in Ahead : i \in Ahead' /\ plan'[i] = plan[i]
  BY <1>1 DEF Ahead, Late
<1>4. Settled(k, q)'
  BY <1>1, <1>2, <1>3, SettledOn
<1> QED BY <1>2, <1>4 DEF KeptAt

(* The other program is no step of the walk.                                 *)
LEMMA KeptStill ==
  ASSUME PackTypeOK, PackTypeOK', NEW k, NEW q, Framed(k, q), KeptAt(k, q), Changed \/ UNCHANGED packVars
  PROVE  KeptAt(k, q)'
<1>1. UNCHANGED <<stage, turn, here, stack, found, plan, told, stored, reader>>
  BY DEF Changed, packVars, walking, planning, writing
<1>2. AtHand' = AtHand /\ \A i \in Ahead : i \in Ahead' /\ plan'[i] = plan[i]
  BY <1>1 DEF Ahead, AtHand
<1>3. ASSUME Settled(k, q) PROVE Settled(k, q)'
  BY <1>1, <1>2, <1>3, SettledOn
<1>4. ASSUME Coming(k, q) PROVE Coming(k, q)'
  <2>1. /\ \A r : Due(k, q, r) /\ Reached(k, r) \in Range(stack') => Coming(k, q)'
        /\ \A r \in Beneath(k) : Met(k, r) /\ IsPrefix(r, q) /\ r # q /\ stage' = "listing"
                                  /\ here' = Reached(k, r) => Coming(k, q)'
        /\ stage' = "linking" /\ here' = Reached(k, q) /\ Due(k, q, q) /\ Met(k, q) /\ Is(q, "link") => Coming(k, q)'
        /\ stage' = "root" /\ here' = Reached(k, Base(k)) /\ Decodable(here'.name) => Coming(k, q)'
        /\ Settled(k, q)' => Coming(k, q)'
    BY ComingParts
  <2>2. here'.name = here.name
    BY <1>1
  <2> QED BY <1>1, <1>3, <1>4, <2>1, <2>2 DEF Coming, ToVisit, ToList
<1> QED BY <1>1, <1>3, <1>4 DEF KeptAt, OnWalk

LEMMA KeptInit == ASSUME PackInit PROVE KeptInv
<1>1. PackTypeOK
  BY InitTyped
<1>2. turn = 0 /\ stage = "naming"
  BY DEF PackInit
<1>3. \A k \in Walked : ~ (k <= turn)
  <2>1. \A k \in Walked : k \in 1 .. Len(asked.paths) /\ Len(asked.paths) \in Nat
    BY <1>1, WalkedIs
  <2> QED BY <1>2, <2>1
<1> QED BY <1>2, <1>3 DEF KeptInv, KeptAt, OnWalk, Late

LEMMA KeptStep ==
  ASSUME PackTypeOK, PackTypeOK', OpenedLate, KeptInv, [PackNext]_packVars PROVE KeptInv'
<1>1. stage' \notin {"refused", "failed", "waiting"} => stage \notin {"refused", "failed", "waiting"}
  <2>1. CASE UNCHANGED packVars
    BY <2>1 DEF packVars
  <2>2. CASE PackNext
    BY <2>2 DEF PackNext, Name, Root, List, Visit, ReadLink, Sift, NextPath, Create,
                Record, Open, Read, Stored, Finish, Changed, Ended
  <2> QED BY <2>1, <2>2
<1>2. ASSUME stage' \notin {"refused", "failed", "waiting"},
             NEW k \in Walked', NEW q \in Beneath(k)', Steady(k, q)'
      PROVE  KeptAt(k, q)'
  <2>1. Framed(k, q)
    BY <1>2, FrameStep
  <2>2. KeptAt(k, q)
    BY <1>1, <1>2, <2>1 DEF KeptInv, Framed
  <2>3. \/ Name \/ Root \/ List \/ Visit \/ ReadLink \/ Sift \/ NextPath \/ Create
        \/ Record \/ Open \/ Read \/ Stored \/ Finish \/ (Changed \/ UNCHANGED packVars)
    BY DEF PackNext
  <2> QED BY <1>2, <2>1, <2>2, <2>3, KeptName, KeptRoot, KeptList, KeptVisit, KeptReadLink, KeptSift,
             KeptNextPath, KeptCreate, KeptRecord, KeptOpen, KeptRead, KeptStored, KeptFinish, KeptStill
<1> QED BY <1>2 DEF KeptInv

DoneInv == stage = "done" => turn = Len(plan) /\ found = <<>>

LEMMA DoneInit == ASSUME PackInit PROVE DoneInv
BY DEF PackInit, DoneInv

LEMMA DoneStep == ASSUME PackTypeOK, DoneInv, [PackNext]_packVars PROVE DoneInv'
<1>1. CASE Early \/ Create \/ Record \/ Open \/ Read \/ Stored
  <2>1. stage' # "done"
    BY <1>1 DEF Early, Name, Root, List, Visit, ReadLink, Sift, NextPath, Create, Record, Open, Read, Stored
  <2> QED BY <2>1 DEF DoneInv
<1>2. CASE Finish
  BY <1>2 DEF Finish, DoneInv, walking, planning, PackTypeOK
<1>3. CASE Changed \/ UNCHANGED packVars
  BY <1>3 DEF Changed, DoneInv, packVars, walking, planning
<1> QED BY <1>1, <1>2, <1>3, StepIs

LEMMA KeptDone == ASSUME PackTypeOK, KeptInv, DoneInv PROVE KeptOrTold
<1>1. ASSUME stage = "done", NEW k \in Walked, NEW q \in Beneath(k), Steady(k, q)
      PROVE  IF Stop(k, q) = {} THEN Kept(k, q)
             ELSE \E t \in Stop(k, q) : Rendered(NameAt(k, t)) \in told
  <2>1. KeptAt(k, q)
    BY <1>1 DEF KeptInv
  <2>2. Settled(k, q)
    BY <1>1, <2>1 DEF KeptAt, Late
  <2>3. Ahead = {} /\ Range(found) = {}
    <3>1. turn = Len(plan) /\ turn \in Nat /\ found = <<>> /\ DOMAIN <<>> = {}
      BY <1>1 DEF DoneInv, PackTypeOK
    <3> QED BY <1>1, <3>1 DEF Ahead, Late, Range
  <2> QED BY <1>1, <2>2, <2>3 DEF Settled, Reading
<1> QED BY <1>1 DEF KeptOrTold

-------------------------------------------------------------------------------
(* The files an undisturbed run plans are the files of its tree.             *)

From(item, k, q) ==
  /\ k \in Walked /\ q \in Beneath(k) /\ Is(q, "file") /\ Met(k, q)
  /\ item.kind = "file" /\ item.name = NameAt(k, q) /\ item.at = WayTo(k, q)
  /\ item.link = link_id_of(q)
Origin ==
  \A item \in Carried : item.kind = "file" \/ item.link # NoInode => \E k, q : From(item, k, q)
PlanSpared == \A item \in Range(plan) : item.kind = "file" => Canonical(item.at) # target

Entering(s, k, r) ==
  r \in Beneath(k) /\ r # Base(k) /\ s = Reached(k, r) /\ Met(k, Front(r)) /\ tree[Front(r)].lists
ListedAt(s, k, r) == r \in Beneath(k) /\ s = Reached(k, r) /\ Met(k, r) /\ Is(r, "dir")
Route(k) ==
  /\ k \in Walked
  /\ stage = "root" => here = Reached(k, Base(k)) /\ Decodable(here.name)
  /\ stage = "listing" => \E r : ListedAt(here, k, r)
  /\ \A s \in Range(stack) : \E r : Entering(s, k, r)
OnRoute == OnWalk => \A k : k = turn + 1 => Route(k)
SourcedInv == changes = {} => Origin /\ PlanSpared /\ OnRoute

LEMMA Undisturbing ==
  ASSUME PackTypeOK, [PackNext]_packVars, changes' = {}
  PROVE  /\ changes = {} /\ tree' = tree /\ asked' = asked /\ target' = target /\ DOMAIN files' = DOMAIN files
         /\ \A i \in DOMAIN files : files'[i].reads = files[i].reads
<1>1. CASE Changed
  <2>1. \E x : changes' = changes \cup {x}
    BY <1>1, ChangeIs
  <2> QED BY <2>1
<1>2. CASE Early
  BY <1>2, EarlySteps
<1>3. ASSUME Record \/ Open \/ Read \/ Stored \/ Finish \/ UNCHANGED packVars
      PROVE  UNCHANGED <<changes, tree, files, asked, target>>
  BY <1>3 DEF Record, Open, Read, Stored, Finish, packVars, world
<1>4. CASE Create
  <2> DEFINE i == tree[Canonical(asked.dst)].ino
  <2>1. /\ UNCHANGED <<changes, tree, asked, target>>
        /\ files' = files \/ files' = [files EXCEPT ![i].bytes = <<>>]
    BY <1>4 DEF Create
  <2>2. \A j \in DOMAIN files : files[j] \in FileStates
    BY WorldIs
  <2>3. ASSUME files' = [files EXCEPT ![i].bytes = <<>>]
        PROVE  DOMAIN files' = DOMAIN files /\ \A j \in DOMAIN files : files'[j].reads = files[j].reads
    <3> HIDE DEF i
    <3>1. DOMAIN files' = DOMAIN files
      BY <2>3
    <3>2. ASSUME NEW j \in DOMAIN files PROVE files'[j].reads = files[j].reads
      <4>1. files[j] = [bytes |-> files[j].bytes, reads |-> files[j].reads]
        BY <2>2 DEF FileStates
      <4>2. CASE j = i
        <5>1. files'[j] = [files[j] EXCEPT !.bytes = <<>>]
          BY <2>3, <4>2
        <5>2. files'[j] = [bytes |-> <<>>, reads |-> files[j].reads]
          BY <4>1, <5>1
        <5> QED BY <5>2
      <4>3. CASE j # i
        BY <2>3, <4>3
      <4> QED BY <4>2, <4>3
    <3> QED BY <3>1, <3>2
  <2> QED BY <2>1, <2>3
<1> QED BY <1>1, <1>2, <1>3, <1>4, StepIs

LEMMA SamePlaces ==
  ASSUME PackTypeOK, tree' = tree, asked' = asked
  PROVE  /\ Walked' = Walked
         /\ \A k : Base(k)' = Base(k) /\ Beneath(k)' = Beneath(k)
         /\ \A k, q : /\ NameAt(k, q)' = NameAt(k, q) /\ WayTo(k, q)' = WayTo(k, q)
                      /\ Reached(k, q)' = Reached(k, q)
                      /\ Met(k, q)' = Met(k, q) /\ Barred(k, q)' = Barred(k, q)
         /\ \A i : NamesOf(i)' = NamesOf(i)
         /\ \A q : link_id_of(q)' = link_id_of(q)
         /\ \A item, k, q : From(item, k, q)' = From(item, k, q)
<1>1. /\ \A p : Canonical(p)' = Canonical(p)
      /\ \A p : entry_name_for(p)' = entry_name_for(p)
      /\ \A r, kind : Is(r, kind)' = Is(r, kind)
  BY SameTree
<1>2. Walked' = Walked /\ \A k : Base(k)' = Base(k)
  BY <1>1 DEF Walked, Base
<1>3. \A k : Beneath(k)' = Beneath(k)
  BY <1>2 DEF Beneath
<1>4. \A k, q : NameAt(k, q)' = NameAt(k, q) /\ WayTo(k, q)' = WayTo(k, q)
  BY <1>1, <1>2 DEF NameAt, WayTo
<1>5. \A k, q : Reached(k, q)' = Reached(k, q)
  BY <1>4 DEF Reached
<1>6. \A k, q : Barred(k, q)' = Barred(k, q)
  <2>1. \A q : Searchable(q)' = Searchable(q)
    BY <1>1 DEF Searchable
  <2> QED BY <1>2, <2>1 DEF Barred, Decodable
<1>7. ASSUME NEW k, NEW q PROVE Met(k, q)' = Met(k, q)
  <2>1. Canonical(WayTo(k, q))' = Canonical(WayTo(k, q))
    <3>1. Canonical(WayTo(k, q))' = LedIn(tree', WayTo(k, q)')[Len(WayTo(k, q)')]
      BY CanonicalByTree DEF Canonical, LedIn, Into, IntoIn, Searchable, Landed, LandedIn, Hop, HopIn, Is, IsIn
    <3>2. Canonical(WayTo(k, q)) = LedIn(tree, WayTo(k, q))[Len(WayTo(k, q))]
      BY CanonicalByTree
    <3> QED BY <1>4, <3>1, <3>2
  <2>2. Decodable(NameAt(k, q))' = Decodable(NameAt(k, q))
    BY <1>4 DEF Decodable
  <2> QED BY <1>1, <1>3, <1>6, <2>1, <2>2 DEF Met
<1>8. \A i : NamesOf(i)' = NamesOf(i)
  BY DEF NamesOf
<1>9. \A q : link_id_of(q)' = link_id_of(q)
  BY <1>8 DEF link_id_of, NamesOf
<1>10. \A item, k, q : From(item, k, q)' = From(item, k, q)
  BY <1>1, <1>2, <1>3, <1>4, <1>7, <1>9 DEF From
<1> QED BY <1>2, <1>3, <1>4, <1>5, <1>6, <1>7, <1>8, <1>9, <1>10

LEMMA SourcedInit == ASSUME PackInit PROVE SourcedInv
<1>1. DOMAIN <<>> = {}
  OBVIOUS
<1> QED BY <1>1 DEF PackInit, SourcedInv, Origin, PlanSpared, OnRoute, Carried, Range, OnWalk

(* What a step adds to the items has an origin of its own.                   *)
LEMMA OriginNew ==
  ASSUME PackTypeOK, tree' = tree, asked' = asked, Origin,
         \A item \in Carried' \ Carried : item.kind = "file" \/ item.link # NoInode => \E k, q : From(item, k, q)
  PROVE  Origin'
BY SamePlaces DEF Origin

LEMMA ItemFrom ==
  ASSUME PackTypeOK, NEW k \in Walked, NEW q \in Beneath(k), Met(k, q),
         NEW item, item = item_for(NameAt(k, q), WayTo(k, q), q),
         item.kind = "file" \/ item.link # NoInode
  PROVE  From(item, k, q)
<1>1. Is(q, "file") /\ ~ Is(q, "dir")
  BY DEF item_for, Skipped, Item
<1>2. item = Item(NameAt(k, q), WayTo(k, q), "file", Size(q), link_id_of(q), <<>>)
  BY <1>1 DEF item_for
<1> QED BY <1>1, <1>2 DEF From, Item

LEMMA SkippedBare == \A name : Skipped(name).kind = "skipped" /\ Skipped(name).link = NoInode
BY DEF Skipped, Item

LEMMA EnteringSame ==
  ASSUME PackTypeOK, tree' = tree, asked' = asked
  PROVE  \A s, k, r : Entering(s, k, r)' = Entering(s, k, r) /\ ListedAt(s, k, r)' = ListedAt(s, k, r)
<1>1. /\ \A k : Base(k)' = Base(k) /\ Beneath(k)' = Beneath(k)
      /\ \A k, q : Reached(k, q)' = Reached(k, q) /\ Met(k, q)' = Met(k, q)
  BY SamePlaces
<1> QED BY <1>1 DEF Entering, ListedAt, Is

(* An undisturbed step that plans nothing keeps what it does not touch.      *)
LEMMA PlanSparedSame ==
  ASSUME PackTypeOK, tree' = tree, target' = target, plan' = plan, PlanSpared PROVE PlanSpared'
BY CanonicalByTree DEF PlanSpared

LEMMA SourcedName ==
  ASSUME PackTypeOK, PackTypeOK', tree' = tree, asked' = asked, target' = target,
         Origin, PlanSpared, OnRoute, Name
  PROVE  Origin' /\ PlanSpared' /\ OnRoute'
<1>1. /\ stage = "naming" /\ stage' \in {"root", "refused"} /\ UNCHANGED <<turn, stack, found, plan>>
      /\ stage' = "root" => /\ Is(Canonical(AtTurn.at), "dir") \/ Is(Canonical(AtTurn.at), "file")
                           /\ Decodable(entry_name_for(AtTurn))
      /\ here' = [at |-> AtTurn.at, name |-> entry_name_for(AtTurn)]
      /\ turn < Len(asked.paths)
  BY DEF Name, planning
<1>2. Origin'
  <2>1. Carried' = Carried
    BY <1>1 DEF Carried
  <2> QED BY <2>1, OriginNew
<1>3. PlanSpared'
  BY <1>1, PlanSparedSame
<1>4. ASSUME OnWalk', NEW k, k = turn' + 1 PROVE Route(k)'
  <2>1. stage' = "root" /\ k = turn + 1
    BY <1>1, <1>4 DEF OnWalk
  <2>2. k \in DOMAIN asked.paths
    <3>1. asked.paths \in Seq({p \in [at : Paths, dotted : BOOLEAN] : Named(p)}) /\ turn \in Nat
      BY DEF PackTypeOK, Asks
    <3> QED BY <1>1, <2>1, <3>1
  <2>3. k \in Walked
    <3>1. Canonical(AtTurn.at) \in DOMAIN tree
      BY <1>1, <2>1 DEF Is
    <3>2. Canonical(asked.paths[k].at) # Nowhere
      BY <2>1, <3>1, WorldIs, NowhereNoPath DEF AtTurn
    <3> QED BY <2>2, <3>2 DEF Walked
  <2>4. Reached(k, Base(k)) = [at |-> asked.paths[k].at, name |-> entry_name_for(asked.paths[k])]
    BY <2>3, ReachTop DEF Reached
  <2>5. here' = Reached(k, Base(k)) /\ Decodable(here'.name)
    BY <1>1, <2>1, <2>4 DEF AtTurn
  <2>6. Walked' = Walked /\ Reached(k, Base(k))' = Reached(k, Base(k))
    <3>1. Walked' = Walked /\ (\A j : Base(j)' = Base(j)) /\ \A j, q : Reached(j, q)' = Reached(j, q)
      BY SamePlaces
    <3> QED BY <3>1 DEF Reached, WayTo, NameAt
  <2>7. Decodable(here.name)'
    BY <2>5 DEF Decodable
  <2>8. Range(stack') = {}
    <3>1. stack = <<>> /\ DOMAIN <<>> = {}
      BY <1>1 DEF PackTypeOK
    <3> QED BY <1>1, <3>1 DEF Range
  <2> QED BY <2>1, <2>3, <2>5, <2>6, <2>7, <2>8 DEF Route
<1> QED BY <1>2, <1>3, <1>4 DEF OnRoute

LEMMA SourcedRoot ==
  ASSUME PackTypeOK, PackTypeOK', tree' = tree, asked' = asked, target' = target,
         Origin, PlanSpared, OnRoute, Root
  PROVE  Origin' /\ PlanSpared' /\ OnRoute'
<1> DEFINE real == Canonical(here.at)
<1>1. PICK k : k = turn + 1
  OBVIOUS
<1>2. /\ stage = "root" /\ UNCHANGED <<turn, here, stack, plan>>
      /\ stage' = IF real = Nowhere THEN "refused" ELSE IF Is(real, "dir") THEN "listing" ELSE "walking"
  BY DEF Root, planning
<1>3. /\ k \in Walked /\ here = Reached(k, Base(k)) /\ Decodable(here.name)
      /\ \A s \in Range(stack) : \E r : Entering(s, k, r)
  BY <1>1, <1>2 DEF OnRoute, OnWalk, Route
<1>4. /\ here.at = WayTo(k, Base(k)) /\ here.name = NameAt(k, Base(k)) /\ real = Base(k)
  BY <1>3, ReachTop DEF Reached, Base
<1>5. Base(k) \in Beneath(k) /\ Met(k, Base(k))
  <2>1. /\ Base(k) \in Beneath(k) /\ Base(k) \in Paths
        /\ \A r \in Beneath(k) : r \in Paths /\ IsPrefix(Base(k), r)
    BY <1>3, WalkedIs
  <2>2. ASSUME NEW t \in Beneath(k), IsPrefix(t, Base(k)) PROVE t = Base(k)
    <3>1. t \in Paths /\ IsPrefix(Base(k), t) /\ Len(t) \in Nat /\ Len(Base(k)) \in Nat
      BY <2>1, PathBasics
    <3>2. \A a, b \in Paths : IsPrefix(a, b) => Len(a) <= Len(b) /\ (a # b => Len(a) < Len(b))
      BY PrefixSteps
    <3> QED BY <2>1, <2>2, <3>1, <3>2
  <2> QED BY <1>3, <1>4, <2>1, <2>2 DEF Met, Barred
<1>6. Origin'
  <2>1. Carried' \subseteq Carried \cup {item_for(NameAt(k, Base(k)), WayTo(k, Base(k)), Base(k))}
    <3>1. Carried' \subseteq Carried \cup
              (IF Canonical(here.at) = Nowhere THEN {} ELSE {item_for(here.name, here.at, Canonical(here.at))})
      BY CarriedSteps
    <3> QED BY <1>4, <3>1
  <2>2. \A item \in Carried' \ Carried : item.kind = "file" \/ item.link # NoInode => \E j, q : From(item, j, q)
    BY <1>3, <1>5, <2>1, ItemFrom
  <2> QED BY <2>2, OriginNew
<1>7. PlanSpared'
  BY <1>2, PlanSparedSame
<1>8. ASSUME OnWalk' PROVE Route(k)'
  <2>1. stage' # "root" /\ (stage' = "listing" => Is(real, "dir"))
    BY <1>2
  <2>2. Walked' = Walked
    BY SamePlaces
  <2>3. stage' = "listing" => ListedAt(here, k, Base(k))
    BY <1>3, <1>4, <1>5, <2>1 DEF ListedAt
  <2> QED BY <1>2, <1>3, <2>1, <2>2, <2>3, EnteringSame DEF Route, ListedAt
<1> QED BY <1>1, <1>2, <1>6, <1>7, <1>8 DEF OnRoute

LEMMA SourcedList ==
  ASSUME PackTypeOK, PackTypeOK', tree' = tree, asked' = asked, target' = target,
         Origin, PlanSpared, OnRoute, List
  PROVE  Origin' /\ PlanSpared' /\ OnRoute'
<1> DEFINE real == Canonical(here.at)
           kids == Children(here, real)
<1>1. PICK k : k = turn + 1
  OBVIOUS
<1>2. /\ stage = "listing" /\ stage' = "walking" /\ UNCHANGED <<turn, here, plan>>
      /\ \/ Is(real, "dir") /\ tree[real].lists /\ stack' = kids \o stack
         \/ stack' = stack
  BY DEF List, planning
<1>3. /\ k \in Walked /\ (\E r : ListedAt(here, k, r))
      /\ \A s \in Range(stack) : \E r : Entering(s, k, r)
  BY <1>1, <1>2 DEF OnRoute, OnWalk, Route
<1>4. PICK r : r \in Beneath(k) /\ here = Reached(k, r) /\ Met(k, r) /\ Is(r, "dir")
  BY <1>3 DEF ListedAt
<1>5. here.at = WayTo(k, r) /\ here.name = NameAt(k, r) /\ real = r
  BY <1>4 DEF Reached, Met, Is
<1>6. Origin'
  <2>1. Carried' \subseteq Carried \cup {Skipped(here.name)}
    BY CarriedSteps
  <2>2. \A item \in Carried' \ Carried : ~ (item.kind = "file" \/ item.link # NoInode)
    BY <2>1, SkippedBare
  <2> QED BY <2>2, OriginNew
<1>7. PlanSpared'
  BY <1>2, PlanSparedSame
<1>8. \A s \in Range(stack') : \E t : Entering(s, k, t)
  <2>1. CASE stack' = stack
    BY <1>3, <2>1
  <2>2. CASE Is(real, "dir") /\ tree[real].lists /\ stack' = kids \o stack
    <3>1. stack \in Seq(Spots) /\ here \in Spots
      <4>1. here \in [at : Paths, name : Paths \cup {Nowhere}] /\ here.name \in Paths /\ stack \in Seq(Spots)
        BY <1>2 DEF PackTypeOK
      <4> QED BY <4>1 DEF Spots
    <3>2. /\ kids \in Seq(Spots)
          /\ \A i \in DOMAIN kids : \E c \in NamesIn(real) : kids[i] = Child(here, c)
      <4>1. Tree(tree, DOMAIN files)
        BY DEF PackTypeOK
      <4> QED BY <3>1, <4>1, ChildrenAre
    <3>3. Range(stack') = Range(kids) \cup Range(stack)
      BY <2>2, <3>1, <3>2, RangeOf
    <3>4. ASSUME NEW s \in Range(kids) PROVE \E t : Entering(s, k, t)
      <4>1. PICK c \in NamesIn(r) : s = Child(here, c)
        BY <1>5, <3>2 DEF Range
      <4>2. PICK t \in DOMAIN tree : t # <<>> /\ Front(t) = r /\ Last(t) = c
        BY DEF NamesIn
      <4>3. t \in Paths /\ r \in Paths /\ IsPrefix(Base(k), r) /\ Base(k) \in Paths
        BY <1>3, <1>4, WorldIs, WalkedIs
      <4>4. IsPrefix(r, t) /\ Len(r) < Len(t)
        <5>1. IsPrefix(t, t)
          BY <4>3, PrefixSelf
        <5>2. IsPrefix(Front(t), t) /\ Front(t) # t
          BY <4>2, <4>3, <5>1, PrefixSteps
        <5> QED BY <4>2, <4>3, <5>2, PrefixSteps
      <4>5. IsPrefix(Base(k), t) /\ Len(Base(k)) <= Len(r)
        BY <4>3, <4>4, PrefixSteps
      <4>6. t # Base(k)
        <5>1. Len(t) \in Nat /\ Len(r) \in Nat /\ Len(Base(k)) \in Nat
          BY <4>3, PathBasics
        <5> QED BY <4>4, <4>5, <5>1
      <4>7. t \in Beneath(k)
        BY <4>5 DEF Beneath
      <4>8. WayTo(k, t) = Append(WayTo(k, r), c) /\ NameAt(k, t) = Append(NameAt(k, r), c)
        BY <1>3, <4>2, <4>6, <4>7, ReachEnd
      <4>9. s = Reached(k, t)
        BY <1>5, <4>1, <4>8 DEF Child, Reached
      <4> QED BY <1>4, <1>5, <2>2, <4>2, <4>6, <4>7, <4>9 DEF Entering
    <3> QED BY <1>3, <3>3, <3>4
  <2> QED BY <1>2, <2>1, <2>2
<1>9. Route(k)'
  <2>1. Walked' = Walked
    BY SamePlaces
  <2> QED BY <1>2, <1>3, <1>8, <2>1, EnteringSame DEF Route
<1> QED BY <1>1, <1>2, <1>6, <1>7, <1>9 DEF OnRoute

LEMMA SourcedVisit ==
  ASSUME PackTypeOK, PackTypeOK', tree' = tree, asked' = asked, target' = target,
         Origin, PlanSpared, OnRoute, Visit
  PROVE  Origin' /\ PlanSpared' /\ OnRoute'
<1> DEFINE child == Head(stack)
           spot == Spot(child.at)
           lost == spot = Nowhere \/ ~ Decodable(<<Last(child.name)>>)
<1>1. PICK k : k = turn + 1
  OBVIOUS
<1>2. /\ stage = "walking" /\ stack # <<>> /\ here' = child /\ stack' = Tail(stack) /\ UNCHANGED <<turn, plan>>
      /\ stage' \in {"walking", "linking", "listing"}
      /\ stage' = "listing" => ~ lost /\ Is(spot, "dir")
      /\ \/ found' = found
         \/ found' = Append(found, Skipped(child.name))
         \/ ~ lost /\ ~ Is(spot, "link") /\ found' = Append(found, item_for(child.name, child.at, spot))
  BY DEF Visit, planning
<1>3. /\ k \in Walked /\ \A s \in Range(stack) : \E r : Entering(s, k, r)
  BY <1>1, <1>2 DEF OnRoute, OnWalk, Route
<1>4. Range(stack) = {child} \cup Range(stack')
  <2>1. stack \in Seq(Spots)
    BY DEF PackTypeOK
  <2> QED BY <1>2, <2>1, RangeOf
<1>5. PICK r : r \in Beneath(k) /\ r # Base(k) /\ child = Reached(k, r) /\ Met(k, Front(r)) /\ tree[Front(r)].lists
  BY <1>3, <1>4 DEF Entering
<1>6. /\ child.at = WayTo(k, r) /\ child.name = NameAt(k, r) /\ r \in DOMAIN tree /\ r # Nowhere
  BY <1>3, <1>5, WalkedIs, WorldIs, NowhereNoPath DEF Reached
<1>7. spot = (IF Searchable(Front(r)) THEN r ELSE Nowhere) /\ Last(child.name) = Last(r)
  BY <1>3, <1>5, <1>6, SpotAt
<1>8. ~ lost => spot = r /\ Met(k, r)
  <2>1. ~ lost => ~ Barred(k, r)
    BY <1>6, <1>7 DEF Barred
  <2> QED BY <1>3, <1>5, <1>7, <2>1, MeetChild
<1>9. Origin'
  <2> DEFINE e == item_for(child.name, child.at, spot)
  <2>1. Carried' \subseteq Carried \cup {Skipped(child.name)} \cup IF lost THEN {} ELSE {e}
    <3>1. found \in Seq(Items)
      BY DEF PackTypeOK
    <3>2. \A x : Range(Append(found, x)) = Range(found) \cup {x}
      BY <3>1, AppendRange
    <3> HIDE DEF e, lost, child
    <3> QED BY <1>2, <3>2 DEF Carried, e
  <2>2. ~ lost => e = item_for(NameAt(k, r), WayTo(k, r), r)
    BY <1>6, <1>8
  <2>3. \A item \in Carried' \ Carried : item.kind = "file" \/ item.link # NoInode => \E j, q : From(item, j, q)
    <3> HIDE DEF e, lost
    <3> QED BY <1>3, <1>5, <1>8, <2>1, <2>2, ItemFrom, SkippedBare
  <2> QED BY <2>3, OriginNew
<1>10. PlanSpared'
  BY <1>2, PlanSparedSame
<1>11. Route(k)'
  <2>1. Walked' = Walked
    BY SamePlaces
  <2>2. stage' = "listing" => ListedAt(child, k, r)
    BY <1>2, <1>5, <1>8 DEF ListedAt
  <2>3. stage' = "listing" => \E t : ListedAt(here, k, t)'
    BY <1>2, <2>2, EnteringSame DEF ListedAt
  <2>4. \A s \in Range(stack') : \E t : Entering(s, k, t)'
    BY <1>3, <1>4, EnteringSame
  <2> QED BY <1>2, <1>3, <2>1, <2>3, <2>4 DEF Route
<1> QED BY <1>1, <1>2, <1>9, <1>10, <1>11 DEF OnRoute

LEMMA SourcedReadLink ==
  ASSUME PackTypeOK, PackTypeOK', tree' = tree, asked' = asked, target' = target,
         Origin, PlanSpared, OnRoute, ReadLink
  PROVE  Origin' /\ PlanSpared' /\ OnRoute'
<1>1. /\ stage = "linking" /\ stage' = "walking" /\ UNCHANGED <<turn, here, stack, plan>>
  BY DEF ReadLink, planning
<1>2. Origin'
  <2>1. Carried' \subseteq Carried \cup {Skipped(here.name)} \cup
              (IF Is(Spot(here.at), "link") THEN {LinkItem} ELSE {})
    BY CarriedSteps
  <2>2. LinkItem.kind = "link" /\ LinkItem.link = NoInode
    BY DEF LinkItem, Item
  <2>3. \A item \in Carried' \ Carried : ~ (item.kind = "file" \/ item.link # NoInode)
    BY <2>1, <2>2, SkippedBare
  <2> QED BY <2>3, OriginNew
<1>3. PlanSpared'
  BY <1>1, PlanSparedSame
<1>4. ASSUME NEW k, k = turn + 1 PROVE Route(k)'
  <2>1. /\ k \in Walked /\ \A s \in Range(stack) : \E r : Entering(s, k, r)
    BY <1>1, <1>4 DEF OnRoute, OnWalk, Route
  <2>2. Walked' = Walked
    BY SamePlaces
  <2>3. \A s \in Range(stack') : \E r : Entering(s, k, r)'
    BY <1>1, <2>1, EnteringSame
  <2> QED BY <1>1, <2>1, <2>2, <2>3 DEF Route
<1> QED BY <1>1, <1>2, <1>3, <1>4 DEF OnRoute

LEMMA SourcedSift ==
  ASSUME PackTypeOK, PackTypeOK', tree' = tree, asked' = asked, target' = target,
         Origin, PlanSpared, OnRoute, Sift
  PROVE  Origin' /\ PlanSpared' /\ OnRoute'
<1> DEFINE item == Head(found)
<1>1. /\ stage = "walking" /\ stage' \in {"walking", "refused"} /\ stack = <<>> /\ UNCHANGED <<turn, here, stack>>
      /\ found # <<>>
      /\ plan' = plan \/ (~ is_output_file(item) /\ plan' = Append(plan, item))
  BY DEF Sift
<1>2. Origin'
  <2>1. Carried' \subseteq Carried
    BY CarriedSteps
  <2> QED BY <2>1, OriginNew
<1>3. PlanSpared'
  <2>1. \A p : Canonical(p)' = Canonical(p)
    BY CanonicalByTree
  <2>2. found \in Seq(Items) /\ plan \in Seq(Items)
    BY DEF PackTypeOK
  <2>3. CASE plan' = plan
    BY <2>3, PlanSparedSame
  <2>4. CASE ~ is_output_file(item) /\ plan' = Append(plan, item)
    <3>1. Range(Append(plan, item)) = Range(plan) \cup {item} /\ item \in Range(found)
      <4>1. \A x : Range(Append(plan, x)) = Range(plan) \cup {x}
        BY <2>2, AppendRange
      <4>2. Range(found) = {item} \cup Range(Tail(found))
        BY <1>1, <2>2, RangeOf
      <4> QED BY <4>1, <4>2
    <3>2. item.kind = "file" => Canonical(item.at) # target
      <4>1. SUFFICES ASSUME item.kind = "file" PROVE Canonical(item.at) # target
        OBVIOUS
      <4>2. PICK k, q : From(item, k, q)
        BY <3>1, <4>1 DEF Origin, Carried
      <4>3. q \in DOMAIN tree /\ k \in Walked /\ Canonical(item.at) = q
        BY <4>2 DEF From, Is, Met, Beneath
      <4>4. q # Nowhere
        BY <4>3, WorldIs, NowhereNoPath
      <4> QED BY <2>4, <4>1, <4>3, <4>4 DEF is_output_file
    <3> HIDE DEF item
    <3> QED BY <2>1, <2>4, <3>1, <3>2 DEF PlanSpared
  <2> QED BY <1>1, <2>3, <2>4
<1>4. ASSUME OnWalk', NEW k, k = turn + 1 PROVE Route(k)'
  <2>1. stage' = "walking" /\ OnWalk
    BY <1>1, <1>4 DEF OnWalk
  <2>2. k \in Walked /\ Walked' = Walked
    BY <1>4, <2>1, SamePlaces DEF OnRoute, Route
  <2>3. Range(stack') = {}
    <3>1. DOMAIN <<>> = {}
      OBVIOUS
    <3> QED BY <1>1, <3>1 DEF Range
  <2> QED BY <2>1, <2>2, <2>3 DEF Route
<1> QED BY <1>1, <1>2, <1>3, <1>4 DEF OnRoute

LEMMA SourcedStep ==
  ASSUME PackTypeOK, PackTypeOK', SourcedInv, [PackNext]_packVars PROVE SourcedInv'
<1>1. SUFFICES ASSUME changes' = {} PROVE Origin' /\ PlanSpared' /\ OnRoute'
  BY DEF SourcedInv
<1>2. changes = {} /\ tree' = tree /\ asked' = asked /\ target' = target
  BY <1>1, Undisturbing
<1>3. Origin /\ PlanSpared /\ OnRoute
  BY <1>2 DEF SourcedInv
<1>4. ASSUME Carried' = Carried, plan' = plan, ~ OnWalk' PROVE Origin' /\ PlanSpared' /\ OnRoute'
  <2>1. Origin'
    BY <1>2, <1>3, <1>4, OriginNew
  <2> QED BY <1>2, <1>3, <1>4, <2>1, PlanSparedSame DEF OnRoute
<1>5. ASSUME NextPath \/ Create \/ Record \/ Open \/ Read \/ Stored \/ Finish PROVE Origin' /\ PlanSpared' /\ OnRoute'
  <2>1. Carried' = Carried
    BY <1>5, CarriedSteps
  <2>2. plan' = plan /\ stage' \in {"naming", "refused"} \cup Late
    BY <1>5 DEF NextPath, Create, Record, Open, Read, Stored, Finish, planning, Late
  <2>3. ~ OnWalk'
    BY <2>2 DEF OnWalk, Late
  <2> QED BY <1>4, <2>1, <2>2, <2>3
<1>6. ASSUME Changed \/ UNCHANGED packVars PROVE Origin' /\ PlanSpared' /\ OnRoute'
  <2>1. UNCHANGED <<stage, turn, here, stack, found, plan>>
    BY <1>6 DEF Changed, packVars, walking, planning
  <2>2. Carried' = Carried
    BY <2>1 DEF Carried
  <2>3. Origin' /\ PlanSpared'
    BY <1>2, <1>3, <2>1, <2>2, OriginNew, PlanSparedSame
  <2>4. ASSUME NEW k, Route(k) PROVE Route(k)'
    <3>1. Walked' = Walked /\ (\A j : Base(j)' = Base(j)) /\ \A j, q : Reached(j, q)' = Reached(j, q)
      BY <1>2, SamePlaces
    <3>2. Reached(k, Base(k))' = Reached(k, Base(k))
      BY <3>1 DEF Reached, WayTo, NameAt
    <3>3. Decodable(here.name)' = Decodable(here.name)
      BY <2>1 DEF Decodable
    <3>4. \A s, r : Entering(s, k, r)' = Entering(s, k, r) /\ ListedAt(s, k, r)' = ListedAt(s, k, r)
      BY <1>2, EnteringSame
    <3>5. (\E r : ListedAt(here, k, r)) => \E r : ListedAt(here, k, r)'
      BY <2>1, <3>4 DEF ListedAt
    <3> QED BY <2>1, <2>4, <3>1, <3>2, <3>3, <3>4, <3>5 DEF Route
  <2> QED BY <1>3, <2>1, <2>3, <2>4 DEF OnRoute, OnWalk
<1> QED BY <1>2, <1>3, <1>5, <1>6, SourcedName, SourcedRoot, SourcedList, SourcedVisit, SourcedReadLink,
           SourcedSift DEF PackNext

-------------------------------------------------------------------------------
(* Each path's root is in the plan, under a name of its own.                 *)
EntryOf(k) == entry_name_for(asked.paths[k])
RootLeft(k) == Is(Base(k), "file") /\ Base(k) = target
RootIn(k) == RootLeft(k) \/ EntryOf(k) \in Claimed
Apart(k) == \A j \in Walked : j < k /\ EntryOf(j) = EntryOf(k) => RootLeft(j) \/ RootLeft(k)
Begun(k) ==
  /\ found # <<>> /\ Head(found).name = EntryOf(k) /\ Head(found).at = asked.paths[k].at
  /\ Head(found).kind \in {"dir", "file"} /\ (Head(found).kind = "file" => Is(Base(k), "file"))
RootsInv ==
  changes = {} /\ stage # "refused" =>
    /\ \A k \in Walked : k <= turn \/ stage \in Late => RootIn(k) /\ Apart(k)
    /\ OnWalk /\ stage # "root" => \A k \in Walked : k = turn + 1 => Begun(k) \/ (RootIn(k) /\ Apart(k))

LEMMA RootsInit == ASSUME PackInit PROVE RootsInv
<1>1. PackTypeOK
  BY InitTyped
<1>2. turn = 0 /\ stage = "naming"
  BY DEF PackInit
<1>3. \A k \in Walked : ~ (k <= turn)
  <2>1. \A k \in Walked : k \in 1 .. Len(asked.paths) /\ Len(asked.paths) \in Nat
    BY <1>1, WalkedIs
  <2> QED BY <1>2, <2>1
<1> QED BY <1>2, <1>3 DEF RootsInv, OnWalk, Late

LEMMA RootsSame ==
  ASSUME PackTypeOK, tree' = tree, asked' = asked, target' = target, Claimed \subseteq Claimed', NEW k
  PROVE  /\ Walked' = Walked /\ EntryOf(k)' = EntryOf(k)
         /\ RootLeft(k)' = RootLeft(k) /\ (RootIn(k) => RootIn(k)') /\ Apart(k)' = Apart(k)
<1>1. /\ Walked' = Walked /\ \A j : Base(j)' = Base(j)
  BY SamePlaces
<1>2. \A j : EntryOf(j)' = EntryOf(j)
  BY SameTree DEF EntryOf
<1>3. \A j : RootLeft(j)' = RootLeft(j)
  BY <1>1 DEF RootLeft, Is
<1> QED BY <1>1, <1>2, <1>3 DEF RootIn, Apart

LEMMA BegunSame ==
  ASSUME PackTypeOK, tree' = tree, asked' = asked, found' # <<>>, Head(found') = Head(found), NEW k, Begun(k)
  PROVE  Begun(k)'
<1>1. Base(k)' = Base(k) /\ EntryOf(k)' = EntryOf(k)
  BY SamePlaces, SameTree DEF EntryOf
<1> QED BY <1>1 DEF Begun, Is

LEMMA RootsStep ==
  ASSUME PackTypeOK, PackTypeOK', SourcedInv, RefusedInv, RootsInv, [PackNext]_packVars PROVE RootsInv'
<1>1. SUFFICES ASSUME changes' = {}, stage' # "refused" PROVE RootsInv'
  BY DEF RootsInv
<1>2. changes = {} /\ tree' = tree /\ asked' = asked /\ target' = target
  BY <1>1, Undisturbing
<1>3. stage # "refused"
  <2>1. CASE UNCHANGED packVars
    BY <1>1, <2>1 DEF packVars
  <2>2. CASE PackNext
    BY <2>2 DEF PackNext, Name, Root, List, Visit, ReadLink, Sift, NextPath, Create,
                Record, Open, Read, Stored, Finish, Changed, Ended
  <2> QED BY <2>1, <2>2
<1>4. /\ \A k \in Walked : k <= turn \/ stage \in Late => RootIn(k) /\ Apart(k)
      /\ OnWalk /\ stage # "root" => \A k \in Walked : k = turn + 1 => Begun(k) \/ (RootIn(k) /\ Apart(k))
  BY <1>2, <1>3 DEF RootsInv
<1>5. turn \in Nat /\ Len(asked.paths) \in Nat /\ \A k \in Walked : k \in 1 .. Len(asked.paths)
  <2>1. asked.paths \in Seq({p \in [at : Paths, dotted : BOOLEAN] : Named(p)}) /\ turn \in Nat
    BY DEF PackTypeOK, Asks
  <2> QED BY <2>1, WalkedIs
<1>6. \A k \in Walked : k \in Nat
  BY <1>5
<1>7. plan' = plan => Claimed' = Claimed
  BY DEF Claimed
<1>8. ASSUME Claimed \subseteq Claimed', NEW k, RootIn(k), Apart(k) PROVE RootIn(k)' /\ Apart(k)'
  BY <1>2, <1>8, RootsSame
<1>9. ASSUME Claimed \subseteq Claimed' PROVE Walked' = Walked
  BY <1>2, <1>9, RootsSame
<1>10. CASE Name
  <2>1. stage = "naming" /\ stage' = "root" /\ turn' = turn /\ plan' = plan
    BY <1>1, <1>10 DEF Name, planning
  <2> QED BY <1>4, <1>7, <1>8, <1>9, <2>1 DEF RootsInv, Late
<1>11. CASE Root
  <2>1. /\ stage = "root" /\ stage' \in {"walking", "listing"} /\ turn' = turn /\ plan' = plan
        /\ Canonical(here.at) # Nowhere /\ found' = <<item_for(here.name, here.at, Canonical(here.at))>>
    BY <1>1, <1>11 DEF Root, planning
  <2>2. ASSUME NEW k \in Walked, k = turn + 1 PROVE Begun(k)'
    <3>1. here = Reached(k, Base(k))
      BY <1>2, <2>1, <2>2 DEF SourcedInv, OnRoute, Route, OnWalk
    <3>2. here.at = asked.paths[k].at /\ here.name = EntryOf(k) /\ Canonical(here.at) = Base(k)
      BY <3>1, ReachTop DEF Reached, EntryOf, Base
    <3>3. Is(Base(k), "dir") \/ Is(Base(k), "file")
      BY <1>2, <2>1, <3>2 DEF RefusedInv, Undisturbed, HereKnown, Late
    <3> DEFINE e == item_for(here.name, here.at, Base(k))
    <3>4. /\ e.name = EntryOf(k) /\ e.at = asked.paths[k].at
          /\ e.kind \in {"dir", "file"} /\ (e.kind = "file" => Is(Base(k), "file"))
      BY <3>2, <3>3 DEF item_for, Item
    <3> HIDE DEF e
    <3>5. found' = <<e>>
      BY <2>1, <3>2 DEF e
    <3>6. found' # <<>> /\ Head(found') = e
      BY <3>5
    <3>7. Base(k)' = Base(k) /\ EntryOf(k)' = EntryOf(k)
      BY <1>2, SamePlaces, SameTree DEF EntryOf
    <3> QED BY <1>2, <3>4, <3>6, <3>7 DEF Begun, Is
  <2> QED BY <1>4, <1>7, <1>8, <1>9, <2>1, <2>2 DEF RootsInv, Late
<1>12. CASE List \/ Visit \/ ReadLink
  <2>1. /\ stage \in {"listing", "walking", "linking"} /\ stage' \in {"listing", "walking", "linking"}
        /\ turn' = turn /\ plan' = plan
        /\ found' = found \/ \E e : found' = Append(found, e)
    BY <1>12 DEF List, Visit, ReadLink, planning
  <2>2. OnWalk /\ stage # "root" /\ stage' \notin Late /\ stage \notin Late
    BY <2>1 DEF OnWalk, Late
  <2>3. ASSUME found # <<>> PROVE found' # <<>> /\ Head(found') = Head(found)
    <3>1. found \in Seq(Items)
      BY DEF PackTypeOK
    <3>2. ASSUME NEW e, found' = Append(found, e) PROVE found' # <<>> /\ Head(found') = Head(found)
      <4>1. found \in Seq(Items \cup {e})
        BY <3>1
      <4> QED BY <2>3, <3>2, <4>1
    <3> QED BY <2>1, <2>3, <3>2
  <2>4. ASSUME NEW k, Begun(k) PROVE Begun(k)'
    <3>1. found # <<>>
      BY <2>4 DEF Begun
    <3> QED BY <1>2, <2>3, <2>4, <3>1, BegunSame
  <2> QED BY <1>4, <1>7, <1>8, <1>9, <2>1, <2>2, <2>4 DEF RootsInv
<1>13. CASE Sift
  <2> DEFINE item == Head(found)
  <2>1. /\ stage = "walking" /\ stage' = "walking" /\ turn' = turn /\ found # <<>> /\ found' = Tail(found)
        /\ \/ is_output_file(item) /\ plan' = plan
           \/ /\ ~ is_output_file(item) /\ (item.kind = "skipped" \/ item.name \notin Claimed)
              /\ plan' = Append(plan, item)
    BY <1>1, <1>13 DEF Sift
  <2>2. found \in Seq(Items) /\ plan \in Seq(Items) /\ item \in Items
    <3>1. found \in Seq(Items) /\ plan \in Seq(Items)
      BY DEF PackTypeOK
    <3> QED BY <2>1, <3>1
  <2>3. Claimed \subseteq Claimed' /\ (plan' = Append(plan, item) /\ item.kind # "skipped" => item.name \in Claimed')
    <3>1. \A e \in Items : /\ Len(Append(plan, e)) = Len(plan) + 1 /\ Append(plan, e)[Len(plan) + 1] = e
                          /\ \A i \in 1 .. Len(plan) : Append(plan, e)[i] = plan[i]
                          /\ DOMAIN Append(plan, e) = 1 .. Len(plan) + 1
      BY <2>2
    <3>2. Len(plan) \in Nat /\ DOMAIN plan = 1 .. Len(plan)
      BY <2>2
    <3>3. plan' = Append(plan, item) => /\ \A i \in DOMAIN plan : i \in DOMAIN plan' /\ plan'[i] = plan[i]
                                        /\ Len(plan) + 1 \in DOMAIN plan' /\ plan'[Len(plan) + 1] = item
      <4> HIDE DEF item
      <4>1. 1 .. Len(plan) \subseteq 1 .. Len(plan) + 1 /\ Len(plan) + 1 \in 1 .. Len(plan) + 1
        BY <3>2
      <4> QED BY <2>2, <3>1, <3>2, <4>1
    <3> HIDE DEF item
    <3> QED BY <1>7, <2>1, <3>3 DEF Claimed
  <2>4. ASSUME NEW k \in Walked, k = turn + 1, Begun(k) PROVE RootIn(k)' /\ Apart(k)'
    <3>1. /\ item.name = EntryOf(k) /\ item.at = asked.paths[k].at
          /\ item.kind \in {"dir", "file"} /\ (item.kind = "file" => Is(Base(k), "file"))
      BY <2>4 DEF Begun
    <3> HIDE DEF item
    <3>2. CASE is_output_file(item)
      <4>1. RootLeft(k)
        BY <3>1, <3>2 DEF is_output_file, RootLeft, Base
      <4>2. RootIn(k) /\ Apart(k)
        BY <4>1 DEF RootIn, Apart
      <4> QED BY <1>8, <2>3, <4>2
    <3>3. CASE ~ is_output_file(item)
      <4>1. item.name \notin Claimed /\ item.name \in Claimed'
        BY <2>1, <2>3, <3>1, <3>3
      <4>2. Apart(k)
        <5>1. ASSUME NEW j \in Walked, j < k, EntryOf(j) = EntryOf(k) PROVE RootLeft(j)
          <6>1. j <= turn
            BY <1>5, <1>6, <2>4, <5>1
          <6> QED BY <1>4, <3>1, <4>1, <5>1, <6>1 DEF RootIn
        <5> QED BY <5>1 DEF Apart
      <4>3. EntryOf(k)' = EntryOf(k) /\ Apart(k)' = Apart(k)
        BY <1>2, <2>3, RootsSame
      <4> QED BY <3>1, <4>1, <4>2, <4>3 DEF RootIn
    <3> QED BY <3>2, <3>3
  <2>5. OnWalk /\ stage # "root" /\ stage' \notin Late /\ stage \notin Late
    BY <2>1 DEF OnWalk, Late
  <2> QED BY <1>4, <1>8, <1>9, <2>1, <2>3, <2>4, <2>5 DEF RootsInv
<1>14. CASE NextPath
  <2>1. stage = "walking" /\ found = <<>> /\ stage' = "naming" /\ turn' = turn + 1 /\ plan' = plan
    BY <1>14 DEF NextPath, planning
  <2>2. OnWalk /\ ~ OnWalk' /\ stage' \notin Late
    BY <2>1 DEF OnWalk, Late
  <2>3. ASSUME NEW k \in Walked, k <= turn + 1 PROVE RootIn(k) /\ Apart(k)
    <3>1. k <= turn \/ k = turn + 1
      BY <1>5, <1>6, <2>3
    <3> QED BY <1>4, <2>1, <2>2, <3>1 DEF Begun
  <2> QED BY <1>7, <1>8, <1>9, <2>1, <2>2, <2>3 DEF RootsInv
<1>15. CASE Create
  <2>1. stage = "naming" /\ turn = Len(asked.paths) /\ stage' = "writing" /\ plan' = plan
    BY <1>1, <1>15 DEF Create, planning
  <2>2. ~ OnWalk'
    BY <2>1 DEF OnWalk
  <2>3. \A k \in Walked : k <= turn
    BY <1>5, <2>1
  <2> QED BY <1>4, <1>7, <1>8, <1>9, <2>1, <2>2, <2>3 DEF RootsInv
<1>16. ASSUME Record \/ Open \/ Read \/ Stored \/ Finish PROVE RootsInv'
  <2>1. stage \in Late /\ stage' \in Late /\ plan' = plan
    BY <1>16 DEF Record, Open, Read, Stored, Finish, Late, planning
  <2>2. ~ OnWalk'
    BY <2>1 DEF OnWalk, Late
  <2> QED BY <1>4, <1>7, <1>8, <1>9, <2>1, <2>2 DEF RootsInv
<1>17. CASE Changed \/ UNCHANGED packVars
  <2>1. UNCHANGED <<stage, turn, found, plan>>
    BY <1>17 DEF Changed, packVars, walking, planning
  <2>2. ASSUME NEW k, Begun(k) PROVE Begun(k)'
    BY <1>2, <2>1, <2>2, BegunSame DEF Begun
  <2>3. OnWalk' = OnWalk
    BY <2>1 DEF OnWalk
  <2> QED BY <1>4, <1>7, <1>8, <1>9, <2>1, <2>2, <2>3 DEF RootsInv
<1> QED BY <1>10, <1>11, <1>12, <1>13, <1>14, <1>15, <1>16, <1>17 DEF PackNext

-------------------------------------------------------------------------------
(* Each file of an undisturbed tree that can be stored is planned.           *)
FileIn(k, q) == k \in Walked /\ q \in Beneath(k) /\ Is(q, "file") /\ Stop(k, q) = {}
PlannedInv ==
  changes = {} /\ stage \in Late =>
    \A k, q : FileIn(k, q) => \E i \in DOMAIN plan : plan[i].kind = "file" /\ plan[i].name = NameAt(k, q)
LinkedInv == stage = "done" => linked = hardlink_count

LEMMA PlannedInit == ASSUME PackInit PROVE PlannedInv /\ LinkedInv
BY DEF PackInit, PlannedInv, LinkedInv, Late

LEMMA FileInSame ==
  ASSUME PackTypeOK, tree' = tree, asked' = asked, target' = target,
         \A i \in DOMAIN files : files'[i].reads = files[i].reads
  PROVE  \A k, q : FileIn(k, q)' => FileIn(k, q)
<1>1. /\ Walked' = Walked
      /\ \A k : Base(k)' = Base(k) /\ Beneath(k)' = Beneath(k)
      /\ \A k, q : Barred(k, q)' = Barred(k, q)
  BY SamePlaces
<1>2. \A r, kind : Is(r, kind)' = Is(r, kind)
  BY SameTree
<1>3. ASSUME NEW q PROVE Readable(q)' = Readable(q)
  <2>1. Is(q, "file") => tree[q].ino \in DOMAIN files
    BY WorldIs DEF Is
  <2> QED BY <1>2, <2>1 DEF Readable
<1>4. \A k, q : Unstorable(k, q)' = Unstorable(k, q)
  BY <1>1, <1>2, <1>3 DEF Unstorable, Decodable
<1>5. \A k, q : Stop(k, q)' = Stop(k, q)
  BY <1>1, <1>4 DEF Stop
<1> QED BY <1>1, <1>2, <1>5 DEF FileIn

LEMMA PlannedStep ==
  ASSUME PackTypeOK, PackTypeOK', OpenedLate, NothingYet, KeptInv, PlannedInv, [PackNext]_packVars
  PROVE  PlannedInv'
<1>1. SUFFICES ASSUME changes' = {}, stage' \in Late, NEW k, NEW q, FileIn(k, q)'
               PROVE  \E i \in DOMAIN plan' : plan'[i].kind = "file" /\ plan'[i].name = NameAt(k, q)'
  BY DEF PlannedInv
<1>2. changes = {} /\ tree' = tree /\ asked' = asked /\ target' = target
      /\ \A i \in DOMAIN files : files'[i].reads = files[i].reads
  BY <1>1, Undisturbing
<1>3. FileIn(k, q) /\ NameAt(k, q)' = NameAt(k, q)
  BY <1>1, <1>2, FileInSame, SamePlaces
<1>4. CASE stage \in Late
  <2>1. plan' = plan
    <3>1. ~ Early /\ ~ Create
      BY <1>4, EarlySteps DEF Create, Late
    <3> QED BY <3>1, StepIs DEF Record, Open, Read, Stored, Finish, Changed, packVars, planning
  <2> QED BY <1>2, <1>3, <1>4, <2>1 DEF PlannedInv
<1>5. CASE stage \notin Late
  <2>1. stage = "naming" /\ turn = Len(asked.paths) /\ plan' = plan
    <3>1. Create
      <4>1. Early => stage' \notin Late
        BY EarlySteps
      <4>2. Record \/ Open \/ Read \/ Stored \/ Finish => stage \in Late
        BY DEF Record, Open, Read, Stored, Finish, Late
      <4>3. Changed \/ UNCHANGED packVars => stage' = stage
        BY DEF Changed, packVars
      <4> QED BY <1>1, <1>5, <4>1, <4>2, <4>3, StepIs
    <3> QED BY <3>1 DEF Create, planning
  <2>2. k \in Walked /\ q \in Beneath(k) /\ Is(q, "file") /\ Stop(k, q) = {} /\ k <= turn
    <3>1. k \in Walked
      BY <1>3 DEF FileIn
    <3>2. k \in 1 .. Len(asked.paths)
      BY <3>1, WalkedIs
    <3> QED BY <1>3, <2>1, <3>2 DEF FileIn
  <2>3. Steady(k, q)
    <3>1. tree[q].ino \in DOMAIN files
      BY <2>2, WorldIs DEF Is
    <3>2. tree[q].ino # opened
      BY <1>5, <3>1, WorldIs DEF OpenedLate, NoInode
    <3> QED BY <1>2, <3>2 DEF Steady
  <2>4. Settled(k, q)
    BY <2>1, <2>2, <2>3 DEF KeptInv, KeptAt
  <2>5. stored = <<>> /\ found = <<>> /\ DOMAIN <<>> = {}
    BY <1>5, <2>1 DEF NothingYet, PackTypeOK
  <2>6. Range(found) = {} /\ Range(stored) = {} /\ Ahead = 1 .. Len(plan)
    BY <2>1, <2>5 DEF Range, Ahead, Late
  <2>7. PICK i \in 1 .. Len(plan) : Held(plan[i], k, q)
    BY <2>1, <2>2, <2>4, <2>6 DEF Settled, Kept, Reading
  <2>8. Alike(plan[i], k, q)
    BY <2>2, <2>7 DEF Held, Covers, Lost
  <2>9. plan[i].kind = "file" /\ plan[i].name = NameAt(k, q)
    BY <2>2, <2>8 DEF Alike, Is
  <2>10. i \in DOMAIN plan
    BY <2>7 DEF PackTypeOK
  <2> QED BY <1>3, <2>1, <2>9, <2>10
<1> QED BY <1>4, <1>5

LEMMA LinkedStep == ASSUME LinkedInv, [PackNext]_packVars PROVE LinkedInv'
<1>1. CASE Finish
  BY <1>1 DEF Finish, LinkedInv, hardlink_count, planning, walking
<1>2. CASE Early \/ Create \/ Record \/ Open \/ Read \/ Stored
  <2>1. stage' # "done"
    BY <1>2 DEF Early, Name, Root, List, Visit, ReadLink, Sift, NextPath, Create, Record, Open, Read, Stored
  <2> QED BY <2>1 DEF LinkedInv
<1>3. CASE Changed \/ UNCHANGED packVars
  BY <1>3 DEF Changed, LinkedInv, hardlink_count, packVars, planning, writing
<1> QED BY <1>1, <1>2, <1>3, StepIs

-------------------------------------------------------------------------------
(* So the files planned are the files there, one for one.                    *)

LEMMA NamesApart ==
  ASSUME PackTypeOK, OrderInv, NEW i \in DOMAIN plan, NEW j \in DOMAIN plan,
         Shown(plan[i]), Shown(plan[j]), plan[i].name = plan[j].name
  PROVE  i = j
<1>1. DOMAIN plan = 1 .. Len(plan) /\ Len(plan) \in Nat /\ plan[i] \in Items /\ plan[j] \in Items
  <2>1. plan \in Seq(Items)
    BY DEF PackTypeOK
  <2> QED BY <2>1
<1>2. plan[i].name \in Paths
  BY <1>1 DEF Items
<1>3. ~ Before(plan[i].name, plan[j].name) /\ ~ Before(plan[j].name, plan[i].name)
  BY <1>2, BeforeStrict
<1>4. ~ (i < j) /\ ~ (j < i)
  BY <1>3 DEF OrderInv, PlanInOrder
<1> QED BY <1>1, <1>4

LEMMA PlacesApart ==
  ASSUME PackTypeOK, NEW k, NEW q, NEW j, NEW r, FileIn(k, q), FileIn(j, r), NameAt(k, q) = NameAt(j, r),
         Apart(k), Apart(j)
  PROVE  k = j /\ q = r
<1>1. /\ k \in Walked /\ q \in Beneath(k) /\ Is(q, "file") /\ Stop(k, q) = {}
      /\ j \in Walked /\ r \in Beneath(j) /\ Is(r, "file") /\ Stop(j, r) = {}
  BY DEF FileIn
<1>2. ASSUME NEW m \in Walked, NEW t \in Beneath(m), Stop(m, t) = {}, Is(t, "file") PROVE ~ RootLeft(m)
  <2>1. SUFFICES ASSUME RootLeft(m) PROVE FALSE
    OBVIOUS
  <2>2. Is(Base(m), "file") /\ Base(m) = target
    BY <2>1 DEF RootLeft
  <2>3. t \in DOMAIN tree /\ t \in Paths /\ Base(m) \in Paths /\ IsPrefix(Base(m), t)
    BY WalkedIs
  <2>4. t = Base(m)
    <3>1. t # Base(m) => Is(Base(m), "dir")
      BY <2>3, UpTree
    <3> QED BY <2>2, <3>1 DEF Is
  <2>5. Unstorable(m, t) /\ IsPrefix(t, t)
    BY <1>2, <2>2, <2>3, <2>4, PrefixSelf DEF Unstorable
  <2>6. t \in Stop(m, t)
    BY <2>5 DEF Stop
  <2> QED BY <1>2, <2>6
<1>3. ASSUME NEW m \in Walked, NEW t \in Beneath(m)
      PROVE  /\ EntryOf(m) \in Seq(Int) /\ Len(EntryOf(m)) = 1
             /\ Rest(Base(m), t) \in Paths /\ NameAt(m, t) = EntryOf(m) \o Rest(Base(m), t)
             /\ Base(m) \o Rest(Base(m), t) = t
  <2>1. /\ m \in 1 .. Len(asked.paths) /\ Base(m) \in Paths /\ t \in Paths /\ IsPrefix(Base(m), t)
        /\ entry_name_for(asked.paths[m]) \in Seq(Int)
    BY WalkedIs
  <2>2. entry_name_for(asked.paths[m]) = Nowhere \/ \E c \in Nat : entry_name_for(asked.paths[m]) = <<c>>
    BY <2>1, EntryNameIs
  <2>3. Len(Nowhere) = 1 /\ \A c \in Nat : Len(<<c>>) = 1
    BY DEF Nowhere
  <2>4. Rest(Base(m), t) \in Paths /\ Base(m) \o Rest(Base(m), t) = t
    BY <2>1, RestIs, RestWhole
  <2> QED BY <2>1, <2>2, <2>3, <2>4 DEF EntryOf, NameAt, Rest
<1> DEFINE a == EntryOf(k)
           b == EntryOf(j)
           u == Rest(Base(k), q)
           v == Rest(Base(j), r)
<1>4. /\ a \in Seq(Int) /\ Len(a) = 1 /\ b \in Seq(Int) /\ Len(b) = 1 /\ u \in Seq(Nat) /\ v \in Seq(Nat)
      /\ a \o u = b \o v /\ Base(k) \o u = q /\ Base(j) \o v = r
  <2>1. k \in Walked /\ q \in Beneath(k) /\ j \in Walked /\ r \in Beneath(j)
    BY <1>1
  <2>2. /\ EntryOf(k) \in Seq(Int) /\ Len(EntryOf(k)) = 1 /\ Rest(Base(k), q) \in Paths
        /\ NameAt(k, q) = EntryOf(k) \o Rest(Base(k), q) /\ Base(k) \o Rest(Base(k), q) = q
    BY <2>1, <1>3
  <2>3. /\ EntryOf(j) \in Seq(Int) /\ Len(EntryOf(j)) = 1 /\ Rest(Base(j), r) \in Paths
        /\ NameAt(j, r) = EntryOf(j) \o Rest(Base(j), r) /\ Base(j) \o Rest(Base(j), r) = r
    BY <2>1, <1>3
  <2>4. Paths = Seq(Nat)
    BY DEF Paths
  <2> QED BY <2>2, <2>3, <2>4
<1> HIDE DEF a, b, u, v
<1>5. a = b /\ u = v
  <2>1. u \in Seq(Int) /\ v \in Seq(Int)
    BY <1>4
  <2>8. \A s, t \in Seq(Int) : Len(s) = 1 =>
          /\ Len(s \o t) = 1 + Len(t) /\ (s \o t)[1] = s[1]
          /\ \A n \in 1 .. Len(t) : (s \o t)[1 + n] = t[n]
    <3>1. \A s, t \in Seq(Int) : /\ Len(s \o t) = Len(s) + Len(t)
                                 /\ \A n \in 1 .. Len(s) + Len(t) :
                                      (s \o t)[n] = IF n <= Len(s) THEN s[n] ELSE t[n - Len(s)]
      BY ConcatProperties
    <3>2. SUFFICES ASSUME NEW s \in Seq(Int), NEW t \in Seq(Int), Len(s) = 1
                   PROVE  /\ Len(s \o t) = 1 + Len(t) /\ (s \o t)[1] = s[1]
                          /\ \A n \in 1 .. Len(t) : (s \o t)[1 + n] = t[n]
      OBVIOUS
    <3>3. /\ Len(s \o t) = 1 + Len(t)
          /\ \A n \in 1 .. 1 + Len(t) : (s \o t)[n] = IF n <= 1 THEN s[n] ELSE t[n - 1]
      BY <3>1, <3>2
    <3>4. Len(t) \in Nat
      OBVIOUS
    <3>5. (s \o t)[1] = s[1]
      BY <3>3, <3>4
    <3>6. ASSUME NEW n \in 1 .. Len(t) PROVE (s \o t)[1 + n] = t[n]
      <4>1. 1 + n \in 1 .. 1 + Len(t) /\ ~ (1 + n <= 1) /\ (1 + n) - 1 = n
        BY <3>4
      <4> QED BY <3>3, <4>1
    <3> QED BY <3>3, <3>5, <3>6
  <2>2. /\ Len(a \o u) = 1 + Len(u) /\ (a \o u)[1] = a[1] /\ \A n \in 1 .. Len(u) : (a \o u)[1 + n] = u[n]
        /\ Len(b \o v) = 1 + Len(v) /\ (b \o v)[1] = b[1] /\ \A n \in 1 .. Len(v) : (b \o v)[1 + n] = v[n]
    <3>1. a \in Seq(Int) /\ Len(a) = 1 /\ b \in Seq(Int) /\ Len(b) = 1
      BY <1>4
    <3>2. \A t \in Seq(Int) : /\ Len(a \o t) = 1 + Len(t) /\ (a \o t)[1] = a[1]
                               /\ \A n \in 1 .. Len(t) : (a \o t)[1 + n] = t[n]
      BY <2>8, <3>1
    <3>3. \A t \in Seq(Int) : /\ Len(b \o t) = 1 + Len(t) /\ (b \o t)[1] = b[1]
                               /\ \A n \in 1 .. Len(t) : (b \o t)[1 + n] = t[n]
      BY <2>8, <3>1
    <3> QED BY <2>1, <3>2, <3>3
  <2>3. Len(u) \in Nat /\ Len(v) \in Nat
    BY <1>4
  <2>4. Len(u) = Len(v) /\ a[1] = b[1]
    BY <1>4, <2>2, <2>3
  <2>5. \A n \in 1 .. Len(u) : u[n] = v[n]
    BY <1>4, <2>2, <2>4
  <2>6. \A s, t \in Seq(Int) : Len(s) = Len(t) /\ (\A n \in 1 .. Len(s) : s[n] = t[n]) => s = t
    OBVIOUS
  <2>7. \A n \in 1 .. Len(a) : a[n] = b[n]
    BY <1>4, <2>4
  <2> QED BY <1>4, <2>1, <2>4, <2>5, <2>6, <2>7
<1>6. k = j
  <2>1. k \in Nat /\ j \in Nat
    BY <1>1, WalkedIs
  <2>2. ~ RootLeft(k) /\ ~ RootLeft(j)
    BY <1>1, <1>2
  <2>3. ~ (k < j) /\ ~ (j < k)
    BY <1>1, <1>5, <2>2 DEF Apart, a, b
  <2> QED BY <2>1, <2>3
<1> QED BY <1>4, <1>5, <1>6

LEMMA FromFile ==
  ASSUME PackTypeOK, SourcedInv, changes = {}, \A i \in DOMAIN files : files[i].reads,
         NEW item \in Range(plan), NEW k, NEW q, From(item, k, q)
  PROVE  FileIn(k, q)
<1>1. /\ k \in Walked /\ q \in Beneath(k) /\ Is(q, "file") /\ Met(k, q)
      /\ item.kind = "file" /\ item.at = WayTo(k, q)
  BY DEF From
<1>2. q \in DOMAIN tree /\ q \in Paths /\ IsPrefix(q, q)
  BY <1>1, WalkedIs, PrefixSelf
<1>3. /\ \A t \in Beneath(k) : IsPrefix(t, q) => ~ Barred(k, t) /\ (t # q => tree[t].lists)
      /\ Canonical(WayTo(k, q)) = q
  <2>1. ~ Is(q, "link")
    BY <1>1 DEF Is
  <2> QED BY <1>1, <2>1 DEF Met
<1>4. q # target
  BY <1>1, <1>3 DEF SourcedInv, PlanSpared
<1>5. Readable(q)
  <2>1. tree[q].ino \in DOMAIN files
    BY <1>1, <1>2, WorldIs DEF Is
  <2> QED BY <1>1, <2>1 DEF Readable
<1>6. ~ Unstorable(k, q)
  <2>1. ~ Barred(k, q)
    BY <1>1, <1>2, <1>3
  <2> QED BY <1>1, <1>4, <1>5, <2>1 DEF Unstorable, Is
<1>7. Stop(k, q) = {}
  <2>1. ASSUME NEW t \in Beneath(k), IsPrefix(t, q)
        PROVE  ~ IF t = q THEN Unstorable(k, t) ELSE Barred(k, t) \/ ~ tree[t].lists
    BY <1>3, <1>6, <2>1
  <2> QED BY <2>1 DEF Stop
<1> QED BY <1>1, <1>7 DEF FileIn

(* Two files of one record are one inode, and so have one link_id.           *)
LEMMA SameNode ==
  ASSUME PackTypeOK, NEW q, NEW r, Is(q, "file"), Is(r, "file")
  PROVE  tree[q] = tree[r] <=> tree[q].ino = tree[r].ino
<1>1. tree[q] \in Nodes(DOMAIN files) /\ tree[q].kind = "file" /\ tree[r] \in Nodes(DOMAIN files) /\ tree[r].kind = "file"
  BY WorldIs DEF Is
<1>2. tree[q] \in [kind : {"file"}, ino : DOMAIN files] /\ tree[r] \in [kind : {"file"}, ino : DOMAIN files]
  BY <1>1 DEF Nodes
<1>3. tree[q] = [kind |-> "file", ino |-> tree[q].ino] /\ tree[r] = [kind |-> "file", ino |-> tree[r].ino]
  BY <1>2
<1> QED BY <1>3

Linkeds == {k \in DOMAIN plan :
  plan[k].link # NoInode /\ \E j \in DOMAIN plan \ {k} : plan[j].link = plan[k].link}
Counted ==
  {m \in Files : /\ Cardinality(NamesOf(tree[m[2]].ino)) > 1
                 /\ \E n \in Files \ {m} : tree[m[2]] = tree[n[2]]}

LEMMA FilesAre == ASSUME NEW k, NEW q PROVE <<k, q>> \in Files <=> FileIn(k, q)
<1>1. <<k, q>>[1] = k /\ <<k, q>>[2] = q
  OBVIOUS
<1>2. <<k, q>> \in UNION {{<<j, r>> : r \in Beneath(j)} : j \in Walked} <=> k \in Walked /\ q \in Beneath(k)
  OBVIOUS
<1> QED BY <1>1, <1>2 DEF Files, FileIn

LEMMA FilesPairs ==
  ASSUME NEW m \in Files PROVE m = <<m[1], m[2]>> /\ FileIn(m[1], m[2])
<1>1. PICK k \in Walked : m \in {<<k, q>> : q \in Beneath(k)}
  BY DEF Files
<1>2. PICK q \in Beneath(k) : m = <<k, q>>
  BY <1>1
<1>3. m = <<m[1], m[2]>>
  BY <1>2
<1> QED BY <1>3, FilesAre

LEMMA LinksDone ==
  ASSUME PackTypeOK, OrderInv, SourcedInv, RootsInv, PlannedInv, LinkedInv PROVE LinksTold
<1>1. SUFFICES ASSUME stage = "done", changes = {}, \A i \in DOMAIN files : files[i].reads
               PROVE  linked = Cardinality(Counted)
  BY DEF LinksTold, Counted
<1>2. linked = Cardinality(Linkeds)
  BY <1>1 DEF LinkedInv, hardlink_count, Linkeds
<1>3. DOMAIN plan = 1 .. Len(plan) /\ Len(plan) \in Nat /\ \A i \in DOMAIN plan : plan[i] \in Items /\ plan[i] \in Range(plan)
  <2>1. plan \in Seq(Items)
    BY DEF PackTypeOK
  <2> QED BY <2>1 DEF Range
<1>4. \A k \in Walked : Apart(k)
  BY <1>1 DEF RootsInv, Late
<1>5. ASSUME NEW i \in DOMAIN plan, plan[i].kind = "file" \/ plan[i].link # NoInode
      PROVE  \E k, q : From(plan[i], k, q)
  BY <1>1, <1>3, <1>5 DEF SourcedInv, Origin, Carried
<1>6. ASSUME NEW i \in DOMAIN plan, NEW k, NEW q, From(plan[i], k, q) PROVE <<k, q>> \in Files
  BY <1>1, <1>3, <1>6, FromFile, FilesAre
<1>7. ASSUME NEW k, NEW q, FileIn(k, q)
      PROVE  \E i \in DOMAIN plan : From(plan[i], k, q)
  <2>1. PICK i \in DOMAIN plan : plan[i].kind = "file" /\ plan[i].name = NameAt(k, q)
    BY <1>1, <1>7 DEF PlannedInv, Late
  <2>2. PICK j, r : From(plan[i], j, r)
    BY <1>5, <2>1
  <2>3. FileIn(j, r) /\ NameAt(j, r) = NameAt(k, q) /\ j \in Walked /\ k \in Walked
    BY <1>6, <1>7, <2>1, <2>2, FilesAre DEF From, FileIn
  <2>4. Apart(j) /\ Apart(k)
    BY <1>4, <2>3
  <2>5. j = k /\ r = q
    BY <1>7, <2>3, <2>4, PlacesApart
  <2> QED BY <2>2, <2>5
<1>8. ASSUME NEW i \in DOMAIN plan, NEW j \in DOMAIN plan, NEW k, NEW q, From(plan[i], k, q), From(plan[j], k, q)
      PROVE  i = j
  <2>1. plan[i].name = plan[j].name /\ Shown(plan[i]) /\ Shown(plan[j])
    BY <1>8 DEF From, Shown
  <2> QED BY <2>1, NamesApart
<1>9. ASSUME NEW i \in DOMAIN plan, NEW k, NEW q, From(plan[i], k, q)
      PROVE  /\ Is(q, "file") /\ tree[q].ino # NoInode
             /\ plan[i].link # NoInode <=> Cardinality(NamesOf(tree[q].ino)) > 1
             /\ plan[i].link # NoInode => plan[i].link = tree[q].ino
  <2>1. Is(q, "file") /\ plan[i].link = link_id_of(q)
    BY <1>9 DEF From
  <2>2. tree[q].ino \in DOMAIN files /\ DOMAIN files \subseteq Nat \ {0}
    BY <2>1, WorldIs DEF Is, PackTypeOK
  <2> QED BY <2>1, <2>2 DEF link_id_of, NoInode
<1> DEFINE src(i) == CHOOSE m \in Files : From(plan[i], m[1], m[2])
           F == [i \in Linkeds |-> src(i)]
<1>10. ASSUME NEW i \in DOMAIN plan, plan[i].link # NoInode
       PROVE  src(i) \in Files /\ From(plan[i], src(i)[1], src(i)[2])
  <2>1. PICK k, q : From(plan[i], k, q)
    BY <1>5, <1>10
  <2>2. <<k, q>> \in Files /\ <<k, q>>[1] = k /\ <<k, q>>[2] = q
    BY <1>6, <2>1
  <2>3. \E m \in Files : From(plan[i], m[1], m[2])
    BY <2>1, <2>2
  <2> QED BY <2>3
<1> HIDE DEF src
<1>11. ASSUME NEW i \in Linkeds PROVE src(i) \in Counted
  <2>1. PICK j \in DOMAIN plan \ {i} : plan[j].link = plan[i].link
    BY DEF Linkeds
  <2>2. i \in DOMAIN plan /\ j \in DOMAIN plan /\ i # j /\ plan[i].link # NoInode /\ plan[j].link # NoInode
    BY <2>1 DEF Linkeds
  <2> DEFINE m == src(i)
             n == src(j)
  <2>3. m \in Files /\ From(plan[i], m[1], m[2]) /\ n \in Files /\ From(plan[j], n[1], n[2])
    BY <1>10, <2>2
  <2> HIDE DEF m, n
  <2>4. m # n
    BY <1>8, <2>2, <2>3
  <2>5. /\ Is(m[2], "file") /\ Cardinality(NamesOf(tree[m[2]].ino)) > 1 /\ plan[i].link = tree[m[2]].ino
        /\ Is(n[2], "file") /\ plan[j].link = tree[n[2]].ino
    BY <1>9, <2>2, <2>3
  <2>6. tree[m[2]] = tree[n[2]]
    BY <2>1, <2>5, SameNode
  <2> QED BY <2>3, <2>4, <2>5, <2>6 DEF Counted, m
<1>12. ASSUME NEW m \in Counted PROVE \E i \in Linkeds : src(i) = m
  <2>1. PICK n \in Files \ {m} : tree[m[2]] = tree[n[2]]
    BY DEF Counted
  <2>2. m \in Files /\ Cardinality(NamesOf(tree[m[2]].ino)) > 1
    BY DEF Counted
  <2>3. m = <<m[1], m[2]>> /\ FileIn(m[1], m[2]) /\ n = <<n[1], n[2]>> /\ FileIn(n[1], n[2])
    BY <2>1, <2>2, FilesPairs
  <2>4. PICK i \in DOMAIN plan : From(plan[i], m[1], m[2])
    BY <1>7, <2>3
  <2>5. PICK j \in DOMAIN plan : From(plan[j], n[1], n[2])
    BY <1>7, <2>3
  <2>6. NamesOf(tree[m[2]].ino) = NamesOf(tree[n[2]].ino)
    BY <2>1
  <2>7. plan[i].link # NoInode /\ plan[i].link = tree[m[2]].ino
    BY <1>9, <2>2, <2>4
  <2>8. plan[j].link # NoInode /\ plan[j].link = tree[n[2]].ino
    BY <1>9, <2>2, <2>5, <2>6
  <2>9. i # j
    <3>1. SUFFICES ASSUME i = j PROVE FALSE
      OBVIOUS
    <3>2. NameAt(m[1], m[2]) = NameAt(n[1], n[2]) /\ m[1] \in Walked /\ n[1] \in Walked
      BY <2>4, <2>5, <3>1 DEF From
    <3>3. m[1] = n[1] /\ m[2] = n[2]
      BY <1>4, <2>3, <3>2, PlacesApart
    <3> QED BY <2>1, <2>3, <3>3
  <2>10. i \in Linkeds
    BY <2>1, <2>7, <2>8, <2>9 DEF Linkeds
  <2> DEFINE s == src(i)
  <2>11. s \in Files /\ From(plan[i], s[1], s[2])
    BY <1>10, <2>7
  <2> HIDE DEF s
  <2>12. s = <<s[1], s[2]>> /\ FileIn(s[1], s[2])
    BY <2>11, FilesPairs
  <2>13. NameAt(m[1], m[2]) = NameAt(s[1], s[2]) /\ m[1] \in Walked /\ s[1] \in Walked
    BY <2>4, <2>11 DEF From
  <2>14. m[1] = s[1] /\ m[2] = s[2]
    BY <1>4, <2>3, <2>12, <2>13, PlacesApart
  <2>15. s = m
    BY <2>3, <2>12, <2>14
  <2> QED BY <2>10, <2>15 DEF s
<1>13. ASSUME NEW i \in Linkeds, NEW j \in Linkeds, src(i) = src(j) PROVE i = j
  <2>1. i \in DOMAIN plan /\ j \in DOMAIN plan /\ plan[i].link # NoInode /\ plan[j].link # NoInode
    BY DEF Linkeds
  <2>2. From(plan[i], src(i)[1], src(i)[2]) /\ From(plan[j], src(i)[1], src(i)[2])
    BY <1>10, <1>13, <2>1
  <2> QED BY <1>8, <2>1, <2>2
<1>14. F \in [Linkeds -> Counted] /\ (\A i, j \in Linkeds : F[i] = F[j] => i = j)
       /\ (\A m \in Counted : \E i \in Linkeds : F[i] = m)
  BY <1>11, <1>12, <1>13
<1>15. ExistsBijection(Linkeds, Counted)
  <2> HIDE DEF F
  <2>1. F \in Bijection(Linkeds, Counted)
    BY <1>14, Fun_IsBij
  <2> QED BY <2>1, Fun_ExistsBij
<1>16. IsFiniteSet(Linkeds)
  <2>1. IsFiniteSet(1 .. Len(plan))
    BY <1>3, FS_Interval
  <2>2. Linkeds \subseteq 1 .. Len(plan)
    BY <1>3 DEF Linkeds
  <2> QED BY <2>1, <2>2, FS_Subset
<1>17. Cardinality(Counted) = Cardinality(Linkeds)
  BY <1>15, <1>16, FS_Bijection
<1> QED BY <1>2, <1>17

-------------------------------------------------------------------------------
(* Together.                                                                 *)
PackInv ==
  /\ PackTypeOK /\ WholeInv
  /\ SpotsNamed /\ FilesStay("dir") /\ FilesStay("special") /\ Excused
  /\ OrderInv /\ StoredInv
  /\ RefusedInv /\ FilesFound /\ WorthInv
  /\ OpenedLate /\ KeptInv /\ DoneInv
  /\ SourcedInv /\ RootsInv /\ PlannedInv /\ LinkedInv

LEMMA PackInvInit == ASSUME PackInit PROVE PackInv
<1>1. PackTypeOK /\ WholeInv
  BY InitTyped, WholeInit
<1>2. Carried = {}
  <2>1. found = <<>> /\ plan = <<>>
    BY DEF PackInit
  <2> QED BY <2>1 DEF Carried, Range
<1>3. SpotsNamed /\ Excused
  BY DEF PackInit, SpotsNamed, Excused
<1>4. FilesStay("dir") /\ FilesStay("special") /\ FilesFound
  BY <1>2 DEF FilesStay, FilesFound
<1>5. OrderInv /\ StoredInv /\ RefusedInv /\ WorthInv
  BY OrderInit, StoredInit, RefusedInit, WorthInit
<1>6. OpenedLate /\ KeptInv /\ DoneInv
  BY OpenedInit, KeptInit, DoneInit
<1>7. SourcedInv /\ RootsInv /\ PlannedInv /\ LinkedInv
  BY SourcedInit, RootsInit, PlannedInit
<1> QED BY <1>1, <1>3, <1>4, <1>5, <1>6, <1>7 DEF PackInv

LEMMA PackInvStep == ASSUME PackInv, [PackNext]_packVars PROVE PackInv'
<1>1. /\ PackTypeOK /\ WholeInv
      /\ SpotsNamed /\ FilesStay("dir") /\ FilesStay("special") /\ Excused
      /\ OrderInv /\ StoredInv
      /\ RefusedInv /\ FilesFound /\ WorthInv
      /\ OpenedLate /\ KeptInv /\ DoneInv
      /\ SourcedInv /\ RootsInv /\ PlannedInv /\ LinkedInv
  BY DEF PackInv
<1>2. NothingYet
  BY <1>1 DEF WholeInv
<1>3. PackTypeOK'
  BY <1>1, StepTyped
<1>4. WholeInv'
  BY <1>1, WholeStep
<1>5. SpotsNamed' /\ FilesStay("dir")' /\ FilesStay("special")' /\ Excused'
  BY <1>1, <1>3, SpotsNamedStep, FilesStayStep, ExcusedStep
<1>6. OrderInv' /\ StoredInv'
  BY <1>1, <1>2, OrderStep, StoredStep
<1>7. RefusedInv' /\ FilesFound' /\ WorthInv'
  BY <1>1, RefusedStep, FilesFoundStep, WorthStep
<1>8. OpenedLate' /\ KeptInv' /\ DoneInv'
  BY <1>1, <1>3, OpenedStep, KeptStep, DoneStep
<1>9. SourcedInv' /\ RootsInv' /\ PlannedInv' /\ LinkedInv'
  BY <1>1, <1>2, <1>3, SourcedStep, RootsStep, PlannedStep, LinkedStep
<1> QED BY <1>3, <1>4, <1>5, <1>6, <1>7, <1>8, <1>9 DEF PackInv

LEMMA PackInvPacks == ASSUME PackInv PROVE PackedAsFound
<1>1. /\ PackTypeOK /\ WholeInv
      /\ SpotsNamed /\ FilesStay("dir") /\ FilesStay("special") /\ Excused
      /\ OrderInv /\ StoredInv
      /\ RefusedInv /\ FilesFound /\ WorthInv
      /\ OpenedLate /\ KeptInv /\ DoneInv
      /\ SourcedInv /\ RootsInv /\ PlannedInv /\ LinkedInv
  BY DEF PackInv
<1>2. KeptOrTold /\ WholeOrTold /\ Worthwhile /\ LinksTold
  BY <1>1, KeptDone, WorthDone, LinksDone DEF WholeInv
<1>3. InOrder
  <2>1. CASE stage \in Late
    BY <1>1, <2>1 DEF StoredInv
  <2>2. CASE stage \notin Late
    <3>1. stored = <<>>
      BY <1>1, <2>2 DEF WholeInv, NothingYet
    <3> QED BY <3>1 DEF InOrder
  <2> QED BY <2>1, <2>2
<1>4. Steadfast
  BY <1>1 DEF Excused, RefusedInv, RefusedWell, Spoiled, Steadfast, Puts
<1> QED BY <1>2, <1>3, <1>4 DEF PackedAsFound

-------------------------------------------------------------------------------
(* A run of `pack` and of the calls beside it (Outputs).                     *)

LEMMA PackRuns == OutputsInit => PackInit
BY DEF OutputsInit

LEMMA PackGoesOn == [OutputsNext]_outputsVars => [PackNext]_packVars
BY DEF OutputsNext, outputsVars

(* Whatever the tree, the files, the paths asked for and the changes made    *)
(* meanwhile: every variable of pack keeps to its kind, the walk's and the   *)
(* writer's positions to their bounds.                                       *)
THEOREM PackTyped == OutputsSpec => []PackTypeOK
<1>1. OutputsInit => PackTypeOK
  BY PackRuns, InitTyped
<1>2. PackTypeOK /\ [OutputsNext]_outputsVars => PackTypeOK'
  BY PackGoesOn, StepTyped
<1> QED BY <1>1, <1>2, PTL DEF OutputsSpec

(* Whatever the tree, the files, the paths asked for and the changes made    *)
(* meanwhile: what was there all along is in the archive as it is or is      *)
(* named; a file stored without a word is whole; entries are in order; no    *)
(* run fails or is refused but for a reason; an archive is not replaced by   *)
(* directories alone; and the hard links counted are those there are.        *)
THEOREM PackPacksWhatItFinds == OutputsSpec => []PackedAsFound
<1>1. OutputsInit => PackInv
  BY PackRuns, PackInvInit
<1>2. PackInv /\ [OutputsNext]_outputsVars => PackInv'
  BY PackGoesOn, PackInvStep
<1>3. PackInv => PackedAsFound
  BY PackInvPacks
<1> QED BY <1>1, <1>2, <1>3, PTL DEF OutputsSpec
===============================================================================
