------------------------------ MODULE ArmedOutput ------------------------------
(***************************************************************************)
(* A run of a compatibility tool over its operands, with the signals that  *)
(* may interrupt it anywhere (crates/stuffr-cli/src/compat/host.rs and its *)
(* callers):                                                               *)
(*   gzip, BSD gzip, xz   a temporary created and armed with the signals   *)
(*              held back, published by hard link or rename, then the      *)
(*              input removed and the guard dropped; xz first creates and  *)
(*              removes the output's name to learn whether it may;         *)
(*   zstd       the same, but always renamed, and disarmed before the input*)
(*              is removed; a file that has since taken the output's name  *)
(*              is written in place; a fatal error leaves what is written; *)
(*   bzip2      a temporary that is never armed: its handler sets a flag,  *)
(*              which the run polls;                                       *)
(*   ncompress  the output itself created and armed, and disarmed before   *)
(*              the input is removed.                                      *)
(* A handler unlinks the path it takes from the slot and ends the process. *)
(* Each system call is one action.                                         *)
(***************************************************************************)
EXTENDS Naturals, FiniteSets, SignalSlot

CONSTANTS
  Own,        (* the main thread; the other Handlers are codec workers       *)
  Count,      (* the operands are 1 .. Count, taken in turn                  *)
  Temps,      (* the numbers of the temporary names a run may try            *)
  Setups      (* the runs: which tool, -f or not, -k or not, and whether the *)
              (* filesystem has hard links                                   *)

Files == 1 .. Count

In(f) == <<"in", f>>
Out(f) == <<"out", f>>
Tmp(n) == <<"tmp", n>>
Names == {In(f) : f \in Files} \cup {Out(f) : f \in Files} \cup {Tmp(n) : n \in Temps}

(* What a name can lead to.                                                 *)
None == <<"none">>
Other == <<"other">>
Input(f) == <<"input", f>>
Partial(f) == <<"partial", f>>
Whole(f) == <<"whole", f>>
Contents == {None, Other} \cup UNION {{Input(f), Partial(f), Whole(f)} : f \in Files}

ASSUME OutputAssumption ==
  /\ Own \in Handlers
  /\ Count \in Nat \ {0}
  /\ Temps \subseteq Nat
  /\ Values = Names
  /\ Setups \subseteq [tool : {"gzip", "bsdgzip", "xz", "zstd", "bzip2", "ncompress"}, 
                       forced : BOOLEAN, keep : BOOLEAN, links : BOOLEAN]

VARIABLES
  setup,      (* which of them this run is                                   *)
  fs,         (* fs[n]: what the name n leads to                             *)
  file,       (* the operand the run is at                                   *)
  pc,         (* where the main thread is                                    *)
  target,     (* the path this operand's output is written to                *)
  replace,    (* publish may replace what stands at the output's name        *)
  held,       (* the signals are blocked on the main thread                  *)
  workers,    (* codec threads are alive                                     *)
  interrupted,(* INTERRUPTED, the flag bzip2's handler sets                  *)
  sig,        (* sig[h]: whether thread h's handler runs, or is to end it all*)
  life        (* "running", or how the process ended                         *)

control == <<setup, file, pc, target, replace, held>>
outputVars == <<slot, fs, control, workers, interrupted, sig, life>>

Tool == setup.tool
Forced == setup.forced
Keep == setup.keep
HardLinks == setup.links

(* The output is written under its own name.                                *)
InPlace == target = Out(file)

Init ==
  /\ SlotInit
  /\ setup \in Setups
  /\ fs \in {c \in [Names -> {None, Other} \cup {Input(f) : f \in Files}] :
               /\ \A f \in Files : c[In(f)] = Input(f) /\ c[Out(f)] \in {None, Other}
               /\ \A n \in Temps : c[Tmp(n)] \in {None, Other}}
  /\ file = 1
  /\ pc = "check"
  /\ target = Out(1)
  /\ replace = FALSE
  /\ held = FALSE
  /\ workers = FALSE
  /\ interrupted = FALSE
  /\ sig = [h \in Handlers |-> "none"]
  /\ life = "running"

-------------------------------------------------------------------------------
(* The main thread; a handler on it runs to completion over it.             *)
MovesTo(from, to) ==
  /\ life = "running"
  /\ sig[Own] = "none"
  /\ pc = from
  /\ pc' = to
  /\ UNCHANGED <<setup, file, workers, sig, life>>

Goes(from, to) == MovesTo(from, to) /\ UNCHANGED interrupted

Becomes(n, c) == fs' = [fs EXCEPT ![n] = c]

(* A free name, one taken and not to be touched, one to be replaced: -f     *)
(* removes it, and so do the tools that ask, when the user says so; only    *)
(* gzip leaves it for its rename.  xz and bzip2 do not ask; zstd always     *)
(* publishes by rename, those two with -f, BSD gzip never.                  *)
Checked == IF Tool = "xz" THEN "probe" ELSE "create"

CheckVacant ==
  /\ Goes("check", Checked)
  /\ fs[Out(file)] = None
  /\ replace' = (Tool = "zstd" \/ (Tool \in {"xz", "bzip2"} /\ Forced))
  /\ UNCHANGED <<slot, fs, target, held>>

CheckRefused ==
  /\ Goes("check", "next")
  /\ fs[Out(file)] # None /\ ~ Forced
  /\ UNCHANGED <<slot, fs, target, replace, held>>

CheckReplaced ==
  /\ Goes("check", Checked)
  /\ fs[Out(file)] # None
  /\ Tool \in {"xz", "bzip2"} => Forced
  /\ replace' = (Tool # "bsdgzip")
  /\ IF Tool = "gzip" /\ ~ Forced THEN UNCHANGED fs ELSE Becomes(Out(file), None)
  /\ UNCHANGED <<slot, target, held>>

(* xz's probe_exclusive: the output's own name created, and removed again.  *)
Probe ==
  /\ \/ fs[Out(file)] = None /\ Goes("probe", "unprobe") /\ Becomes(Out(file), Partial(file))
     \/ fs[Out(file)] # None /\ Goes("probe", "next") /\ UNCHANGED fs
  /\ UNCHANGED <<slot, target, replace, held>>

Unprobe ==
  /\ Goes("unprobe", "create")
  /\ Becomes(Out(file), None)
  /\ UNCHANGED <<slot, target, replace, held>>

(* create_temp's first free name, or ncompress's output itself.             *)
FreeTemps == {n \in Temps : fs[Tmp(n)] = None}
Target == IF Tool = "ncompress" THEN Out(file)
          ELSE Tmp(CHOOSE n \in FreeTemps : \A k \in FreeTemps : n <= k)

(* Only gzip and xz do not look at the output's name again.                 *)
MayCreate ==
  /\ Tool # "ncompress" => FreeTemps # {}
  /\ Tool \notin {"gzip", "xz"} => fs[Out(file)] = None

(* Variant of Create: the signals are not held back.                        *)
CreateUnheld ==
  /\ Goes("create", IF Tool = "bzip2" THEN "write" ELSE "arm")
  /\ MayCreate
  /\ Becomes(Target, Partial(file))
  /\ target' = Target
  /\ UNCHANGED <<slot, replace, held>>

(* create_new under the held signals; bzip2 holds and arms nothing.         *)
Create ==
  /\ Goes("create", IF Tool = "bzip2" THEN "write" ELSE "arm")
  /\ MayCreate
  /\ Becomes(Target, Partial(file))
  /\ target' = Target
  /\ held' = (Tool # "bzip2")
  /\ UNCHANGED <<slot, replace>>

(* zstd opens what has taken the name since the check, and truncates it.    *)
CreateInPlace ==
  /\ Goes("create", "arm")
  /\ Tool = "zstd" /\ fs[Out(file)] # None
  /\ Becomes(Out(file), Partial(file))
  /\ target' = Out(file)
  /\ UNCHANGED <<slot, replace, held>>

CreateFails ==
  /\ Goes("create", "next")
  /\ ~ MayCreate
  /\ UNCHANGED <<slot, fs, target, replace, held>>

(* Variant of ArmTarget: what is armed is the name the output will have.    *)
ArmOutput ==
  /\ Goes("arm", "write")
  /\ \A h \in Handlers : acting[h] = Nothing
  /\ Arm(Out(file))
  /\ held' = FALSE
  /\ UNCHANGED <<fs, target, replace>>

(* fill_slot (its disarm finds nothing armed and waits for the readers, its *)
(* publish arms the new path), and the signals let through again.           *)
ArmTarget ==
  /\ Goes("arm", "write")
  /\ \A h \in Handlers : acting[h] = Nothing
  /\ Arm(target)
  /\ held' = FALSE
  /\ UNCHANGED <<fs, target, replace>>

(* Variant of Written: the guard is never dropped.                          *)
WrittenStillArmed ==
  /\ Goes("write", "remove")
  /\ IF fs[target] = Partial(file) THEN Becomes(target, Whole(file)) ELSE UNCHANGED fs
  /\ UNCHANGED <<slot, target, replace, held>>

(* The output written whole; ncompress may find it no smaller.              *)
Written ==
  /\ \/ ~ InPlace /\ Goes("write", IF Tool = "bzip2" THEN "poll" ELSE "publish")
     \/ Tool = "ncompress" /\ \E p \in {"settle", "nogain"} : Goes("write", p)
  /\ IF fs[target] = Partial(file) THEN Becomes(target, Whole(file)) ELSE UNCHANGED fs
  /\ UNCHANGED <<slot, target, replace, held>>

(* In place, zstd disarms before it closes, and the close may fail.         *)
WrittenInPlace ==
  /\ Tool = "zstd" /\ InPlace
  /\ Goes("write", "letgo")
  /\ UNCHANGED <<slot, fs, target, replace, held>>

Close ==
  /\ \/ Goes("close", "remove") /\ Becomes(target, Whole(file))
     \/ Goes("close", "refused") /\ UNCHANGED fs
  /\ UNCHANGED <<slot, target, replace, held>>

(* bzip2's poll_interrupt before the commit.                                *)
Poll ==
  /\ MovesTo("poll", IF interrupted THEN "aborted" ELSE "publish")
  /\ interrupted' = FALSE
  /\ UNCHANGED <<slot, fs, target, replace, held>>

(* A failed read or write.  ncompress and bzip2 go on after an input that   *)
(* is not theirs and end the run otherwise (bzip2 also when its flag is     *)
(* set); zstd goes on after what it reports and ends after what it throws.  *)
FailsTo ==
  CASE Tool = "ncompress" -> {"refuse", "abort"}
    [] Tool = "bzip2" -> {"discard", "aborted"}
    [] Tool = "zstd" -> {IF InPlace THEN "refuse" ELSE "discard", "abandon"}
    [] OTHER -> {"discard"}

WriteFails ==
  /\ \E p \in FailsTo : Goes("write", p)
  /\ UNCHANGED <<slot, fs, target, replace, held>>

(* Where a publish leads, and one that fails: bzip2 then ends the run.      *)
Published == IF Tool = "zstd" THEN "settle" ELSE "remove"
Unpublished == IF Tool = "bzip2" THEN "aborted" ELSE "discard"

(* host::publish.  Variant of PublishLink: a rename, as with force.         *)
PublishMove ==
  /\ Goes("publish", Published)
  /\ ~ replace
  /\ fs[target] # None
  /\ fs' = [fs EXCEPT ![Out(file)] = fs[target], ![target] = None]
  /\ UNCHANGED <<slot, target, replace, held>>

PublishLink ==
  /\ Goes("publish", "unlink")
  /\ ~ replace /\ HardLinks
  /\ fs[target] # None
  /\ fs[Out(file)] = None
  /\ Becomes(Out(file), fs[target])
  /\ UNCHANGED <<slot, target, replace, held>>

PublishExists ==
  /\ Goes("publish", "discard")
  /\ ~ replace /\ HardLinks
  /\ fs[Out(file)] # None
  /\ UNCHANGED <<slot, fs, target, replace, held>>

PublishRename ==
  /\ Goes("publish", Published)
  /\ replace \/ ~ HardLinks
  /\ fs[target] # None
  /\ fs' = [fs EXCEPT ![Out(file)] = fs[target], ![target] = None]
  /\ UNCHANGED <<slot, target, replace, held>>

(* The temporary was unlinked by a handler meanwhile.                       *)
PublishFails ==
  /\ Goes("publish", Unpublished)
  /\ fs[target] = None
  /\ UNCHANGED <<slot, fs, target, replace, held>>

UnlinkTemp ==
  /\ Goes("unlink", IF fs[target] # None THEN Published ELSE Unpublished)
  /\ Becomes(target, None)
  /\ UNCHANGED <<slot, target, replace, held>>

(* remove_file of what must not be published, before or after the disarm.   *)
Discard ==
  /\ \/ Goes("discard", IF Tool = "bzip2" THEN "next" ELSE "drop")
     \/ Goes("nogain", "drop")
     \/ Goes("refused", "next")
     \/ Goes("aborted", "over")
  /\ Becomes(target, None)
  /\ UNCHANGED <<slot, target, replace, held>>

(* The input, unless it is kept.                                            *)
RemoveInput ==
  /\ Goes("remove", IF Tool \in {"gzip", "bsdgzip", "xz"} THEN "drop" ELSE "next")
  /\ IF Keep THEN UNCHANGED fs ELSE Becomes(In(file), None)
  /\ UNCHANGED <<slot, target, replace, held>>

(* abandon_sink: zstd gives what it wrote the output's name and exits.      *)
Abandon ==
  /\ Goes("abandoned", "left")
  /\ fs' = IF InPlace \/ fs[target] = None THEN fs
           ELSE [fs EXCEPT ![Out(file)] = fs[target], ![target] = None]
  /\ UNCHANGED <<slot, target, replace, held>>

(* The guard dropped: a call of disarm, and where it returns to.            *)
DisarmCalls ==
  {<<"drop", "dropping", "next">>, <<"settle", "settling", "remove">>,
   <<"refuse", "refusing", "refused">>, <<"abort", "aborting", "aborted">>,
   <<"letgo", "lettinggo", "close">>, <<"abandon", "abandoning", "abandoned">>}

DropGuard ==
  /\ \E c \in DisarmCalls : Goes(c[1], c[2])
  /\ Disarm
  /\ UNCHANGED <<fs, target, replace, held>>

GuardDropped ==
  /\ \E c \in DisarmCalls : Goes(c[2], c[3])
  /\ Disarmed
  /\ UNCHANGED <<fs, target, replace, held>>

(* The next operand, or the end of the run; codec threads are gone by then. *)
(* bzip2 polls its flag first.                                              *)
NextOperand ==
  /\ life = "running" /\ sig[Own] = "none"
  /\ ~ workers
  /\ \/ /\ pc = "next" /\ file < Count /\ ~ interrupted
        /\ file' = file + 1 /\ pc' = "check" /\ UNCHANGED life
     \/ /\ pc \in {"over", "left"} \/ (pc = "next" /\ (file = Count \/ interrupted))
        /\ life' = "finished" /\ UNCHANGED <<file, pc>>
  /\ UNCHANGED <<slot, setup, fs, target, replace, held, workers, interrupted, sig>>

Main ==
  \/ CheckVacant \/ CheckRefused \/ CheckReplaced \/ Probe \/ Unprobe
  \/ Create \/ CreateInPlace \/ CreateFails \/ ArmTarget
  \/ Written \/ WrittenInPlace \/ Close \/ Poll \/ WriteFails
  \/ PublishLink \/ PublishExists \/ PublishRename \/ PublishFails \/ UnlinkTemp
  \/ Discard \/ RemoveInput \/ Abandon \/ DropGuard \/ GuardDropped \/ NextOperand

-------------------------------------------------------------------------------
(* Codec threads that may take a signal start while the output is written,  *)
(* and are joined at any time from the end of the encoding to the next      *)
(* operand.  ncompress has none, zstd's are born with the signal blocked.   *)
StartWorkers ==
  /\ life = "running" /\ sig[Own] = "none"
  /\ pc = "write" /\ Tool \in {"gzip", "bsdgzip", "xz"}
  /\ Handlers # {Own}
  /\ workers' = TRUE
  /\ UNCHANGED <<slot, fs, control, interrupted, sig, life>>

JoinWorkers ==
  /\ life = "running" /\ sig[Own] = "none"
  /\ workers /\ pc # "write"
  /\ \A h \in Handlers : sig[h] = "none"
  /\ workers' = FALSE
  /\ UNCHANGED <<slot, fs, control, interrupted, sig, life>>

(* A signal reaches a thread that does not block it.  zstd catches it only  *)
(* while something is armed.                                                *)
Deliver(h) ==
  /\ life = "running"
  /\ sig[h] = "none"
  /\ Tool # "bzip2" /\ (Tool = "zstd" => armed # Nothing)
  /\ IF h = Own THEN ~ held ELSE workers
  /\ sig' = [sig EXCEPT ![h] = "running"]
  /\ UNCHANGED <<slot, fs, control, workers, interrupted, life>>

(* on_interrupt_signal, on whatever thread.                                 *)
SetFlag ==
  /\ life = "running"
  /\ Tool = "bzip2"
  /\ interrupted' = TRUE
  /\ UNCHANGED <<slot, fs, control, workers, sig, life>>

HandlerFindsNothing(h) ==
  /\ life = "running"
  /\ sig[h] = "running"
  /\ armed = Nothing /\ acting[h] = Nothing
  /\ sig' = [sig EXCEPT ![h] = "ending"]
  /\ UNCHANGED <<slot, fs, control, workers, interrupted, life>>

HandlerTakes(h) ==
  /\ life = "running"
  /\ sig[h] = "running"
  /\ Take(h)
  /\ UNCHANGED <<fs, control, workers, interrupted, sig, life>>

HandlerUnlinks(h) ==
  /\ life = "running"
  /\ sig[h] = "running"
  /\ Release(h)
  /\ Becomes(acting[h], None)
  /\ sig' = [sig EXCEPT ![h] = "ending"]
  /\ UNCHANGED <<control, workers, interrupted, life>>

(* Variant of HandlerEnds: the handler returns to what it interrupted.      *)
HandlerReturns(h) ==
  /\ life = "running"
  /\ sig[h] = "ending"
  /\ sig' = [sig EXCEPT ![h] = "none"]
  /\ UNCHANGED <<slot, fs, control, workers, interrupted, life>>

(* The signal re-raised at its default action, or _exit.                    *)
HandlerEnds(h) ==
  /\ life = "running"
  /\ sig[h] = "ending"
  /\ life' = "signalled"
  /\ UNCHANGED <<slot, fs, control, workers, interrupted, sig>>

Handler(h) ==
  HandlerFindsNothing(h) \/ HandlerTakes(h) \/ HandlerUnlinks(h) \/ HandlerEnds(h)

(* A signal nobody catches, or a crash.                                     *)
Killed ==
  /\ life = "running"
  /\ life' = "killed"
  /\ UNCHANGED <<slot, fs, control, workers, interrupted, sig>>

(* Another program creates a file where this one's output is to go.         *)
OtherCreates(f) ==
  /\ life = "running"
  /\ fs[Out(f)] = None
  /\ Becomes(Out(f), Other)
  /\ UNCHANGED <<slot, control, workers, interrupted, sig, life>>

Ended ==
  /\ life # "running"
  /\ UNCHANGED outputVars

Next ==
  \/ Main
  \/ StartWorkers \/ JoinWorkers
  \/ \E h \in Handlers : Deliver(h) \/ Handler(h)
  \/ SetFlag
  \/ Killed
  \/ \E f \in Files : OtherCreates(f)
  \/ Ended

Spec == Init /\ [][Next]_outputVars

(* Threads that can run do, and handlers run to their end.                  *)
FairSpec ==
  /\ Spec
  /\ WF_outputVars(Main) /\ WF_outputVars(JoinWorkers)
  /\ \A h \in Handlers : WF_outputVars(Handler(h))

-------------------------------------------------------------------------------
Places ==
  {"check", "probe", "unprobe", "create", "arm", "write", "poll", "publish", "unlink", "remove", "discard",
   "nogain", "next", "over", "left"} \cup UNION {{c[1], c[2], c[3]} : c \in DisarmCalls}

(* Types of the state; only the name being written to is ever armed.        *)
TypeOK ==
  /\ setup \in Setups
  /\ armed \in {target, Nothing}
  /\ disarming \in BOOLEAN
  /\ acting \in [Handlers -> {target, Nothing}]
  /\ fs \in [Names -> Contents]
  /\ file \in Files
  /\ pc \in Places
  /\ target \in Names
  /\ {replace, held, workers, interrupted} \subseteq BOOLEAN
  /\ sig \in [Handlers -> {"none", "running", "ending"}]
  /\ life \in {"running", "finished", "signalled", "killed"}

(* Whatever signal, crash, failed write or other program interrupts the run *)
(* at whatever step, each file exists as its input or as its whole output.  *)
Converted == INSTANCE Conversion WITH
  kept <- {f \in Files : fs[In(f)] = Input(f)},
  made <- {f \in Files : fs[Out(f)] = Whole(f)}

ImplementsConversion == Converted!ConversionSpec

(* No temporary of the run's and no partial output.                         *)
Clean ==
  /\ \A n \in Temps, f \in Files : fs[Tmp(n)] \notin {Partial(f), Whole(f)}
  /\ \A f \in Files : fs[Out(f)] # Partial(f)

(* "No signal can find the new temporary unarmed", and what is armed is     *)
(* removed: a run that ends by a handler leaves nothing unfinished behind.  *)
NothingStranded == life = "signalled" => Clean

(* The only exceptions: xz's probe, an output ncompress gives up, which it  *)
(* disarms before it removes it, and what zstd leaves after a fatal error,  *)
(* as zstd does.  A run that comes to its end, bzip2's answer to its flag   *)
(* included, leaves nothing unfinished either.                              *)
Unarmed == {"unprobe", "refusing", "refused", "aborting", "aborted", "left"}

StrandedOnlyUnarmed == life \in {"signalled", "finished"} /\ pc \notin Unarmed => Clean

(* "Publishing must not replace anything": where there are hard links, a    *)
(* file of somebody else's is neither replaced nor unlinked, by the run or  *)
(* by its handlers, unless the user said so when it was found, or the tool  *)
(* is zstd, which renames over what it finds.  (ncompress disarms an output *)
(* that gained nothing only after its removal, so a signal then unlinks     *)
(* whatever has the name.)  And "a published output is never   *)
(* removed": once an output has its name, and ncompress has disarmed it, no *)
(* step of the run or of a handler takes it.                                *)
NotItsToRemove ==
  [][/\ \A n \in Names :
         fs[n] = Other /\ fs'[n] # Other =>
           /\ n = Out(file)
           /\ \/ pc = "check" \/ replace \/ ~ HardLinks
              \/ Tool = "ncompress" /\ pc \in {"drop", "dropping"}
     /\ \A f \in Files :
         fs[Out(f)] = Whole(f) /\ armed # Out(f) =>
           fs'[Out(f)] = Whole(f)]_outputVars

(* The run comes to an end: no disarm, join or handler waits for ever.      *)
RunEnds == <>(life # "running")

===============================================================================
