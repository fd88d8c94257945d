------------------------------ MODULE ZipReplace ------------------------------
(***************************************************************************)
(* zip's last step (crates/stuffr-cli/src/compat/zip/sink.rs, replace): the *)
(* temporary archive s, armed since mkstemp made it, takes the place of the *)
(* archive d, by removal and rename or by a copy over it, with SIGINT and   *)
(* SIGTERM held back; and the parts of a split archive (-sp), each replaced *)
(* as it is full.  zip runs on one thread.  Not modelled: the synchronous   *)
(* faults, which are not held back, and a failed removal of a file zip made.*)
(***************************************************************************)
EXTENDS SignalSlot

CONSTANTS
  Main,       (* the one thread                                              *)
  Archives    (* the archive, or the parts of a split one (-sp), in turn     *)

ASSUME ZipAssumption ==
  /\ Handlers = {Main}
  /\ Values = Archives

VARIABLES
  d,          (* d[a]: the archive: "none", "old", "new", or "cut" by a copy *)
  s,          (* s[a]: its temporary: "none", "part" or "new"                *)
  was,        (* was[a]: "absent", "sole", or "shared" with other links      *)
  at,         (* the archive being written                                   *)
  todo,       (* archives still to write                                     *)
  split,      (* they are parts; else there is one                           *)
  pc,         (* where zip is                                                *)
  held,       (* SIGINT and SIGTERM are blocked                              *)
  failed,     (* archives whose replace failed                               *)
  sig,        (* the handler: "none", "running" or "ending"                  *)
  life        (* "running", or how the process ended                         *)

files == <<d, s, was, split>>
zipVars == <<slot, files, at, todo, pc, held, failed, sig, life>>

Init ==
  /\ SlotInit
  /\ was \in [Archives -> {"absent", "sole", "shared"}]
  /\ d = [a \in Archives |-> IF was[a] = "absent" THEN "none" ELSE "old"]
  /\ s = [a \in Archives |-> "none"]
  /\ at \in Archives
  /\ split \in BOOLEAN
  /\ todo \in IF split THEN {Archives} ELSE {{a} : a \in Archives}
  /\ pc = "next"
  /\ held = FALSE
  /\ failed = {}
  /\ sig = "none"
  /\ life = "running"

-------------------------------------------------------------------------------
Goes(from, to) ==
  /\ life = "running" /\ sig = "none"
  /\ pc = from
  /\ pc' = to
  /\ UNCHANGED <<was, split, sig, life>>

Archive(c) == d' = [d EXCEPT ![at] = c]
Temporary(c) == s' = [s EXCEPT ![at] = c]

(* mkstemp: the temporary created and armed under the held signals.         *)
Mkstemp ==
  /\ Goes("next", "write")
  /\ at' \in todo
  /\ todo' = todo \ {at'}
  /\ s' = [s EXCEPT ![at'] = "part"]
  /\ Arm(at')
  /\ UNCHANGED <<d, held, failed>>

(* The new archive written, or given up.                                    *)
Write ==
  /\ \/ Goes("write", "replace") /\ Temporary("new")
     \/ Goes("write", "quit") /\ UNCHANGED s
  /\ UNCHANGED <<slot, d, at, todo, held, failed>>

(* Variant of Hold: the signals stay unblocked.                             *)
HoldNothing ==
  /\ Goes("replace", "look")
  /\ UNCHANGED <<slot, d, s, at, todo, held, failed>>

Hold ==
  /\ Goes("replace", "look")
  /\ held' = TRUE
  /\ UNCHANGED <<slot, d, s, at, todo, failed>>

(* replace_now: an archive nobody shares is removed first; a shared one is  *)
(* copied over.  Either may be refused.                                     *)
Look ==
  /\ \/ d[at] = "none" /\ Goes("look", "rename") /\ UNCHANGED d
     \/ d[at] # "none" /\ was[at] = "sole" /\ Goes("look", "rename") /\ Archive("none")
     \/ d[at] # "none" /\ was[at] = "shared" /\ Goes("look", "open") /\ UNCHANGED d
     \/ d[at] # "none" /\ Goes("look", "failed") /\ UNCHANGED d
  /\ UNCHANGED <<slot, s, at, todo, held, failed>>

(* ... or it is on another device, and the rename turns into a copy.        *)
Rename ==
  /\ \/ Goes("rename", "release") /\ Archive("new") /\ Temporary("none")
     \/ Goes("rename", "open") /\ UNCHANGED <<d, s>>
     \/ Goes("rename", "failed") /\ UNCHANGED <<d, s>>
  /\ UNCHANGED <<slot, at, todo, held, failed>>

(* copy_over: d cut to nothing, filled, and only then s removed.            *)
Open ==
  /\ \/ Goes("open", "copy") /\ Archive("cut")
     \/ Goes("open", "failed") /\ UNCHANGED d
  /\ UNCHANGED <<slot, s, at, todo, held, failed>>

(* Variant of Copy: the temporary is removed when the copy fails, too.      *)
CopyRemovesBoth ==
  /\ \/ Goes("copy", "unlink") /\ Archive("new") /\ UNCHANGED s
     \/ Goes("copy", "failed") /\ Archive("none") /\ Temporary("none")
  /\ UNCHANGED <<slot, at, todo, held, failed>>

Copy ==
  /\ \/ Goes("copy", "unlink") /\ Archive("new")
     \/ Goes("copy", "failed") /\ d' \in {d, [d EXCEPT ![at] = "none"]}
  /\ UNCHANGED <<slot, s, at, todo, held, failed>>

Unlink ==
  /\ Goes("unlink", "release")
  /\ Temporary("none")
  /\ UNCHANGED <<slot, d, at, todo, held, failed>>

(* A failed replace is disarmed inside the hold (variant: it is not) ...    *)
FailedArmed ==
  /\ Goes("failed", "release")
  /\ failed' = failed \cup {at}
  /\ UNCHANGED <<slot, d, s, at, todo, held>>

Failed ==
  /\ Goes("failed", "disarm")
  /\ Disarm
  /\ failed' = failed \cup {at}
  /\ UNCHANGED <<d, s, at, todo, held>>

FailedDisarmed ==
  /\ Goes("disarm", "release")
  /\ Disarmed
  /\ UNCHANGED <<d, s, at, todo, held, failed>>

(* ... and the signals are let through.                                     *)
ReleaseHold ==
  /\ Goes("release", IF at \in failed THEN "quit" ELSE "drop")
  /\ held' = FALSE
  /\ UNCHANGED <<slot, d, s, at, todo, failed>>

(* The guard dropped: a call of disarm, and where it returns to.            *)
DisarmCalls == {<<"drop", "dropping", "next">>, <<"quit", "quitting", "destroy">>}

Drop ==
  /\ \E c \in DisarmCalls : Goes(c[1], c[2])
  /\ Disarm
  /\ UNCHANGED <<d, s, at, todo, held, failed>>

Dropped ==
  /\ \E c \in DisarmCalls : Goes(c[2], c[3])
  /\ Disarmed
  /\ UNCHANGED <<d, s, at, todo, held, failed>>

(* The temporary of an archive given up is removed once it is disarmed, and *)
(* of a failed replace is kept; but a part before the last is removed then, *)
(* too, for only the last one's is marked published (SplitW's drop).        *)
Destroy ==
  /\ Goes("destroy", "over")
  /\ IF at \in failed /\ (split => todo = {}) THEN UNCHANGED s ELSE Temporary("none")
  /\ UNCHANGED <<slot, d, at, todo, held, failed>>

Finish ==
  /\ life = "running" /\ sig = "none"
  /\ pc = "over" \/ (pc = "next" /\ todo = {})
  /\ life' = "finished"
  /\ UNCHANGED <<slot, files, at, todo, pc, held, failed, sig>>

Zip ==
  \/ Mkstemp \/ Write \/ Hold \/ Look \/ Rename \/ Open \/ Copy \/ Unlink
  \/ Failed \/ FailedDisarmed \/ ReleaseHold \/ Drop \/ Dropped \/ Destroy \/ Finish

-------------------------------------------------------------------------------
(* SIGINT or SIGTERM arrives, at once or when the mask is restored.         *)
Deliver ==
  /\ life = "running" /\ sig = "none"
  /\ ~ held
  /\ sig' = "running"
  /\ UNCHANGED <<slot, files, at, todo, pc, held, failed, life>>

(* on_zip_abort: unlink the armed temporary and exit 9.                     *)
HandlerTakes ==
  /\ life = "running" /\ sig = "running"
  /\ Take(Main)
  /\ UNCHANGED <<files, at, todo, pc, held, failed, sig, life>>

HandlerUnlinks ==
  /\ life = "running" /\ sig = "running"
  /\ Release(Main)
  /\ s' = [s EXCEPT ![acting[Main]] = "none"]
  /\ sig' = "ending"
  /\ UNCHANGED <<d, was, split, at, todo, pc, held, failed, life>>

HandlerEnds ==
  /\ life = "running"
  /\ sig = "ending" \/ (sig = "running" /\ armed = Nothing /\ acting[Main] = Nothing)
  /\ life' = "signalled"
  /\ UNCHANGED <<slot, files, at, todo, pc, held, failed, sig>>

Handler == HandlerTakes \/ HandlerUnlinks \/ HandlerEnds

(* SIGKILL, or a crash.                                                     *)
Killed ==
  /\ life = "running"
  /\ life' = "killed"
  /\ UNCHANGED <<slot, files, at, todo, pc, held, failed, sig>>

Ended ==
  /\ life # "running"
  /\ UNCHANGED zipVars

Next == Zip \/ Deliver \/ Handler \/ Killed \/ Ended

Spec == Init /\ [][Next]_zipVars

-------------------------------------------------------------------------------
Places ==
  {"next", "write", "replace", "look", "rename", "open", "copy", "unlink", "failed",
   "disarm", "release", "drop", "dropping", "quit", "quitting", "destroy", "over"}

HeldPlaces == {"look", "rename", "open", "copy", "unlink", "failed", "disarm", "release"}

(* Types of the state; the signals are held exactly while the archive may   *)
(* not be whole, and only the temporary of the archive in hand is armed.    *)
TypeOK ==
  /\ d \in [Archives -> {"none", "old", "new", "cut"}]
  /\ s \in [Archives -> {"none", "part", "new"}]
  /\ was \in [Archives -> {"absent", "sole", "shared"}]
  /\ at \in Archives
  /\ todo \subseteq Archives /\ split \in BOOLEAN
  /\ pc \in Places
  /\ held \in BOOLEAN /\ (held <=> pc \in HeldPlaces)
  /\ failed \subseteq Archives
  /\ sig \in {"none", "running", "ending"}
  /\ life \in {"running", "finished", "signalled", "killed"}
  /\ armed \in {Nothing, at}
  /\ disarming \in BOOLEAN
  /\ acting \in [Handlers -> {Nothing, at}]

(* A part before the last whose replace failed: SplitW has removed its      *)
(* temporary.                                                               *)
Destroyed(a) == split /\ todo # {} /\ a \in failed /\ pc = "over"

(* At every step, and so however the run ends, an archive that was there is *)
(* whole under its own name, old or new, or whole under the temporary's; and*)
(* an archive cut short by a copy has its temporary to be recovered from.   *)
ArchiveKept ==
  \A a \in Archives :
    /\ d[a] \notin {"old", "new"}
    /\ was[a] # "absent" \/ d[a] = "cut"
    => s[a] = "new" \/ Destroyed(a)

(* "An interrupt is answered only once the archive is whole again, old or   *)
(* new": a run ended by its handler leaves no archive cut, and no temporary,*)
(* but of a replace that failed or while it is giving an archive up.        *)
AnsweredWhole ==
  life = "signalled" /\ pc \notin {"quitting", "destroy"} =>
    \A a \in Archives : a \notin failed => d[a] # "cut" /\ s[a] = "none"

(* "After a failure the temporary ... survives under its own name even when *)
(* the archive was already unlinked or truncated", whatever follows.        *)
FailureKeepsNew == \A a \in failed : s[a] = "new"

(* So it does but for the parts SplitW destroys.                            *)
LastFailureKeepsNew == \A a \in failed : s[a] = "new" \/ Destroyed(a)
===============================================================================
