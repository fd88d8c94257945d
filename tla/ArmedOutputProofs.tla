-------------------------- MODULE ArmedOutputProofs --------------------------
(***************************************************************************)
(* Proofs about ArmedOutput, for any number of operands, temporary names    *)
(* and threads: the types, what a signalled run leaves behind, that no file *)
(* of somebody else's is touched, and that a run implements Conversion.     *)
(***************************************************************************)
EXTENDS ArmedOutput, WellFoundedInduction, TLAPS

Tmps == {Tmp(n) : n \in Temps}
Outs == {Out(f) : f \in Files}

(* The tools whose codec threads take signals.                              *)
Threaded == {"gzip", "bsdgzip", "xz"}

(* Where the main thread has no output of this operand's.                   *)
Before == {"check", "probe", "unprobe", "create", "next", "over", "left"}

(* Where the output is armed, and where a disarm is under way.              *)
Hooked == {"write", "publish", "unlink", "discard", "nogain", "drop",
           "settle", "refuse", "abort", "letgo", "abandon"}
Waiting == {"dropping", "settling", "refusing", "aborting", "lettinggo", "abandoning"}

(* Which places a tool comes to.                                            *)
PlaceInv ==
  /\ pc \in {"probe", "unprobe"} => Tool = "xz"
  /\ pc = "arm" => Tool # "bzip2"
  /\ pc = "poll" => Tool = "bzip2"
  /\ pc \in {"publish", "unlink", "discard", "poll"} => ~ InPlace
  /\ pc \in {"refuse", "refusing", "refused"} => InPlace /\ Tool \in {"ncompress", "zstd"}
  /\ pc \in {"abort", "aborting", "nogain"} => Tool = "ncompress"
  /\ pc \in {"aborted", "over"} => Tool \in {"ncompress", "bzip2"}
  /\ pc \in {"letgo", "lettinggo", "close"} => Tool = "zstd" /\ InPlace
  /\ pc \in {"abandon", "abandoning", "abandoned", "left"} => Tool = "zstd"
  /\ pc \in {"settle", "settling"} => Tool = "ncompress" \/ (Tool = "zstd" /\ ~ InPlace)
  /\ pc \in {"drop", "dropping"} => Tool # "bzip2"
  /\ Tool = "zstd" /\ pc \notin {"check", "next"} => replace

TargetInv ==
  /\ target \in Tmps \cup Outs
  /\ pc \notin Before =>
       /\ InPlace \/ target \in Tmps
       /\ Tool = "ncompress" => InPlace
       /\ InPlace => Tool \in {"ncompress", "zstd"}

(* What is armed, and who may still act on it.                              *)
SlotInv ==
  /\ disarming \in BOOLEAN /\ (disarming <=> pc \in Waiting)
  /\ armed = IF Tool # "bzip2" /\ (pc \in Hooked \/ (pc = "remove" /\ Tool \in Threaded))
             THEN target ELSE Nothing
  /\ acting \in [Handlers -> {target, Nothing}]
  /\ \A h \in Handlers :
       acting[h] # Nothing => sig[h] = "running" /\ (armed = target \/ (disarming /\ h # Own))

(* Where a signal can be on its way.                                        *)
SignalInv ==
  /\ workers => Tool \in Threaded
                /\ pc \in {"write", "publish", "unlink", "discard", "remove", "drop", "dropping", "next"}
  /\ \A h \in Handlers \ {Own} : sig[h] # "none" => workers
  /\ Tool = "bzip2" \/ (Tool = "zstd" /\ armed = Nothing) \/ pc = "arm" =>
       \A h \in Handlers : sig[h] = "none"
  /\ pc = "arm" => held \/ Tool = "zstd"

(* The temporary names.                                                     *)
TempInv ==
  /\ \A n \in Temps, f \in Files :
       fs[Tmp(n)] \in {Partial(f), Whole(f)} =>
         /\ f = file /\ Tmp(n) = target
         /\ pc \in {"arm", "write", "poll", "publish", "unlink", "discard", "aborted",
                    "abandon", "abandoning", "abandoned"}
  /\ pc \notin Before /\ ~ InPlace => fs[target] \in {None, Partial(file), Whole(file)}
  /\ pc \in {"poll", "publish", "unlink"} => fs[target] # Partial(file)
  /\ pc \in {"arm", "write", "abandon", "abandoning", "abandoned"} => fs[target] # Whole(file)

(* The outputs' names.                                                      *)
PartialInv ==
  \A f, g \in Files :
    fs[Out(f)] = Partial(g) =>
      /\ f = file /\ g = file
      /\ \/ pc \in {"unprobe", "left"}
         \/ InPlace /\ pc \in {"arm", "write", "letgo", "lettinggo", "close", "refuse", "refusing",
                               "refused", "abort", "aborting", "aborted",
                               "abandon", "abandoning", "abandoned"}

WholeInv ==
  \A f, g \in Files :
    fs[Out(f)] = Whole(g) =>
      /\ f = g
      /\ \/ f < file
         \/ f = file /\ pc \in {"unlink", "settle", "settling", "remove", "drop", "dropping",
                                "discard", "nogain", "aborted", "next", "over"}

OutputInv ==
  /\ pc = "unprobe" => fs[Out(file)] = Partial(file)
  /\ InPlace /\ pc \in {"arm", "write", "letgo", "refuse", "abort", "abandon"} /\ sig[Own] # "ending" =>
       fs[Out(file)] = Partial(file)
  /\ InPlace /\ pc \in {"lettinggo", "close", "refusing", "refused", "aborting", "aborted"} =>
       fs[Out(file)] = Partial(file)
  /\ InPlace /\ pc \in {"nogain", "settle"} /\ sig[Own] # "ending" => fs[Out(file)] = Whole(file)
  /\ pc \in {"unlink", "settling", "remove"} \/ (pc = "settle" /\ ~ InPlace) => fs[Out(file)] = Whole(file)

(* An input is gone only when its output is there and no longer at stake.   *)
InputInv ==
  \A f \in Files :
    fs[In(f)] # Input(f) =>
      \/ f < file
      \/ f = file /\ (pc = "next" \/ (pc \in {"drop", "dropping"} /\ Tool \in Threaded))

(* A handler that has done its work has left nothing unfinished behind, and *)
(* the run makes nothing more before it ends.                               *)
EndInv ==
  (life \in {"signalled", "finished"} \/ \E h \in Handlers : sig[h] = "ending") /\ pc \notin Unarmed => Clean

OutputTypes ==
  /\ setup \in Setups
  /\ fs \in [Names -> Contents]
  /\ file \in Files
  /\ pc \in Places
  /\ target \in Names
  /\ replace \in BOOLEAN /\ held \in BOOLEAN /\ workers \in BOOLEAN /\ interrupted \in BOOLEAN
  /\ sig \in [Handlers -> {"none", "running", "ending"}]
  /\ life \in {"running", "finished", "signalled", "killed"}

IInv ==
  /\ OutputTypes /\ PlaceInv /\ TargetInv /\ SlotInv /\ SignalInv
  /\ TempInv /\ PartialInv /\ WholeInv /\ OutputInv /\ InputInv /\ EndInv

-------------------------------------------------------------------------------
LEMMA NamesDistinct ==
  /\ \A f \in Files : In(f) \in Names /\ Out(f) \in Names
  /\ \A n \in Temps : Tmp(n) \in Names
  /\ \A f, g \in Files : In(f) # Out(g) /\ (In(f) = In(g) => f = g) /\ (Out(f) = Out(g) => f = g)
  /\ \A f \in Files, n \in Temps : In(f) # Tmp(n) /\ Out(f) # Tmp(n)
  /\ \A n, m \in Temps : Tmp(n) = Tmp(m) => n = m
  /\ Nothing \notin Names
<1>1. Nothing \notin Names
  BY OutputAssumption, NothingAssumption
<1> QED
  BY <1>1 DEF Names, In, Out, Tmp

LEMMA ContentsDistinct ==
  /\ None \in Contents /\ Other \in Contents /\ None # Other
  /\ \A f \in Files :
       /\ Input(f) \in Contents /\ Partial(f) \in Contents /\ Whole(f) \in Contents
       /\ Input(f) \notin {None, Other} /\ Partial(f) \notin {None, Other} /\ Whole(f) \notin {None, Other}
  /\ \A f, g \in Files :
       /\ Input(f) # Partial(g) /\ Input(f) # Whole(g) /\ Partial(f) # Whole(g)
       /\ Input(f) = Input(g) => f = g
       /\ Partial(f) = Partial(g) => f = g
       /\ Whole(f) = Whole(g) => f = g
BY DEF Contents, None, Other, Input, Partial, Whole

LEMMA ConstantFacts ==
  /\ Files \subseteq Nat /\ 1 \in Files /\ Own \in Handlers /\ Temps \subseteq Nat
  /\ \A s \in Setups : s.tool \in {"gzip", "bsdgzip", "xz", "zstd", "bzip2", "ncompress"}
BY OutputAssumption DEF Files

LEMMA IInvInit == Init => IInv
<1> SUFFICES ASSUME Init PROVE IInv
  OBVIOUS
<1> USE ConstantFacts, NamesDistinct, ContentsDistinct DEF Init, SlotInit
<1>1. OutputTypes
  <2>1. fs \in [Names -> Contents]
    BY DEF Contents
  <2> QED
    BY <2>1 DEF OutputTypes, Places
<1>2. PlaceInv /\ TargetInv /\ SlotInv /\ SignalInv
  BY DEF PlaceInv, TargetInv, SlotInv, SignalInv, Before, Outs, Hooked, Waiting
<1>3. TempInv /\ PartialInv /\ WholeInv /\ OutputInv /\ InputInv
  BY DEF TempInv, PartialInv, WholeInv, OutputInv, InputInv, Before
<1>4. EndInv
  BY DEF EndInv, Unarmed
<1> QED
  BY <1>1, <1>2, <1>3, <1>4 DEF IInv

LEMMA LeastOf ==
  ASSUME NEW S, S \subseteq Nat, S # {}
  PROVE  \E n \in S : \A k \in S : n <= k
<1> DEFINE R == {ss \in Nat \X Nat : ss[1] < ss[2]}
<1>1. IsWellFoundedOn(R, Nat)
  BY NatLessThanWellFounded DEF OpToRel
<1>2. \A n, k \in Nat : ~ (<<k, n>> \in R) => n <= k
  OBVIOUS
<1> HIDE DEF R
<1>3. PICK n \in S : \A k \in S : ~ (<<k, n>> \in R)
  BY <1>1, WFMin
<1>4. ASSUME NEW k \in S PROVE n <= k
  <2>1. n \in Nat /\ k \in Nat
    OBVIOUS
  <2> QED
    BY <2>1, <1>2, <1>3
<1> QED
  BY <1>4

(* What is created is the output's own name, or a free temporary one.       *)
LEMMA TargetFree ==
  ASSUME MayCreate
  PROVE  \/ Tool = "ncompress" /\ Target = Out(file) /\ fs[Out(file)] = None
         \/ Tool # "ncompress" /\ \E n \in Temps : Target = Tmp(n) /\ fs[Tmp(n)] = None
<1>1. CASE Tool = "ncompress"
  BY <1>1 DEF MayCreate, Target
<1>2. CASE Tool # "ncompress"
  <2>1. FreeTemps # {} /\ FreeTemps \subseteq Nat
    BY <1>2, ConstantFacts DEF MayCreate, FreeTemps
  <2>2. \E n \in FreeTemps : \A k \in FreeTemps : n <= k
    BY <2>1, LeastOf
  <2>3. \E n \in FreeTemps : Target = Tmp(n)
    BY <1>2, <2>2 DEF Target
  <2> QED
    BY <1>2, <2>3 DEF FreeTemps
<1> QED
  BY <1>1, <1>2

LEMMA ChecksKeep ==
  ASSUME IInv, CheckVacant \/ CheckRefused \/ CheckReplaced \/ Probe \/ Unprobe
  PROVE  IInv'
<1> USE ConstantFacts, NamesDistinct, ContentsDistinct
    DEF IInv, CheckVacant, CheckRefused, CheckReplaced, Probe, Unprobe,
        Goes, MovesTo, slot, Becomes, Tool, Forced, Keep, HardLinks, InPlace, Checked
<1>1. OutputTypes'
  <2>1. replace' \in BOOLEAN
    BY DEF OutputTypes
  <2> QED
    BY <2>1 DEF OutputTypes, Places, DisarmCalls
<1> USE DEF OutputTypes
<1>2. PlaceInv' /\ TargetInv'
  BY DEF PlaceInv, TargetInv, Before, Tmps, Outs
<1> USE DEF PlaceInv, TargetInv
<1>3. SlotInv' /\ SignalInv'
  BY DEF SlotInv, SignalInv, Before, Hooked, Waiting, Threaded
<1> USE DEF SignalInv, Before, Tmps, Outs, TempInv, PartialInv, WholeInv, OutputInv
<1>4. TempInv' /\ PartialInv' /\ WholeInv'
  OBVIOUS
<1>5. OutputInv' /\ InputInv'
  BY DEF InputInv, Threaded
<1>6. EndInv'
  BY DEF EndInv, Clean, Unarmed, Threaded
<1> QED
  BY <1>1, <1>2, <1>3, <1>4, <1>5, <1>6

LEMMA CreatesKeep ==
  ASSUME IInv, Create \/ CreateInPlace \/ CreateFails \/ ArmTarget
  PROVE  IInv'
<1> USE ConstantFacts, NamesDistinct, ContentsDistinct
    DEF IInv, Create, CreateInPlace, CreateFails, ArmTarget,
        Goes, MovesTo, slot, Becomes, Tool, Forced, Keep, HardLinks, InPlace
<1>1. OutputTypes'
  <2>1. held' \in BOOLEAN
    BY DEF OutputTypes
  <2>2. target' \in Names /\ fs' \in [Names -> Contents]
    BY TargetFree DEF OutputTypes
  <2> QED
    BY <2>1, <2>2 DEF OutputTypes, Places, DisarmCalls
<1> USE DEF OutputTypes
<1>2. PlaceInv' /\ TargetInv'
  BY TargetFree DEF PlaceInv, TargetInv, Before, Tmps, Outs
<1> USE DEF PlaceInv, TargetInv
<1>3. SlotInv' /\ SignalInv'
  <2>1. CASE ArmTarget
    BY <2>1 DEF SlotInv, SignalInv, Before, Hooked, Waiting, Threaded, Arm
  <2>2. CASE CreateInPlace \/ CreateFails
    BY <2>2 DEF SlotInv, SignalInv, Before, Hooked, Waiting, Threaded
  <2>3. CASE Create
    <3>1. SlotInv'
      BY <2>3 DEF SlotInv, SignalInv, Before, Hooked, Waiting, Threaded
    <3>2. SignalInv'
      BY <2>3 DEF SlotInv, SignalInv, Before, Hooked, Waiting, Threaded
    <3> QED
      BY <3>1, <3>2
  <2> QED
    BY <2>1, <2>2, <2>3
<1> USE TargetFree DEF SignalInv, Before, Tmps, Outs, TempInv, PartialInv, WholeInv, OutputInv
<1>4. TempInv' /\ PartialInv' /\ WholeInv'
  OBVIOUS
<1>5. OutputInv' /\ InputInv'
  BY DEF InputInv, Threaded
<1>6. EndInv'
  BY DEF EndInv, Clean, Unarmed, Threaded
<1> QED
  BY <1>1, <1>2, <1>3, <1>4, <1>5, <1>6

LEMMA WritesKeep ==
  ASSUME IInv, Written \/ WrittenInPlace \/ Close \/ Poll \/ WriteFails
  PROVE  IInv'
<1> USE ConstantFacts, NamesDistinct, ContentsDistinct
    DEF IInv, Written, WrittenInPlace, Close, Poll, WriteFails,
        Goes, MovesTo, slot, Becomes, Tool, Forced, Keep, HardLinks, InPlace, FailsTo
<1>1. OutputTypes'
  <2>1. pc' \in Places
    BY DEF OutputTypes, Places, DisarmCalls
  <2>2. interrupted' \in BOOLEAN
    BY DEF OutputTypes
  <2>3. fs' \in [Names -> Contents]
    BY DEF OutputTypes
  <2> QED
    BY <2>1, <2>2, <2>3 DEF OutputTypes
<1> USE DEF OutputTypes
<1>2. PlaceInv' /\ TargetInv'
  BY DEF PlaceInv, TargetInv, Before, Tmps, Outs
<1> USE DEF PlaceInv, TargetInv
<1>3. SlotInv' /\ SignalInv'
  BY DEF SlotInv, SignalInv, Before, Hooked, Waiting, Threaded
<1> USE DEF SignalInv, Before, Tmps, Outs, TempInv, PartialInv, WholeInv, OutputInv
<1>4. TempInv' /\ PartialInv' /\ WholeInv'
  OBVIOUS
<1>5. OutputInv' /\ InputInv'
  BY DEF InputInv, Threaded
<1>6. EndInv'
  BY DEF EndInv, Clean, Unarmed, Threaded
<1> QED
  BY <1>1, <1>2, <1>3, <1>4, <1>5, <1>6

LEMMA PublishesKeep ==
  ASSUME IInv, PublishLink \/ PublishExists \/ PublishRename \/ PublishFails \/ UnlinkTemp
  PROVE  IInv'
<1> USE ConstantFacts, NamesDistinct, ContentsDistinct
    DEF IInv, PublishLink, PublishExists, PublishRename, PublishFails, UnlinkTemp,
        Goes, MovesTo, slot, Becomes, Tool, Forced, Keep, HardLinks, InPlace, Published, Unpublished
<1>1. OutputTypes'
  BY DEF OutputTypes, Places, DisarmCalls
<1> USE DEF OutputTypes
<1>2. PlaceInv' /\ TargetInv'
  BY DEF PlaceInv, TargetInv, Before, Tmps, Outs
<1> USE DEF PlaceInv, TargetInv
<1>3. SlotInv' /\ SignalInv'
  BY DEF SlotInv, SignalInv, Before, Hooked, Waiting, Threaded
<1> USE DEF SignalInv, Before, Tmps, Outs, TempInv, PartialInv, WholeInv, OutputInv
<1>4. TempInv' /\ PartialInv' /\ WholeInv'
  OBVIOUS
<1>5. OutputInv' /\ InputInv'
  BY DEF InputInv, Threaded
<1>6. EndInv'
  BY DEF EndInv, Clean, Unarmed, Threaded
<1> QED
  BY <1>1, <1>2, <1>3, <1>4, <1>5, <1>6

LEMMA FinishesKeep ==
  ASSUME IInv, Discard \/ RemoveInput \/ Abandon
  PROVE  IInv'
<1> USE ConstantFacts, NamesDistinct, ContentsDistinct
    DEF IInv, Discard, RemoveInput, Abandon,
        Goes, MovesTo, slot, Becomes, Tool, Forced, Keep, HardLinks, InPlace
<1>1. OutputTypes'
  BY DEF OutputTypes, Places, DisarmCalls
<1> USE DEF OutputTypes
<1>2. PlaceInv' /\ TargetInv'
  BY DEF PlaceInv, TargetInv, Before, Tmps, Outs
<1> USE DEF PlaceInv, TargetInv
<1>3. SlotInv' /\ SignalInv'
  BY DEF SlotInv, SignalInv, Before, Hooked, Waiting, Threaded
<1> USE DEF SignalInv, Before, Tmps, Outs, TempInv, PartialInv, WholeInv, OutputInv
<1>4. TempInv' /\ PartialInv' /\ WholeInv'
  OBVIOUS
<1>5. OutputInv' /\ InputInv'
  BY DEF InputInv, Threaded
<1>6. EndInv'
  BY DEF EndInv, Clean, Unarmed, Threaded
<1> QED
  BY <1>1, <1>2, <1>3, <1>4, <1>5, <1>6

LEMMA GuardsKeep ==
  ASSUME IInv, DropGuard \/ GuardDropped
  PROVE  IInv'
<1> USE ConstantFacts, NamesDistinct, ContentsDistinct
    DEF IInv, DropGuard, GuardDropped,
        Goes, MovesTo, slot, Becomes, Tool, Forced, Keep, HardLinks, InPlace, DisarmCalls, Disarm, Disarmed
<1>1. OutputTypes'
  BY DEF OutputTypes, Places, DisarmCalls
<1> USE DEF OutputTypes
<1>2. PlaceInv' /\ TargetInv'
  BY DEF PlaceInv, TargetInv, Before, Tmps, Outs
<1> USE DEF PlaceInv, TargetInv
<1>3. SlotInv' /\ SignalInv'
  <2>1. CASE DropGuard
    <3>1. SlotInv'
      BY <2>1 DEF SlotInv, SignalInv, Hooked, Waiting, Threaded
    <3>2. SignalInv'
      BY <2>1 DEF SlotInv, SignalInv, Hooked, Waiting, Threaded
    <3> QED
      BY <3>1, <3>2
  <2>2. CASE GuardDropped
    <3>0. /\ pc \in Waiting /\ pc' \in {"next", "remove", "refused", "aborted", "close", "abandoned"}
          /\ pc' = "remove" => Tool \notin Threaded
      BY <2>2 DEF Waiting, Threaded
    <3>1. SlotInv'
      BY <2>2, <3>0 DEF SlotInv, SignalInv, Hooked, Waiting
    <3>2. SignalInv'
      BY <2>2 DEF SlotInv, SignalInv, Hooked, Waiting, Threaded
    <3> QED
      BY <3>1, <3>2
  <2> QED
    BY <2>1, <2>2
<1> USE DEF SignalInv, Before, Tmps, Outs, TempInv, PartialInv, WholeInv, OutputInv
<1>4. TempInv' /\ PartialInv' /\ WholeInv'
  OBVIOUS
<1>5. OutputInv' /\ InputInv'
  BY DEF InputInv, Threaded
<1>6. EndInv'
  BY DEF EndInv, Clean, Unarmed, Threaded
<1> QED
  BY <1>1, <1>2, <1>3, <1>4, <1>5, <1>6

LEMMA NextOperandKeeps ==
  ASSUME IInv, NextOperand
  PROVE  IInv'
<1> USE ConstantFacts, NamesDistinct, ContentsDistinct
    DEF IInv, NextOperand, slot, Tool, InPlace
<1>1. OutputTypes'
  BY OutputAssumption DEF OutputTypes, Places, DisarmCalls, Files
<1> USE DEF OutputTypes
<1>2. PlaceInv' /\ TargetInv'
  BY DEF PlaceInv, TargetInv, Before
<1>3. SlotInv' /\ SignalInv'
  BY DEF PlaceInv, SlotInv, SignalInv, Hooked, Waiting, Threaded
<1>4. TempInv' /\ PartialInv'
  BY DEF TempInv, PartialInv, Before
<1>5. WholeInv' /\ OutputInv' /\ InputInv'
  BY DEF PlaceInv, WholeInv, OutputInv, InputInv, TargetInv, Before, Outs, Tmps
<1>6. EndInv'
  BY DEF EndInv, Clean, Unarmed, TempInv, PartialInv, SignalInv
<1> QED
  BY <1>1, <1>2, <1>3, <1>4, <1>5, <1>6

(* What only concerns the threads: no file and no place changes.            *)
LEMMA ThreadsKeep ==
  ASSUME IInv, NEW h \in Handlers,
         StartWorkers \/ JoinWorkers \/ Deliver(h) \/ SetFlag \/ HandlerFindsNothing(h)
           \/ HandlerTakes(h) \/ HandlerEnds(h) \/ Killed \/ Ended
  PROVE  IInv'
<1> USE ConstantFacts, NamesDistinct, ContentsDistinct
    DEF IInv, StartWorkers, JoinWorkers, Deliver, SetFlag, HandlerFindsNothing, HandlerTakes,
        HandlerEnds, Killed, Ended, slot, control, outputVars, Tool, InPlace
<1>1. OutputTypes'
  BY DEF OutputTypes
<1> USE DEF OutputTypes
<1>2. PlaceInv' /\ TargetInv' /\ TempInv' /\ PartialInv' /\ WholeInv' /\ InputInv'
  BY DEF PlaceInv, TargetInv, TempInv, PartialInv, WholeInv, InputInv, Before, Outs, Tmps
<1>3. SlotInv'
  <2>1. CASE HandlerTakes(h)
    <3>1. acting' = [acting EXCEPT ![h] = armed] /\ armed = target /\ sig[h] = "running"
      BY <2>1 DEF Take, SlotInv
    <3>2. UNCHANGED <<armed, disarming, target, setup, pc, sig>>
      BY <2>1 DEF Take
    <3> QED
      BY <3>1, <3>2 DEF SlotInv
  <2>2. CASE ~ HandlerTakes(h)
    <3>1. UNCHANGED <<armed, disarming, acting, target, setup, pc>>
      BY <2>2
    <3>2. \A k \in Handlers : sig'[k] = sig[k] \/ sig'[k] = "running" \/ acting[k] = Nothing
      BY <2>2
    <3> QED
      BY <3>1, <3>2 DEF SlotInv
  <2> QED
    BY <2>1, <2>2
<1>4. SignalInv'
  BY DEF SignalInv, SlotInv, Take, Threaded, Hooked
<1>5. OutputInv'
  BY DEF OutputInv
<1>6. EndInv'
  BY DEF EndInv, Clean, Unarmed, TempInv, PartialInv, SignalInv, SlotInv, Hooked, PlaceInv, TargetInv
<1> QED
  BY <1>1, <1>2, <1>3, <1>4, <1>5, <1>6

LEMMA HandlerUnlinksKeeps ==
  ASSUME IInv, NEW h \in Handlers, HandlerUnlinks(h)
  PROVE  IInv'
<1> USE ConstantFacts, NamesDistinct, ContentsDistinct
    DEF IInv, HandlerUnlinks, Release, Becomes, slot, control, Tool, InPlace
<1>1. OutputTypes'
  BY DEF OutputTypes, SlotInv
<1> USE DEF OutputTypes
<1>2. PlaceInv' /\ TargetInv' /\ SlotInv' /\ SignalInv'
  BY DEF PlaceInv, TargetInv, SlotInv, SignalInv, Before, Outs, Tmps
<1>3. TempInv' /\ PartialInv' /\ WholeInv' /\ InputInv'
  BY DEF TempInv, PartialInv, WholeInv, InputInv, SlotInv, TargetInv, Before, Outs, Tmps
<1>4. OutputInv'
  BY DEF OutputInv, SlotInv, SignalInv, TargetInv, PlaceInv, Outs, Tmps, Before, Hooked, Waiting, Threaded
<1>5. EndInv'
  BY DEF EndInv, Clean, Unarmed, TempInv, PartialInv, SlotInv, TargetInv, Outs, Tmps
<1> QED
  BY <1>1, <1>2, <1>3, <1>4, <1>5

LEMMA OtherCreatesKeeps ==
  ASSUME IInv, NEW f \in Files, OtherCreates(f)
  PROVE  IInv'
<1> USE ConstantFacts, NamesDistinct, ContentsDistinct
    DEF IInv, OtherCreates, Becomes, slot, control, Tool, InPlace
<1>1. OutputTypes'
  BY DEF OutputTypes
<1> USE DEF OutputTypes
<1>2. PlaceInv' /\ TargetInv' /\ SlotInv' /\ SignalInv'
  BY DEF PlaceInv, TargetInv, SlotInv, SignalInv, Before, Outs, Tmps
<1>3. TempInv' /\ PartialInv' /\ WholeInv' /\ InputInv'
  BY DEF TempInv, PartialInv, WholeInv, InputInv, TargetInv, Before, Outs, Tmps
<1>4. OutputInv'
  BY DEF OutputInv
<1>5. EndInv'
  BY DEF EndInv, Clean, Unarmed
<1> QED
  BY <1>1, <1>2, <1>3, <1>4, <1>5

LEMMA IInvNext == IInv /\ [Next]_outputVars => IInv'
<1> SUFFICES ASSUME IInv, [Next]_outputVars PROVE IInv'
  OBVIOUS
<1>1. CASE Main
  BY <1>1, ChecksKeep, CreatesKeep, WritesKeep, PublishesKeep, FinishesKeep, GuardsKeep,
     NextOperandKeeps DEF Main
<1>2. CASE StartWorkers \/ JoinWorkers \/ SetFlag \/ Killed \/ Ended
  BY <1>2, ConstantFacts, ThreadsKeep
<1>3. ASSUME NEW h \in Handlers, Deliver(h) \/ Handler(h) PROVE IInv'
  BY <1>3, ThreadsKeep, HandlerUnlinksKeeps DEF Handler
<1>4. ASSUME NEW f \in Files, OtherCreates(f) PROVE IInv'
  BY <1>4, OtherCreatesKeeps
<1>5. CASE UNCHANGED outputVars
  BY <1>5 DEF outputVars, slot, control, IInv, OutputTypes, PlaceInv, TargetInv, SlotInv, SignalInv,
     TempInv, PartialInv, WholeInv, OutputInv, InputInv, EndInv, Clean, InPlace, Tool
<1> QED
  BY <1>1, <1>2, <1>3, <1>4, <1>5 DEF Next

LEMMA IInvAlways == Spec => []IInv
BY IInvInit, IInvNext, PTL DEF Spec

-------------------------------------------------------------------------------
(* Every run keeps to its types, and only the name it writes to is ever     *)
(* armed or acted upon.                                                     *)
THEOREM OutputTypeCorrect == Spec => []TypeOK
<1>1. IInv => TypeOK
  BY DEF IInv, OutputTypes, SlotInv, TypeOK
<1> QED
  BY <1>1, IInvAlways, PTL

(* A run that a handler ended, or that came to its end, left no temporary   *)
(* and no partial output but in the windows Unarmed names.                  *)
THEOREM StrandsOnlyUnarmed == Spec => []StrandedOnlyUnarmed
<1>1. IInv => StrandedOnlyUnarmed
  BY DEF IInv, EndInv, StrandedOnlyUnarmed
<1> QED
  BY <1>1, IInvAlways, PTL

(* A step of the run's or of a handler's touches no file of somebody else's *)
(* and no published output.                                                 *)
THEOREM RemovesOnlyItsOwn == Spec => NotItsToRemove
<1> DEFINE Spared ==
      /\ \A n \in Names :
           fs[n] = Other /\ fs'[n] # Other =>
             /\ n = Out(file)
             /\ \/ pc = "check" \/ replace \/ ~ HardLinks
                \/ Tool = "ncompress" /\ pc \in {"drop", "dropping"}
      /\ \A f \in Files :
           fs[Out(f)] = Whole(f) /\ armed # Out(f) => fs'[Out(f)] = Whole(f)
<1>1. ASSUME IInv, IInv', [Next]_outputVars PROVE Spared
  <2> USE <1>1, ConstantFacts, NamesDistinct, ContentsDistinct
      DEF IInv, OutputTypes, Goes, MovesTo, slot, Becomes, Tool, Forced, Keep, HardLinks, InPlace,
          PlaceInv, TargetInv, TempInv, WholeInv, OutputInv, Before, Outs, Tmps
  <2>1. CASE CheckVacant \/ CheckRefused \/ CheckReplaced \/ Probe \/ Unprobe
    BY <2>1 DEF CheckVacant, CheckRefused, CheckReplaced, Probe, Unprobe
  <2>2. CASE Create \/ CreateInPlace \/ CreateFails \/ ArmTarget
    BY <2>2, TargetFree DEF Create, CreateInPlace, CreateFails, ArmTarget
  <2>3. CASE Written \/ WrittenInPlace \/ Close \/ Poll \/ WriteFails
    BY <2>3 DEF Written, WrittenInPlace, Close, Poll, WriteFails
  <2>4. CASE PublishLink \/ PublishExists \/ PublishRename \/ PublishFails \/ UnlinkTemp
    BY <2>4 DEF PublishLink, PublishExists, PublishRename, PublishFails, UnlinkTemp
  <2>5. CASE Discard
    BY <2>5 DEF Discard, SlotInv, Hooked
  <2>6. CASE RemoveInput \/ Abandon
    BY <2>6 DEF RemoveInput, Abandon, InputInv
  <2>7. ASSUME NEW h \in Handlers, HandlerUnlinks(h) PROVE Spared
    BY <2>7 DEF HandlerUnlinks, Release, SlotInv, SignalInv, Hooked, Waiting, Threaded
  <2>8. ASSUME NEW f \in Files, OtherCreates(f) PROVE Spared
    BY <2>8 DEF OtherCreates
  <2>9. CASE fs' = fs
    BY <2>9
  <2>10. \A h \in Handlers : Handler(h) => fs' = fs \/ HandlerUnlinks(h)
    BY DEF Handler, HandlerFindsNothing, HandlerTakes, HandlerEnds
  <2>11. DropGuard \/ GuardDropped \/ NextOperand \/ StartWorkers \/ JoinWorkers \/ SetFlag \/ Killed
           \/ Ended \/ UNCHANGED outputVars => fs' = fs
    BY DEF DropGuard, GuardDropped, NextOperand, StartWorkers, JoinWorkers, SetFlag, Killed, Ended, outputVars
  <2>12. \A h \in Handlers : Deliver(h) => fs' = fs
    BY DEF Deliver
  <2> QED
    BY <2>1, <2>2, <2>3, <2>4, <2>5, <2>6, <2>7, <2>8, <2>9, <2>10, <2>11, <2>12 DEF Next, Main
<1> QED
  BY <1>1, IInvAlways, PTL DEF Spec, NotItsToRemove

-------------------------------------------------------------------------------
(* A step gives up an input only for its whole output, and an output only   *)
(* while its input is there; and it concerns one operand.                   *)
Given(f) == fs[In(f)] = Input(f)
Made(f) == fs[Out(f)] = Whole(f)

StepsAsConversion ==
  \E f \in Files :
    /\ f = file
    /\ \A g \in Files \ {f} : (Given(g)' <=> Given(g)) /\ (Made(g)' <=> Made(g))
    /\ \/ Given(f)' <=> Given(f)
       \/ Made(f) /\ Made(f)' /\ ~ Given(f)'
    /\ Made(f) /\ ~ Made(f)' => Given(f)

LEMMA ConversionStep ==
  ASSUME IInv, IInv', [Next]_outputVars
  PROVE  StepsAsConversion
<1> USE ConstantFacts, NamesDistinct, ContentsDistinct
    DEF IInv, OutputTypes, Goes, MovesTo, slot, Becomes, Tool, Forced, Keep, HardLinks, InPlace,
        PlaceInv, TargetInv, TempInv, WholeInv, OutputInv, InputInv, Before, Outs, Tmps,
        StepsAsConversion, Given, Made
<1>1. CASE CheckVacant \/ CheckRefused \/ CheckReplaced \/ Probe \/ Unprobe
  BY <1>1 DEF CheckVacant, CheckRefused, CheckReplaced, Probe, Unprobe
<1>2. CASE Create \/ CreateInPlace \/ CreateFails \/ ArmTarget
  BY <1>2, TargetFree DEF Create, CreateInPlace, CreateFails, ArmTarget
<1>3. CASE Written \/ WrittenInPlace \/ Close \/ Poll \/ WriteFails
  BY <1>3 DEF Written, WrittenInPlace, Close, Poll, WriteFails
<1>4. CASE PublishLink \/ PublishExists \/ PublishRename \/ PublishFails \/ UnlinkTemp
  BY <1>4 DEF PublishLink, PublishExists, PublishRename, PublishFails, UnlinkTemp
<1>5. CASE Discard
  BY <1>5 DEF Discard, Threaded
<1>6. CASE RemoveInput \/ Abandon
  BY <1>6 DEF RemoveInput, Abandon
<1>7. ASSUME NEW h \in Handlers, HandlerUnlinks(h) PROVE StepsAsConversion
  BY <1>7 DEF HandlerUnlinks, Release, SlotInv, SignalInv, Hooked, Waiting, Threaded
<1>8. ASSUME NEW f \in Files, OtherCreates(f) PROVE StepsAsConversion
  BY <1>8 DEF OtherCreates
<1>9. CASE fs' = fs
  BY <1>9
<1>10. \A h \in Handlers : (Handler(h) \/ Deliver(h)) => fs' = fs \/ HandlerUnlinks(h)
  BY DEF Handler, HandlerFindsNothing, HandlerTakes, HandlerEnds, Deliver
<1>11. DropGuard \/ GuardDropped \/ NextOperand \/ StartWorkers \/ JoinWorkers \/ SetFlag \/ Killed
         \/ Ended \/ UNCHANGED outputVars => fs' = fs
  BY DEF DropGuard, GuardDropped, NextOperand, StartWorkers, JoinWorkers, SetFlag, Killed, Ended, outputVars
<1> QED
  BY <1>1, <1>2, <1>3, <1>4, <1>5, <1>6, <1>7, <1>8, <1>9, <1>10, <1>11 DEF Next, Main

(* Whatever interrupts a run wherever, each file is there as the input it   *)
(* was or as a whole output: ArmedOutput implements Conversion.             *)
THEOREM OutputImplementsConversion == Spec => ImplementsConversion
<1> DEFINE kept == {f \in Files : fs[In(f)] = Input(f)}
           made == {f \in Files : fs[Out(f)] = Whole(f)}
<1>1. Init => kept = Files /\ made = {}
  BY ContentsDistinct DEF Init
<1>2. Init => Converted!ConversionInit
  BY <1>1 DEF Converted!ConversionInit
<1>3. ASSUME IInv, IInv', [Next]_outputVars
      PROVE  [Converted!ConversionNext]_<<kept, made>>
  <2>1. PICK f \in Files :
          /\ \A g \in Files \ {f} : (Given(g)' <=> Given(g)) /\ (Made(g)' <=> Made(g))
          /\ \/ Given(f)' <=> Given(f)
             \/ Made(f) /\ Made(f)' /\ ~ Given(f)'
          /\ Made(f) /\ ~ Made(f)' => Given(f)
    BY <1>3, ConversionStep DEF StepsAsConversion
  <2>2. CASE kept' = kept /\ made' = made
    BY <2>2
  <2>3. CASE Given(f)' <=> Given(f)
    <3>1. kept' = kept
      BY <2>1, <2>3 DEF Given
    <3>2. CASE Made(f)'
      <4>1. made' = made \cup {f}
        BY <2>1, <3>2 DEF Made
      <4>2. Converted!Make(f)
        BY <3>1, <4>1 DEF Converted!Make
      <4> QED
        BY <2>1, <4>2 DEF Converted!ConversionNext
    <3>3. CASE ~ Made(f)' /\ Made(f)
      <4>1. made' = made \ {f} /\ f \in kept
        BY <2>1, <3>3 DEF Made, Given
      <4>2. Converted!Withdraw(f)
        BY <3>1, <4>1 DEF Converted!Withdraw
      <4> QED
        BY <2>1, <4>2 DEF Converted!ConversionNext
    <3>4. CASE ~ Made(f)' /\ ~ Made(f)
      <4>1. made' = made
        BY <2>1, <3>4 DEF Made
      <4> QED
        BY <3>1, <4>1, <2>2
    <3> QED
      BY <3>2, <3>3, <3>4
  <2>4. CASE Made(f) /\ Made(f)' /\ ~ Given(f)'
    <3>1. made' = made /\ kept' = kept \ {f} /\ f \in made
      BY <2>1, <2>4 DEF Made, Given
    <3>2. Converted!Spend(f)
      BY <3>1 DEF Converted!Spend
    <3> QED
      BY <2>1, <3>2 DEF Converted!ConversionNext
  <2> QED
    BY <2>1, <2>3, <2>4
<1> QED
  BY <1>2, <1>3, IInvAlways, PTL DEF Spec, ImplementsConversion, Converted!ConversionSpec

===============================================================================
