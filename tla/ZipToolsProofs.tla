---------------------------- MODULE ZipToolsProofs ----------------------------
(***************************************************************************)
(* Proofs about ZipTools, for any number of parts: zip's archives stay      *)
(* whole under one name or the other, an interrupt finds nothing half done, *)
(* and zipsplit leaves all of its names or none.                            *)
(***************************************************************************)
EXTENDS ZipTools, WellFoundedInduction, TLAPS

Old(a) == d[a] = IF was[a] = "absent" THEN "none" ELSE "old"

(* An archive not begun, and one that is done with.                         *)
Untouched(a) == s[a] = "none" /\ Old(a) /\ a \notin failed
Replaced(a) == s[a] = "none" /\ d[a] = "new" /\ a \notin failed

(* Where the temporary is armed, and where a disarm is under way.           *)
ArmedPlaces == {"write", "replace", "look", "rename", "open", "copy", "unlink", "failed", "drop"}
Waiting == {"disarm", "dropping", "quitting"}

OthersInv ==
  /\ \A a \in todo : Untouched(a)
  /\ \A a \in Archives : a # at \/ pc = "next" => Untouched(a) \/ Replaced(a)
  /\ pc # "next" => at \notin todo

(* The archive in hand and its temporary, place by place.                   *)
HandInv ==
  /\ pc = "write" => s[at] = "part" \/ sig = "ending"
  /\ pc \in {"replace", "look"} => s[at] = "new" \/ (pc = "replace" /\ sig = "ending")
  /\ pc \in {"rename", "open", "copy", "unlink", "failed", "disarm"} => s[at] = "new"
  /\ pc \in {"write", "replace", "look"} => Old(at)
  /\ pc = "rename" => d[at] = "none"
  /\ pc \in {"rename", "open"} => d[at] \notin {"new", "cut"} /\ (was[at] = "absent" => d[at] = "none")
  /\ pc = "copy" => d[at] = "cut"
  /\ pc = "unlink" => d[at] = "new"
  /\ pc \in {"write", "replace", "look", "rename", "open", "copy", "unlink", "failed", "drop", "dropping"} =>
       at \notin failed
  /\ pc \in {"release", "drop", "dropping"} /\ at \notin failed => Replaced(at)
  /\ pc \in {"disarm"} => at \in failed
  /\ pc \in {"release", "quit", "quitting", "destroy"} /\ at \in failed => s[at] = "new"
  /\ pc \in {"quit", "quitting", "destroy"} /\ at \notin failed => Old(at) /\ s[at] # "new"
  /\ pc = "over" =>
       IF at \in failed /\ (split => todo = {}) THEN s[at] = "new"
       ELSE s[at] = "none" /\ (at \notin failed => Old(at))

ArmedInv ==
  /\ IF pc \in Waiting THEN disarming = TRUE ELSE disarming = FALSE
  /\ armed = IF pc \in ArmedPlaces \/ (pc \in {"release", "quit"} /\ at \notin failed) THEN at ELSE Nothing
  /\ acting \in [Handlers -> {Nothing, at}]
  /\ acting[Main] # Nothing => sig = "running" /\ armed = at
  /\ IF pc \in HeldPlaces THEN held = TRUE ELSE held = FALSE
  /\ sig # "none" => pc \notin HeldPlaces

(* A handler that is done, and a run it ended, left no temporary.           *)
AnsweredInv ==
  (sig = "ending" \/ life = "signalled") /\ pc \notin {"quitting", "destroy"} => at \in failed \/ s[at] = "none"

ZipTypes ==
  /\ d \in [Archives -> {"none", "old", "new", "cut"}]
  /\ s \in [Archives -> {"none", "part", "new"}]
  /\ was \in [Archives -> {"absent", "sole", "shared"}]
  /\ at \in Archives /\ todo \subseteq Archives /\ split \in BOOLEAN
  /\ pc \in Places
  /\ failed \subseteq Archives
  /\ sig \in {"none", "running", "ending"}
  /\ life \in {"running", "finished", "signalled", "killed"}

ZipInv == ZipTypes /\ OthersInv /\ HandInv /\ ArmedInv /\ AnsweredInv

-------------------------------------------------------------------------------
LEMMA ZipFacts == Handlers = {Main} /\ Nothing \notin Archives
BY ZipAssumption, NothingAssumption

LEMMA ZipInit == Init => ZipInv
<1> SUFFICES ASSUME Init PROVE ZipInv
  OBVIOUS
<1> USE ZipFacts DEF Init, SlotInit
<1>1. ZipTypes
  BY DEF ZipTypes, Places
<1>2. OthersInv /\ HandInv /\ AnsweredInv
  BY DEF OthersInv, HandInv, AnsweredInv, Untouched, Old
<1>3. ArmedInv
  BY DEF ArmedInv, ArmedPlaces, Waiting, HeldPlaces
<1> QED
  BY <1>1, <1>2, <1>3 DEF ZipInv

LEMMA WritingKeeps ==
  ASSUME ZipInv, Mkstemp \/ Write \/ Hold
  PROVE  ZipInv'
<1> USE ZipFacts DEF ZipInv, Mkstemp, Write, Hold, Arm, Goes, Archive, Temporary, slot, files
<1>1. ZipTypes'
  BY DEF ZipTypes, Places
<1> USE DEF ZipTypes
<1>2. OthersInv' /\ HandInv'
  BY DEF OthersInv, HandInv, AnsweredInv, Untouched, Replaced, Old
<1>3. ArmedInv'
  <2> USE DEF ArmedInv, ArmedPlaces, Waiting
  <2>1. (IF pc' \in HeldPlaces THEN held' = TRUE ELSE held' = FALSE) /\ (sig' # "none" => pc' \notin HeldPlaces)
    BY DEF HeldPlaces
  <2>2. IF pc' \in Waiting THEN disarming' = TRUE ELSE disarming' = FALSE
    OBVIOUS
  <2>3. acting[Main] = Nothing
    BY DEF Places
  <2>4. acting' \in [Handlers -> {Nothing, at'}] /\ acting'[Main] = Nothing
    BY <2>3
  <2>5. armed' = IF pc' \in ArmedPlaces \/ (pc' \in {"release", "quit"} /\ at' \notin failed') THEN at' ELSE Nothing
    BY DEF OthersInv, HandInv, Untouched, Replaced
  <2> QED
    BY <2>1, <2>2, <2>4, <2>5
<1>4. AnsweredInv'
  BY DEF AnsweredInv, HandInv, ArmedInv, Replaced
<1> QED
  BY <1>1, <1>2, <1>3, <1>4

LEMMA ReplacingKeeps ==
  ASSUME ZipInv, Look \/ Rename \/ Open \/ Copy \/ Unlink
  PROVE  ZipInv'
<1> USE ZipFacts DEF ZipInv, Look, Rename, Open, Copy, Unlink, Goes, Archive, Temporary, slot, files
<1>1. ZipTypes'
  BY DEF ZipTypes, Places
<1> USE DEF ZipTypes
<1>2. OthersInv' /\ HandInv'
  BY DEF OthersInv, HandInv, AnsweredInv, Untouched, Replaced, Old
<1>3. ArmedInv'
  <2> USE DEF ArmedInv, ArmedPlaces, Waiting
  <2>1. (IF pc' \in HeldPlaces THEN held' = TRUE ELSE held' = FALSE) /\ (sig' # "none" => pc' \notin HeldPlaces)
    BY DEF HeldPlaces
  <2>2. IF pc' \in Waiting THEN disarming' = TRUE ELSE disarming' = FALSE
    OBVIOUS
  <2>3. acting[Main] = Nothing
    BY DEF Places
  <2>4. acting' \in [Handlers -> {Nothing, at'}] /\ acting'[Main] = Nothing
    BY <2>3
  <2>5. armed' = IF pc' \in ArmedPlaces \/ (pc' \in {"release", "quit"} /\ at' \notin failed') THEN at' ELSE Nothing
    BY DEF OthersInv, HandInv, Untouched, Replaced
  <2> QED
    BY <2>1, <2>2, <2>4, <2>5
<1>4. AnsweredInv'
  BY DEF AnsweredInv, HandInv, ArmedInv, Replaced
<1> QED
  BY <1>1, <1>2, <1>3, <1>4

LEMMA EndingKeeps ==
  ASSUME ZipInv, Failed \/ FailedDisarmed \/ ReleaseHold \/ Destroy \/ Finish
  PROVE  ZipInv'
<1> USE ZipFacts DEF ZipInv, Failed, FailedDisarmed, ReleaseHold, Destroy, Finish, Disarm, Disarmed, Goes, Archive, Temporary, slot, files
<1>1. ZipTypes'
  BY DEF ZipTypes, Places
<1> USE DEF ZipTypes
<1>2. OthersInv' /\ HandInv'
  BY DEF OthersInv, HandInv, AnsweredInv, Untouched, Replaced, Old
<1>3. ArmedInv'
  <2> USE DEF ArmedInv, ArmedPlaces, Waiting
  <2>1. (IF pc' \in HeldPlaces THEN held' = TRUE ELSE held' = FALSE) /\ (sig' # "none" => pc' \notin HeldPlaces)
    BY DEF HeldPlaces
  <2>2. IF pc' \in Waiting THEN disarming' = TRUE ELSE disarming' = FALSE
    OBVIOUS
  <2>3. acting[Main] = Nothing
    BY DEF Places
  <2>4. acting' \in [Handlers -> {Nothing, at'}] /\ acting'[Main] = Nothing
    BY <2>3
  <2>5. armed' = IF pc' \in ArmedPlaces \/ (pc' \in {"release", "quit"} /\ at' \notin failed') THEN at' ELSE Nothing
    BY DEF OthersInv, HandInv, Untouched, Replaced
  <2> QED
    BY <2>1, <2>2, <2>4, <2>5
<1>4. AnsweredInv'
  BY DEF AnsweredInv, HandInv, ArmedInv, Replaced
<1> QED
  BY <1>1, <1>2, <1>3, <1>4

LEMMA DroppingKeeps ==
  ASSUME ZipInv, Drop \/ Dropped
  PROVE  ZipInv'
<1> USE ZipFacts DEF ZipInv, Drop, Dropped, Disarm, Disarmed, DisarmCalls, Goes, Archive, Temporary, slot, files
<1>1. ZipTypes'
  BY DEF ZipTypes, Places
<1> USE DEF ZipTypes
<1>2. OthersInv' /\ HandInv'
  BY DEF OthersInv, HandInv, AnsweredInv, Untouched, Replaced, Old
<1>3. ArmedInv'
  <2> USE DEF ArmedInv, ArmedPlaces, Waiting
  <2>1. (IF pc' \in HeldPlaces THEN held' = TRUE ELSE held' = FALSE) /\ (sig' # "none" => pc' \notin HeldPlaces)
    BY DEF HeldPlaces
  <2>2. IF pc' \in Waiting THEN disarming' = TRUE ELSE disarming' = FALSE
    OBVIOUS
  <2>3. acting[Main] = Nothing
    BY DEF Places
  <2>4. acting' \in [Handlers -> {Nothing, at'}] /\ acting'[Main] = Nothing
    BY <2>3
  <2>5. armed' = IF pc' \in ArmedPlaces \/ (pc' \in {"release", "quit"} /\ at' \notin failed') THEN at' ELSE Nothing
    BY DEF OthersInv, HandInv, Untouched, Replaced
  <2> QED
    BY <2>1, <2>2, <2>4, <2>5
<1>4. AnsweredInv'
  BY DEF AnsweredInv, HandInv, ArmedInv, Replaced
<1> QED
  BY <1>1, <1>2, <1>3, <1>4

LEMMA SignalKeeps ==
  ASSUME ZipInv, Deliver \/ HandlerTakes \/ HandlerUnlinks \/ HandlerEnds \/ Killed \/ Ended
  PROVE  ZipInv'
<1> USE ZipFacts DEF ZipInv, Deliver, HandlerTakes, HandlerUnlinks, HandlerEnds, Killed, Ended,
        Take, Release, slot, files, zipVars
<1>1. ZipTypes'
  BY DEF ZipTypes, ArmedInv
<1> USE DEF ZipTypes
<1>2. OthersInv' /\ HandInv'
  BY DEF OthersInv, HandInv, ArmedInv, ArmedPlaces, HeldPlaces, Untouched, Replaced, Old
<1>3. ArmedInv'
  BY DEF ArmedInv, ArmedPlaces, Waiting, HeldPlaces
<1>4. AnsweredInv'
  BY DEF AnsweredInv, HandInv, ArmedInv, ArmedPlaces, OthersInv, Untouched, Replaced, HeldPlaces, Waiting, Places
<1> QED
  BY <1>1, <1>2, <1>3, <1>4

LEMMA ZipStep == ZipInv /\ [Next]_zipVars => ZipInv'
<1> SUFFICES ASSUME ZipInv, [Next]_zipVars PROVE ZipInv'
  OBVIOUS
<1>1. CASE UNCHANGED zipVars
  BY <1>1 DEF zipVars, slot, files, ZipInv, ZipTypes, OthersInv, HandInv, ArmedInv, AnsweredInv,
     Untouched, Replaced, Old
<1> QED
  BY <1>1, WritingKeeps, ReplacingKeeps, EndingKeeps, DroppingKeeps, SignalKeeps DEF Next, Zip, Handler

LEMMA ZipInvAlways == ToolsSpec => []ZipInv
<1>1. ToolsInit => ZipInv
  BY ZipInit DEF ToolsInit
<1>2. ZipInv /\ [ToolsNext]_toolVars => ZipInv'
  BY ZipStep DEF ToolsNext, toolVars
<1> QED
  BY <1>1, <1>2, PTL DEF ToolsSpec

(* At every step, and so however the run ends, an archive that was there is *)
(* whole under its own name or its temporary's.                             *)
THEOREM ArchiveAlwaysKept == ToolsSpec => []ArchiveKept
<1>1. ZipInv => ArchiveKept
  <2> SUFFICES ASSUME ZipInv, NEW a \in Archives,
                      d[a] \notin {"old", "new"}, was[a] # "absent" \/ d[a] = "cut"
               PROVE  s[a] = "new" \/ Destroyed(a)
    BY DEF ArchiveKept
  <2>1. a = at /\ pc # "next"
    BY DEF ZipInv, OthersInv, Untouched, Replaced, Old
  <2> QED
    BY <2>1 DEF ZipInv, ZipTypes, Places, HandInv, Replaced, Old, Destroyed
<1> QED
  BY <1>1, ZipInvAlways, PTL

(* A run ended by its handler leaves no archive cut and no temporary, but   *)
(* of a replace that failed or while it is giving an archive up.            *)
THEOREM AnsweredAlwaysWhole == ToolsSpec => []AnsweredWhole
<1>1. ZipInv => AnsweredWhole
  <2> SUFFICES ASSUME ZipInv, life = "signalled", pc \notin {"quitting", "destroy"},
                      NEW a \in Archives, a \notin failed
               PROVE  d[a] # "cut" /\ s[a] = "none"
    BY DEF AnsweredWhole
  <2> QED
    BY DEF ZipInv, ZipTypes, Places, OthersInv, HandInv, ArmedInv, AnsweredInv, HeldPlaces, Untouched, Replaced, Old
<1> QED
  BY <1>1, ZipInvAlways, PTL

(* A failed replace leaves the new archive under the temporary's name, but  *)
(* for the parts SplitW destroys.                                           *)
THEOREM FailureAlwaysKeepsNew == ToolsSpec => []LastFailureKeepsNew
<1>1. ZipInv => LastFailureKeepsNew
  <2> SUFFICES ASSUME ZipInv, NEW a \in failed
               PROVE  s[a] = "new" \/ Destroyed(a)
    BY DEF LastFailureKeepsNew
  <2> QED
    BY DEF ZipInv, ZipTypes, Places, OthersInv, HandInv, Untouched, Replaced, Destroyed
<1> QED
  BY <1>1, ZipInvAlways, PTL

-------------------------------------------------------------------------------
(* zipsplit.  Name n is counted by m.                                       *)
Counted(n, m) == IF n = 0 THEN m.index = TRUE ELSE n <= m.parts

SplitPlaces ==
  {"begin", "count", "tell parts", "tell index", "create", "look", "write", "error",
   "retell parts", "retell index", "destroy", "failed", "done", "finished", "gave up"}

SplitTypes ==
  /\ out \in [SplitNames -> {"none", "theirs", "locked", "link", "part", "whole"}]
  /\ found \in [SplitNames -> {"none", "theirs", "locked", "link"}]
  /\ options \in [index : BOOLEAN, pause : BOOLEAN]
  /\ made \in [parts : SplitNames, index : BOOLEAN]
  /\ shown \in [parts : SplitNames, index : BOOLEAN]
  /\ cur \in SplitNames /\ sweep \subseteq SplitNames
  /\ place \in SplitPlaces
  /\ ending \in {"running", "interrupted", "finished", "gave up", "signalled", "killed"}
  /\ names \in BOOLEAN

(* The names are armed until the guard is dropped.                          *)
NamesInv == names = TRUE <=> place \notin {"finished", "gave up"}

(* How many there are: the name at hand is the last that may be counted.    *)
NumberInv ==
  /\ place \in {"begin", "done", "finished"} => cur # 0
  /\ place \in {"done", "finished"} => cur = MaxParts
  /\ made.index = TRUE \/ cur = 0 => options.index = TRUE
  /\ cur = 0 => made.parts \in {0, 1}
  /\ cur # 0 => made.parts = cur - 1 \/ made.parts = cur
  /\ place \in {"tell parts", "tell index", "create", "look", "write"} => Counted(cur, made)
  /\ place \in {"retell parts", "retell index"} => found[cur] = "link" /\ ~ Counted(cur, made)

(* What the handler has been told of it.                                    *)
ToldInv ==
  /\ place \notin {"tell parts", "tell index", "retell parts", "retell index"} =>
       shown.parts = made.parts /\ shown.index = made.index
  /\ place \in {"tell index", "retell index"} => shown.parts = made.parts
  /\ place \in {"tell parts", "tell index"} =>
       \A n \in SplitNames : n # cur => (Counted(n, shown) <=> Counted(n, made))
  /\ place \in {"tell parts", "tell index"} =>
       \A n \in SplitNames : Counted(n, shown) => Counted(n, made)
  /\ place \in {"retell parts", "retell index"} =>
       \A n \in SplitNames : n # cur => (Counted(n, shown) <=> Counted(n, made))

(* Links are counted only before they are looked at.                        *)
LinkInv ==
  /\ \A n \in SplitNames : out[n] = "link" => found[n] = "link"
  /\ \A n \in SplitNames : Counted(n, made) /\ found[n] = "link" =>
       n = cur /\ place \in {"tell parts", "tell index", "create", "look"}
  /\ \A n \in SplitNames : Counted(n, shown) /\ found[n] = "link" =>
       n = cur /\ place \in {"tell index", "create", "look", "retell parts", "retell index"}

(* What the run has made is counted and told of, and the rest is as it was. *)
MadeInv ==
  ending = "running" =>
    /\ \A n \in SplitNames : out[n] \in {"part", "whole"} =>
         Counted(n, made) /\ Counted(n, shown)
    /\ \A n \in SplitNames : found[n] = "link" \/ ~ Counted(n, made) => out[n] = found[n]

(* The removal at hand is of what was made, and leaves nothing of it.       *)
DestroyInv ==
  ending = "running" =>
    /\ place = "destroy" => \A n \in sweep : Counted(n, made)
    /\ place = "destroy" => \A n \in SplitNames : out[n] \in {"part", "whole"} => n \in sweep
    /\ place \in {"failed", "gave up"} => \A n \in SplitNames : out[n] \notin {"part", "whole"}

(* The names before the one at hand are whole, until all are given up.      *)
WholeInv ==
  ending = "running" /\ place \notin {"destroy", "failed", "gave up"} =>
    /\ \A n \in SplitNames : n # 0 /\ n < cur => out[n] = "whole"
    /\ place \in {"done", "finished"} => out[cur] = "whole"
    /\ options.index = TRUE /\ cur # 0 /\ ~ (cur = 1 /\ place = "begin") => out[0] = "whole"

(* The handler removes what it was told of, and so all there is.            *)
SweepInv ==
  ending = "interrupted" =>
    /\ \A n \in sweep : Counted(n, shown)
    /\ place # "finished" => \A n \in SplitNames : out[n] \in {"part", "whole"} => n \in sweep

(* What the run was, where it ended.                                        *)
EndedInv ==
  /\ ending = "finished" => place = "finished"
  /\ ending = "gave up" => place = "gave up"

SplitInv ==
  /\ SplitTypes /\ NamesInv /\ NumberInv /\ ToldInv /\ LinkInv /\ MadeInv /\ DestroyInv
  /\ WholeInv /\ SweepInv /\ EndedInv /\ SplitAllOrNothing

LEMMA SplitFacts ==
  /\ MaxParts \in Nat /\ MaxParts >= 1 /\ 0 \in SplitNames /\ 1 \in SplitNames /\ MaxParts \in SplitNames
  /\ \A n \in SplitNames : n \in Nat /\ n <= MaxParts
  /\ \A n \in SplitNames : n # 0 => n - 1 \in SplitNames /\ n >= 1
  /\ \A n \in SplitNames : n # MaxParts => n + 1 \in SplitNames
BY PartsAssumption DEF SplitNames

(* Counting is of the names counted.                                        *)
LEMMA CountingIs ==
  \A m \in [parts : SplitNames, index : BOOLEAN] :
    /\ Counting(m) \subseteq SplitNames
    /\ \A n \in SplitNames : n \in Counting(m) <=> Counted(n, m)
BY PartsAssumption DEF Counting, Counted, SplitNames

(* What is counted is, in a run, all that is not as it was.                 *)
LEMMA RunningIsWhole ==
  ASSUME SplitTypes', NumberInv', MadeInv', ending' = "running"
  PROVE  SplitAllOrNothing'
<1>1. ASSUME NEW n \in SplitNames, n > made'.parts \/ (n = 0 /\ ~ options'.index)
      PROVE  out'[n] = found'[n]
  <2>1. CASE n = 0
    <3>0. made'.parts \in Nat
      BY SplitFacts DEF SplitTypes
    <3>1. ~ (n > made'.parts)
      BY <2>1, <3>0
    <3>2. ~ Counted(n, made')
      BY <1>1, <2>1, <3>1 DEF NumberInv, Counted
    <3> QED
      BY <3>2 DEF MadeInv
  <2>2. CASE n # 0
    <3>1. n \in Nat /\ made'.parts \in Nat
      BY SplitFacts DEF SplitTypes
    <3>2. ~ Counted(n, made')
      BY <1>1, <2>2, <3>1 DEF Counted
    <3> QED
      BY <3>2 DEF MadeInv
  <2> QED
    BY <2>1, <2>2
<1> QED
  BY <1>1 DEF SplitAllOrNothing, MadeInv

(* A name counted is the one at hand, and the last.                         *)
LEMMA CountIs ==
  ASSUME SplitTypes, NumberInv, Count
  PROVE  /\ made' \in [parts : SplitNames, index : BOOLEAN]
         /\ cur = 0 => made'.parts = made.parts /\ made'.index = TRUE
         /\ cur # 0 => made'.parts = cur /\ made'.index = made.index
         /\ Counted(cur, made')
         /\ \A n \in SplitNames : n # cur => (Counted(n, made') <=> Counted(n, made))
         /\ place = "count" /\ place' = "tell parts" /\ ending = "running"
         /\ UNCHANGED <<out, found, options, shown, names, cur, sweep, ending>>
<1>1. CASE cur = 0
  <2>1. made' = [made EXCEPT !.index = TRUE]
    BY <1>1 DEF Count, Steps
  <2>2. made'.parts = made.parts /\ made'.index = TRUE /\ made' \in [parts : SplitNames, index : BOOLEAN]
    BY <2>1 DEF SplitTypes
  <2> QED
    BY <1>1, <2>2 DEF Counted, Count, Steps
<1>2. CASE cur # 0
  <2>1. made' = [made EXCEPT !.parts = cur]
    BY <1>2 DEF Count, Steps
  <2>2. made'.parts = cur /\ made'.index = made.index /\ made' \in [parts : SplitNames, index : BOOLEAN]
    BY <2>1 DEF SplitTypes
  <2>3. cur \in Nat /\ (made.parts = cur - 1 \/ made.parts = cur)
    BY <1>2, SplitFacts DEF SplitTypes, NumberInv
  <2>4. Counted(cur, made')
    BY <1>2, <2>2, <2>3 DEF Counted
  <2>5. ASSUME NEW n \in SplitNames, n # cur
        PROVE  Counted(n, made') <=> Counted(n, made)
    <3>1. n \in Nat
      BY SplitFacts
    <3> QED
      BY <3>1, <2>2, <2>3, <2>5 DEF Counted
  <2> QED
    BY <1>2, <2>2, <2>4, <2>5 DEF Count, Steps
<1> QED
  BY <1>1, <1>2

LEMMA CountKeeps ==
  ASSUME SplitInv, Count
  PROVE  SplitInv'
<1>0. SplitTypes /\ NamesInv /\ NumberInv /\ ToldInv /\ LinkInv /\ MadeInv /\ DestroyInv /\ WholeInv
      /\ EndedInv
  BY DEF SplitInv
<1>c. /\ made' \in [parts : SplitNames, index : BOOLEAN]
      /\ cur = 0 => made'.parts = made.parts /\ made'.index = TRUE
      /\ cur # 0 => made'.parts = cur /\ made'.index = made.index
      /\ Counted(cur, made')
      /\ \A n \in SplitNames : n # cur => (Counted(n, made') <=> Counted(n, made))
      /\ place = "count" /\ place' = "tell parts" /\ ending = "running"
      /\ UNCHANGED <<out, found, options, shown, names, cur, sweep, ending>>
  BY <1>0, CountIs
<1>1. SplitTypes'
  BY <1>0, <1>c DEF SplitTypes, SplitPlaces
<1>2. NamesInv' /\ EndedInv' /\ SweepInv'
  BY <1>0, <1>c DEF NamesInv, EndedInv, SweepInv
<1>3. NumberInv'
  BY <1>0, <1>c DEF NumberInv
<1>s. \A n \in SplitNames : Counted(n, shown) <=> Counted(n, made)
  BY <1>0, <1>c DEF ToldInv, Counted
<1>4. ToldInv'
  BY <1>c, <1>s DEF ToldInv
<1>5. LinkInv'
  BY <1>0, <1>c, <1>s DEF LinkInv
<1>6. MadeInv'
  BY <1>0, <1>c DEF MadeInv
<1>7. DestroyInv' /\ WholeInv'
  BY <1>0, <1>c DEF DestroyInv, WholeInv
<1>9. SplitAllOrNothing'
  BY <1>1, <1>3, <1>6, <1>c, RunningIsWhole
<1> QED
  BY <1>1, <1>2, <1>3, <1>4, <1>5, <1>6, <1>7, <1>9 DEF SplitInv

LEMMA BeginKeeps ==
  ASSUME SplitInv, Begin
  PROVE  SplitInv'
<1> USE SplitFacts DEF SplitInv, Begin, Steps
<1>1. SplitTypes'
  BY CountingIs DEF SplitTypes, SplitPlaces
<1>2. NamesInv' /\ EndedInv'
  BY DEF NamesInv, EndedInv, SplitTypes, SplitPlaces
<1>3. NumberInv'
  BY <1>1 DEF SplitTypes, NumberInv, LinkInv, Counted
<1>4. ToldInv'
  BY <1>1 DEF SplitTypes, ToldInv, NumberInv, Counted
<1>5. LinkInv'
  BY <1>1 DEF SplitTypes, LinkInv, ToldInv, NumberInv, Counted
<1>6. MadeInv'
  BY <1>1 DEF SplitTypes, LinkInv, MadeInv, NumberInv, ToldInv, Counted
<1>7. DestroyInv' /\ SweepInv'
  BY <1>1, CountingIs DEF SplitTypes, MadeInv, DestroyInv, SweepInv
<1>8. WholeInv'
  BY <1>1 DEF SplitTypes, NumberInv, WholeInv
<1>9. ending' = "running"
  OBVIOUS
<1> HIDE DEF SplitInv, Begin, Steps
<1>10. SplitAllOrNothing'
  BY <1>1, <1>3, <1>6, <1>9, RunningIsWhole
<1> QED
  BY <1>1, <1>2, <1>3, <1>4, <1>5, <1>6, <1>7, <1>8, <1>10 DEF SplitInv

LEMMA TellPartsKeeps ==
  ASSUME SplitInv, TellParts
  PROVE  SplitInv'
<1> USE SplitFacts DEF SplitInv, TellParts, Steps
<1>1. SplitTypes'
  BY CountingIs DEF SplitTypes, SplitPlaces
<1>2. NamesInv' /\ EndedInv'
  BY DEF NamesInv, EndedInv, SplitTypes, SplitPlaces
<1>3. NumberInv'
  BY <1>1 DEF SplitTypes, NumberInv, LinkInv, Counted
<1>4. ToldInv'
  BY <1>1 DEF SplitTypes, ToldInv, NumberInv, Counted
<1>5. LinkInv'
  BY <1>1 DEF SplitTypes, LinkInv, ToldInv, NumberInv, Counted
<1>6. MadeInv'
  BY <1>1 DEF SplitTypes, LinkInv, MadeInv, NumberInv, ToldInv, Counted
<1>7. DestroyInv' /\ SweepInv'
  BY <1>1, CountingIs DEF SplitTypes, MadeInv, DestroyInv, SweepInv
<1>8. WholeInv'
  BY <1>1 DEF SplitTypes, NumberInv, WholeInv
<1>9. ending' = "running"
  OBVIOUS
<1> HIDE DEF SplitInv, TellParts, Steps
<1>10. SplitAllOrNothing'
  BY <1>1, <1>3, <1>6, <1>9, RunningIsWhole
<1> QED
  BY <1>1, <1>2, <1>3, <1>4, <1>5, <1>6, <1>7, <1>8, <1>10 DEF SplitInv

LEMMA TellIndexKeeps ==
  ASSUME SplitInv, TellIndex
  PROVE  SplitInv'
<1> USE SplitFacts DEF SplitInv, TellIndex, Steps
<1>1. SplitTypes'
  BY CountingIs DEF SplitTypes, SplitPlaces
<1>2. NamesInv' /\ EndedInv'
  BY DEF NamesInv, EndedInv, SplitTypes, SplitPlaces
<1>3. NumberInv'
  BY <1>1 DEF SplitTypes, NumberInv, LinkInv, Counted
<1>4. ToldInv'
  BY <1>1 DEF SplitTypes, ToldInv, NumberInv, Counted
<1>5. LinkInv'
  BY <1>1 DEF SplitTypes, LinkInv, ToldInv, NumberInv, Counted
<1>6. MadeInv'
  BY <1>1 DEF SplitTypes, LinkInv, MadeInv, NumberInv, ToldInv, Counted
<1>7. DestroyInv' /\ SweepInv'
  BY <1>1, CountingIs DEF SplitTypes, MadeInv, DestroyInv, SweepInv
<1>8. WholeInv'
  BY <1>1 DEF SplitTypes, NumberInv, WholeInv
<1>9. ending' = "running"
  OBVIOUS
<1> HIDE DEF SplitInv, TellIndex, Steps
<1>10. SplitAllOrNothing'
  BY <1>1, <1>3, <1>6, <1>9, RunningIsWhole
<1> QED
  BY <1>1, <1>2, <1>3, <1>4, <1>5, <1>6, <1>7, <1>8, <1>10 DEF SplitInv

LEMMA RedoKeeps ==
  ASSUME SplitInv, Redo
  PROVE  SplitInv'
<1> USE SplitFacts DEF SplitInv, Redo, Steps
<1>1. SplitTypes'
  BY CountingIs DEF SplitTypes, SplitPlaces
<1>2. NamesInv' /\ EndedInv'
  BY DEF NamesInv, EndedInv, SplitTypes, SplitPlaces
<1>3. NumberInv'
  BY <1>1 DEF SplitTypes, NumberInv, LinkInv, Counted
<1>4. ToldInv'
  BY <1>1 DEF SplitTypes, ToldInv, NumberInv, Counted
<1>5. LinkInv'
  BY <1>1 DEF SplitTypes, LinkInv, ToldInv, NumberInv, Counted
<1>6. MadeInv'
  BY <1>1 DEF SplitTypes, LinkInv, MadeInv, NumberInv, ToldInv, Counted
<1>7. DestroyInv' /\ SweepInv'
  BY <1>1, CountingIs DEF SplitTypes, MadeInv, DestroyInv, SweepInv
<1>8. WholeInv'
  BY <1>1 DEF SplitTypes, NumberInv, WholeInv
<1>9. ending' = "running"
  OBVIOUS
<1> HIDE DEF SplitInv, Redo, Steps
<1>10. SplitAllOrNothing'
  BY <1>1, <1>3, <1>6, <1>9, RunningIsWhole
<1> QED
  BY <1>1, <1>2, <1>3, <1>4, <1>5, <1>6, <1>7, <1>8, <1>10 DEF SplitInv

LEMMA GiveUpKeeps ==
  ASSUME SplitInv, GiveUp
  PROVE  SplitInv'
<1> USE SplitFacts DEF SplitInv, GiveUp, Steps
<1>1. SplitTypes'
  BY CountingIs DEF SplitTypes, SplitPlaces
<1>2. NamesInv' /\ EndedInv'
  BY DEF NamesInv, EndedInv, SplitTypes, SplitPlaces
<1>3. NumberInv'
  BY <1>1 DEF SplitTypes, NumberInv, LinkInv, Counted
<1>4. ToldInv'
  BY <1>1 DEF SplitTypes, ToldInv, NumberInv, Counted
<1>5. LinkInv'
  BY <1>1 DEF SplitTypes, LinkInv, ToldInv, NumberInv, Counted
<1>6. MadeInv'
  BY <1>1 DEF SplitTypes, LinkInv, MadeInv, NumberInv, ToldInv, Counted
<1>7. DestroyInv' /\ SweepInv'
  BY <1>1, CountingIs DEF SplitTypes, MadeInv, DestroyInv, SweepInv
<1>8. WholeInv'
  BY <1>1 DEF SplitTypes, NumberInv, WholeInv
<1>9. ending' = "running"
  OBVIOUS
<1> HIDE DEF SplitInv, GiveUp, Steps
<1>10. SplitAllOrNothing'
  BY <1>1, <1>3, <1>6, <1>9, RunningIsWhole
<1> QED
  BY <1>1, <1>2, <1>3, <1>4, <1>5, <1>6, <1>7, <1>8, <1>10 DEF SplitInv

LEMMA SweptKeeps ==
  ASSUME SplitInv, Swept
  PROVE  SplitInv'
<1> USE SplitFacts DEF SplitInv, Swept, Steps
<1>1. SplitTypes'
  BY CountingIs DEF SplitTypes, SplitPlaces
<1>2. NamesInv' /\ EndedInv'
  BY DEF NamesInv, EndedInv, SplitTypes, SplitPlaces
<1>3. NumberInv'
  BY <1>1 DEF SplitTypes, NumberInv, LinkInv, Counted
<1>4. ToldInv'
  BY <1>1 DEF SplitTypes, ToldInv, NumberInv, Counted
<1>5. LinkInv'
  BY <1>1 DEF SplitTypes, LinkInv, ToldInv, NumberInv, Counted
<1>6. MadeInv'
  BY <1>1 DEF SplitTypes, LinkInv, MadeInv, NumberInv, ToldInv, Counted
<1>7. DestroyInv' /\ SweepInv'
  BY <1>1, CountingIs DEF SplitTypes, MadeInv, DestroyInv, SweepInv
<1>8. WholeInv'
  BY <1>1 DEF SplitTypes, NumberInv, WholeInv
<1>9. ending' = "running"
  OBVIOUS
<1> HIDE DEF SplitInv, Swept, Steps
<1>10. SplitAllOrNothing'
  BY <1>1, <1>3, <1>6, <1>9, RunningIsWhole
<1> QED
  BY <1>1, <1>2, <1>3, <1>4, <1>5, <1>6, <1>7, <1>8, <1>10 DEF SplitInv

LEMMA DropKeeps ==
  ASSUME SplitInv, DropGuard
  PROVE  SplitInv'
<1> USE SplitFacts DEF SplitInv, DropGuard, Steps
<1>1. SplitTypes'
  BY CountingIs DEF SplitTypes, SplitPlaces
<1>2. NamesInv' /\ EndedInv'
  BY DEF NamesInv, EndedInv, SplitTypes, SplitPlaces
<1>3. NumberInv'
  BY <1>1 DEF SplitTypes, NumberInv, LinkInv, Counted
<1>4. ToldInv'
  BY <1>1 DEF SplitTypes, ToldInv, NumberInv, Counted
<1>5. LinkInv'
  BY <1>1 DEF SplitTypes, LinkInv, ToldInv, NumberInv, Counted
<1>6. MadeInv'
  BY <1>1 DEF SplitTypes, LinkInv, MadeInv, NumberInv, ToldInv, Counted
<1>7. DestroyInv' /\ SweepInv'
  BY <1>1, CountingIs DEF SplitTypes, MadeInv, DestroyInv, SweepInv
<1>8. WholeInv'
  BY <1>1 DEF SplitTypes, NumberInv, WholeInv
<1>9. ending' = "running"
  OBVIOUS
<1> HIDE DEF SplitInv, DropGuard, Steps
<1>10. SplitAllOrNothing'
  BY <1>1, <1>3, <1>6, <1>9, RunningIsWhole
<1> QED
  BY <1>1, <1>2, <1>3, <1>4, <1>5, <1>6, <1>7, <1>8, <1>10 DEF SplitInv

LEMMA CreateKeeps ==
  ASSUME SplitInv, Create
  PROVE  SplitInv'
<1>0. SplitTypes /\ NamesInv /\ NumberInv /\ ToldInv /\ LinkInv /\ MadeInv /\ DestroyInv /\ WholeInv
      /\ EndedInv
  BY DEF SplitInv
<1>c. /\ place = "create" /\ place' \in {"write", "look"} /\ ending = "running"
      /\ UNCHANGED <<found, options, made, shown, names, cur, sweep, ending>>
  BY DEF Create, Steps
<1>p. /\ place' = "write" => out[cur] # "link" /\ out' = [out EXCEPT ![cur] = "part"]
      /\ place' = "look" => out' = out
  BY DEF Create, Steps
<1>o. /\ out' \in [SplitNames -> {"none", "theirs", "locked", "link", "part", "whole"}]
      /\ \A n \in SplitNames : n # cur => out'[n] = out[n]
      /\ place' = "write" => out'[cur] = "part"
  BY <1>0, <1>c, <1>p DEF SplitTypes
<1>k. Counted(cur, made) /\ Counted(cur, shown)
  BY <1>0, <1>c DEF NumberInv, ToldInv, Counted
<1>l. place' = "write" => found[cur] # "link"
  BY <1>0, <1>c, <1>p DEF MadeInv, SplitTypes
<1>1. SplitTypes'
  BY <1>0, <1>c, <1>o DEF SplitTypes, SplitPlaces
<1>2. NamesInv' /\ EndedInv' /\ SweepInv' /\ DestroyInv'
  BY <1>0, <1>c DEF NamesInv, EndedInv, SweepInv, DestroyInv
<1>3. NumberInv' /\ ToldInv'
  BY <1>0, <1>c DEF NumberInv, ToldInv
<1>5. LinkInv'
  <2>1. \A n \in SplitNames : out'[n] = "link" => found'[n] = "link"
    BY <1>0, <1>c, <1>p, <1>o DEF LinkInv
  <2>2. \A n \in SplitNames : n = cur \/ ~ Counted(n, made) \/ found[n] # "link"
    BY <1>0, <1>c DEF LinkInv
  <2>3. \A n \in SplitNames : n = cur \/ ~ Counted(n, shown) \/ found[n] # "link"
    BY <1>0, <1>c DEF LinkInv
  <2> QED
    BY <1>c, <1>l, <2>1, <2>2, <2>3 DEF LinkInv
<1>6. MadeInv'
  <2>1. ASSUME NEW n \in SplitNames, out'[n] \in {"part", "whole"}
        PROVE  Counted(n, made) /\ Counted(n, shown)
    BY <2>1, <1>0, <1>c, <1>o, <1>k DEF MadeInv
  <2>2. ASSUME NEW n \in SplitNames, found[n] = "link" \/ ~ Counted(n, made)
        PROVE  out'[n] = found[n]
    BY <2>2, <1>0, <1>c, <1>o, <1>k, <1>l, <1>p DEF MadeInv
  <2> QED
    BY <2>1, <2>2, <1>c DEF MadeInv
<1>8. WholeInv'
  <2>0. cur \in Nat /\ SplitNames \subseteq Nat
    BY <1>0, SplitFacts DEF SplitTypes
  <2>1. \A n \in SplitNames : n # 0 /\ n < cur => n # cur
    BY <2>0
  <2>2. cur # 0 => out'[0] = out[0]
    BY <1>o, SplitFacts
  <2> QED
    BY <1>0, <1>c, <1>o, <2>1, <2>2 DEF WholeInv
<1>9. SplitAllOrNothing'
  BY <1>1, <1>3, <1>6, <1>c, RunningIsWhole
<1> QED
  BY <1>1, <1>2, <1>3, <1>5, <1>6, <1>8, <1>9 DEF SplitInv

(* A link that is taken back was the last counted.                          *)
LEMMA TakenBack ==
  ASSUME SplitTypes, NumberInv, LookAtLink
  PROVE  /\ place = "look" /\ place' \in {"retell parts", "error"} /\ ending = "running"
         /\ UNCHANGED <<out, found, options, shown, names, cur, sweep, ending>>
         /\ place' = "error" => made' = made /\ out[cur] # "link"
         /\ place' = "retell parts" => out[cur] = "link" /\ ~ Counted(cur, made')
         /\ made' \in [parts : SplitNames, index : BOOLEAN]
         /\ cur = 0 => made'.parts = made.parts
         /\ cur # 0 => (made'.parts = cur - 1 \/ made'.parts = cur) /\ made'.index = made.index
         /\ made'.index = TRUE => made.index = TRUE
         /\ \A n \in SplitNames : n # cur => (Counted(n, made') <=> Counted(n, made))
<1>0. /\ place = "look" /\ place' \in {"retell parts", "error"} /\ ending = "running"
      /\ UNCHANGED <<out, found, options, shown, names, cur, sweep, ending>>
      /\ place' = "error" => made' = made /\ out[cur] # "link"
      /\ place' = "retell parts" =>
           out[cur] = "link" /\ made' = IF cur = 0 THEN [made EXCEPT !.index = FALSE]
                                        ELSE [made EXCEPT !.parts = cur - 1]
  BY DEF LookAtLink, Steps
<1>1. CASE place' = "error"
  BY <1>0, <1>1 DEF SplitTypes, NumberInv
<1>2. CASE place' = "retell parts" /\ cur = 0
  <2>1. made' = [made EXCEPT !.index = FALSE]
    BY <1>0, <1>2
  <2>2. made'.parts = made.parts /\ made'.index = FALSE /\ made' \in [parts : SplitNames, index : BOOLEAN]
    BY <2>1 DEF SplitTypes
  <2> QED
    BY <1>0, <1>2, <2>2 DEF Counted
<1>3. CASE place' = "retell parts" /\ cur # 0
  <2>1. made' = [made EXCEPT !.parts = cur - 1] /\ cur - 1 \in SplitNames
    BY <1>0, <1>3, SplitFacts DEF SplitTypes
  <2>2. made'.parts = cur - 1 /\ made'.index = made.index /\ made' \in [parts : SplitNames, index : BOOLEAN]
    BY <2>1 DEF SplitTypes
  <2>3. cur \in Nat /\ (made.parts = cur - 1 \/ made.parts = cur)
    BY <1>3, SplitFacts DEF SplitTypes, NumberInv
  <2>r. made'.parts = cur - 1 /\ cur \in Nat
    BY <2>2, <2>3
  <2>n. ~ (cur <= made'.parts)
    BY <2>r
  <2>4. ~ Counted(cur, made')
    BY <1>3, <2>n DEF Counted
  <2>5. ASSUME NEW n \in SplitNames, n # cur
        PROVE  Counted(n, made') <=> Counted(n, made)
    <3>1. n \in Nat
      BY SplitFacts
    <3> QED
      BY <3>1, <2>2, <2>3, <2>5 DEF Counted
  <2> QED
    BY <1>0, <1>3, <2>2, <2>4, <2>5
<1> QED
  BY <1>0, <1>1, <1>2, <1>3

LEMMA LookKeeps ==
  ASSUME SplitInv, LookAtLink
  PROVE  SplitInv'
<1>0. SplitTypes /\ NamesInv /\ NumberInv /\ ToldInv /\ LinkInv /\ MadeInv /\ DestroyInv /\ WholeInv
      /\ EndedInv
  BY DEF SplitInv
<1>c. /\ place = "look" /\ place' \in {"retell parts", "error"} /\ ending = "running"
      /\ UNCHANGED <<out, found, options, shown, names, cur, sweep, ending>>
      /\ place' = "error" => made' = made /\ out[cur] # "link"
      /\ place' = "retell parts" => out[cur] = "link" /\ ~ Counted(cur, made')
      /\ made' \in [parts : SplitNames, index : BOOLEAN]
      /\ cur = 0 => made'.parts = made.parts
      /\ cur # 0 => (made'.parts = cur - 1 \/ made'.parts = cur) /\ made'.index = made.index
      /\ made'.index = TRUE => made.index = TRUE
      /\ \A n \in SplitNames : n # cur => (Counted(n, made') <=> Counted(n, made))
  BY <1>0, TakenBack
<1>k. cur \in SplitNames /\ (\A n \in SplitNames : Counted(n, shown) <=> Counted(n, made))
  BY <1>0, <1>c DEF SplitTypes, ToldInv, Counted
<1>l. \A n \in SplitNames : Counted(n, made) /\ found[n] = "link" => n = cur
  BY <1>0, <1>c DEF LinkInv
<1>1. SplitTypes'
  BY <1>0, <1>c DEF SplitTypes, SplitPlaces
<1>2. NamesInv' /\ EndedInv' /\ SweepInv' /\ DestroyInv'
  BY <1>0, <1>c DEF NamesInv, EndedInv, SweepInv, DestroyInv
<1>3. NumberInv'
  BY <1>0, <1>c, <1>k DEF NumberInv, LinkInv
<1>4. ToldInv'
  <2>1. CASE place' = "error"
    BY <2>1, <1>0, <1>c DEF ToldInv
  <2>2. CASE place' = "retell parts"
    BY <2>2, <1>c, <1>k DEF ToldInv
  <2> QED
    BY <1>c, <2>1, <2>2
<1>5. LinkInv'
  <2>1. CASE place' = "error"
    <3>1. \A n \in SplitNames : ~ (Counted(n, made) /\ found[n] = "link")
      <4>1. found[cur] = "link" => out[cur] = "link"
        BY <1>0, <1>c, <1>k DEF MadeInv
      <4> QED
        BY <4>1, <1>c, <1>l, <2>1
    <3> QED
      BY <2>1, <3>1, <1>0, <1>c, <1>k DEF LinkInv
  <2>2. CASE place' = "retell parts"
    BY <2>2, <1>0, <1>c, <1>k, <1>l DEF LinkInv
  <2> QED
    BY <1>c, <2>1, <2>2
<1>6. MadeInv'
  <2>1. CASE place' = "error"
    BY <2>1, <1>0, <1>c DEF MadeInv
  <2>2. CASE place' = "retell parts"
    <3>1. found[cur] = "link"
      BY <2>2, <1>0, <1>c, <1>k DEF LinkInv
    <3> QED
      BY <2>2, <3>1, <1>0, <1>c, <1>k DEF MadeInv
  <2> QED
    BY <1>c, <2>1, <2>2
<1>8. WholeInv'
  BY <1>0, <1>c DEF WholeInv
<1>9. SplitAllOrNothing'
  BY <1>1, <1>3, <1>6, <1>c, RunningIsWhole
<1> QED
  BY <1>1, <1>2, <1>3, <1>4, <1>5, <1>6, <1>8, <1>9 DEF SplitInv

(* A name is written, or it is not and is made again, or all are given up.  *)
LEMMA WriteKeeps ==
  ASSUME SplitInv, WriteOut
  PROVE  SplitInv'
<1>0. SplitTypes /\ NamesInv /\ NumberInv /\ ToldInv /\ LinkInv /\ MadeInv /\ DestroyInv /\ WholeInv
      /\ EndedInv
  BY DEF SplitInv
<1>c. /\ place = "write" /\ ending = "running"
      /\ UNCHANGED <<found, options, made, shown, names, ending>>
  BY DEF WriteOut, Steps
<1>k. /\ cur \in SplitNames /\ Counted(cur, made)
      /\ \A n \in SplitNames : Counted(n, shown) <=> Counted(n, made)
      /\ \A n \in SplitNames : Counted(n, made) => found[n] # "link"
  BY <1>0, <1>c DEF SplitTypes, NumberInv, ToldInv, LinkInv, Counted
<1>s. SweepInv' /\ EndedInv'
  BY <1>0, <1>c DEF SweepInv, EndedInv
<1>1. CASE /\ place' = IF cur = MaxParts THEN "done" ELSE IF cur = 0 THEN "count" ELSE "begin"
           /\ out' = [out EXCEPT ![cur] = "whole"]
           /\ cur' = IF cur = MaxParts THEN cur ELSE cur + 1
           /\ sweep' = sweep
  <2>1. /\ out' \in [SplitNames -> {"none", "theirs", "locked", "link", "part", "whole"}]
        /\ \A n \in SplitNames : n # cur => out'[n] = out[n]
        /\ out'[cur] = "whole"
    BY <1>0, <1>1, <1>k DEF SplitTypes
  <2>2. cur \in Nat /\ MaxParts \in Nat /\ MaxParts # 0 /\ cur' \in SplitNames /\ cur' # 0
    BY <1>0, <1>1, <1>k, SplitFacts
  <2>3. place' \in {"done", "count", "begin"}
    BY <1>1
  <2>4. SplitTypes'
    BY <1>0, <1>c, <1>1, <2>1, <2>2, <2>3 DEF SplitTypes, SplitPlaces
  <2>5. NamesInv' /\ DestroyInv'
    BY <1>0, <1>c, <2>3 DEF NamesInv, DestroyInv
  <2>6. NumberInv'
    <3>1. place' = "done" => cur' = MaxParts
      BY <1>1
    <3>2. made.parts = cur' - 1 \/ made.parts = cur'
      <4>1. CASE cur = MaxParts
        BY <4>1, <1>0, <1>1, <2>2 DEF NumberInv
      <4>2. CASE cur # MaxParts /\ cur = 0
        <5>1. cur' = 1
          BY <4>2, <1>1
        <5>2. made.parts = 0 \/ made.parts = 1
          BY <4>2, <1>0 DEF NumberInv
        <5> QED
          BY <5>1, <5>2
      <4>3. CASE cur # MaxParts /\ cur # 0
        <5>1. made.parts = cur
          <6>1. made.parts = cur - 1 \/ made.parts = cur
            BY <4>3, <1>0 DEF NumberInv
          <6>2. cur <= made.parts
            BY <4>3, <1>k DEF Counted
          <6> QED
            BY <6>1, <6>2, <2>2
        <5> QED
          BY <4>3, <5>1, <1>1, <2>2
      <4> QED
        BY <4>1, <4>2, <4>3
    <3>3. made.index = TRUE => options.index = TRUE
      BY <1>0 DEF NumberInv
    <3> QED
      BY <1>c, <2>2, <2>3, <3>1, <3>2, <3>3 DEF NumberInv
  <2>7. ToldInv'
    BY <1>0, <1>c, <2>3 DEF ToldInv
  <2>8. LinkInv'
    BY <1>0, <1>c, <1>k, <2>1 DEF LinkInv
  <2>9. MadeInv'
    <3>1. ASSUME NEW n \in SplitNames, out'[n] \in {"part", "whole"}
          PROVE  Counted(n, made) /\ Counted(n, shown)
      BY <3>1, <1>0, <1>c, <1>k, <2>1 DEF MadeInv
    <3>2. ASSUME NEW n \in SplitNames, found[n] = "link" \/ ~ Counted(n, made)
          PROVE  out'[n] = found[n]
      BY <3>2, <1>0, <1>c, <1>k, <2>1 DEF MadeInv
    <3> QED
      BY <3>1, <3>2, <1>c DEF MadeInv
  <2>10. WholeInv'
    <3>1. \A n \in SplitNames : n # 0 /\ n < cur' => n < cur \/ n = cur
      <4>1. \A n \in SplitNames : n \in Nat
        BY SplitFacts
      <4> QED
        BY <4>1, <1>1, <2>2
    <3>2. \A n \in SplitNames : n # 0 /\ n < cur' => out'[n] = "whole"
      BY <3>1, <1>0, <1>c, <2>1 DEF WholeInv
    <3>3. place' = "done" => out'[cur'] = "whole"
      BY <1>1, <2>1
    <3>4. options.index = TRUE /\ ~ (cur' = 1 /\ place' = "begin") => out'[0] = "whole"
      <4>1. CASE cur = 0
        BY <4>1, <2>1
      <4>2. CASE cur # 0
        <5>1. options.index = TRUE /\ ~ (cur = 1 /\ place = "begin") => out[0] = "whole"
          BY <4>2, <1>0, <1>c DEF WholeInv
        <5> QED
          BY <4>2, <5>1, <1>c, <2>1, SplitFacts
      <4> QED
        BY <4>1, <4>2
    <3> QED
      BY <1>c, <2>3, <3>2, <3>3, <3>4 DEF WholeInv
  <2>11. SplitAllOrNothing'
    BY <1>c, <2>4, <2>6, <2>9, RunningIsWhole
  <2> QED
    BY <1>s, <2>4, <2>5, <2>6, <2>7, <2>8, <2>9, <2>10, <2>11 DEF SplitInv
<1>2. CASE place' = "error" /\ UNCHANGED <<out, cur, sweep>>
  <2>1. SplitTypes'
    BY <1>0, <1>c, <1>2 DEF SplitTypes, SplitPlaces
  <2>2. NamesInv' /\ DestroyInv' /\ NumberInv' /\ ToldInv' /\ MadeInv'
    BY <1>0, <1>c, <1>2 DEF NamesInv, DestroyInv, NumberInv, ToldInv, MadeInv
  <2>3. LinkInv'
    BY <1>0, <1>c, <1>2, <1>k DEF LinkInv
  <2>4. WholeInv'
    BY <1>0, <1>c, <1>2 DEF WholeInv
  <2>5. SplitAllOrNothing'
    BY <1>c, <2>1, <2>2, RunningIsWhole
  <2> QED
    BY <1>s, <2>1, <2>2, <2>3, <2>4, <2>5 DEF SplitInv
<1>3. CASE place' = "destroy" /\ sweep' = Counting(made) /\ UNCHANGED <<out, cur>>
  <2>0. /\ sweep' \subseteq SplitNames
        /\ \A n \in SplitNames : n \in sweep' <=> Counted(n, made)
    BY <1>0, <1>3, CountingIs DEF SplitTypes
  <2>1. SplitTypes'
    BY <1>0, <1>c, <1>3, <2>0 DEF SplitTypes, SplitPlaces
  <2>2. NamesInv' /\ NumberInv' /\ ToldInv' /\ MadeInv'
    BY <1>0, <1>c, <1>3 DEF NamesInv, NumberInv, ToldInv, MadeInv
  <2>3. LinkInv'
    BY <1>0, <1>c, <1>3, <1>k DEF LinkInv
  <2>4. DestroyInv'
    BY <1>0, <1>c, <1>3, <2>0 DEF DestroyInv, MadeInv
  <2>5. WholeInv'
    BY <1>0, <1>c, <1>3 DEF WholeInv
  <2>6. SplitAllOrNothing'
    BY <1>c, <2>1, <2>2, RunningIsWhole
  <2> QED
    BY <1>s, <2>1, <2>2, <2>3, <2>4, <2>5, <2>6 DEF SplitInv
<1> QED
  BY <1>1, <1>2, <1>3 DEF WriteOut, Steps

(* The name removed next is one there is to remove.                         *)
LEMMA NextSweptIs ==
  ASSUME sweep \subseteq SplitNames, sweep # {}
  PROVE  NextSwept \in sweep
<1>1. CASE 0 \in sweep
  BY <1>1 DEF NextSwept
<1>2. CASE 0 \notin sweep
  <2> DEFINE Left == {MaxParts - n : n \in sweep}
  <2>1. Left \subseteq Nat /\ Left # {}
    BY SplitFacts
  <2>2. PICK l \in Left : \A k \in Left : ~ (<<k, l>> \in OpToRel(<, Nat))
    BY <2>1, NatLessThanWellFounded, WFMin
  <2>3. PICK n \in sweep : l = MaxParts - n
    BY <2>2
  <2>4. ASSUME NEW m \in sweep
        PROVE  m <= n
    <3>1. MaxParts - m \in Left /\ MaxParts - m \in Nat /\ l \in Nat
      BY <2>1
    <3>2. ~ (MaxParts - m < l)
      BY <2>2, <3>1 DEF OpToRel
    <3>3. m \in Nat /\ n \in Nat /\ MaxParts \in Nat
      BY SplitFacts
    <3> QED
      BY <2>3, <3>2, <3>3
  <2>5. NextSwept = CHOOSE k \in sweep : \A m \in sweep : m <= k
    BY <1>2 DEF NextSwept
  <2> QED
    BY <2>4, <2>5
<1> QED
  BY <1>1, <1>2

(* What a removal does, the run's or the handler's.                         *)
LEMMA RemoveIs ==
  ASSUME SplitTypes, sweep # {}, Remove
  PROVE  \E r \in sweep :
           /\ sweep' = sweep \ {r}
           /\ out' \in [SplitNames -> {"none", "theirs", "locked", "link", "part", "whole"}]
           /\ out'[r] = "none"
           /\ \A n \in SplitNames : n # r => out'[n] = out[n]
<1>1. NextSwept \in sweep /\ NextSwept \in SplitNames
  BY NextSweptIs DEF SplitTypes
<1>2. sweep' = sweep \ {NextSwept} /\ out' = [out EXCEPT ![NextSwept] = "none"]
  BY DEF Remove
<1> QED
  BY <1>1, <1>2 DEF SplitTypes

LEMMA DestroyKeeps ==
  ASSUME SplitInv, DestroyMade
  PROVE  SplitInv'
<1>0. SplitTypes /\ NamesInv /\ NumberInv /\ ToldInv /\ LinkInv /\ MadeInv /\ DestroyInv /\ EndedInv
  BY DEF SplitInv
<1>c. /\ place = "destroy" /\ place' = "destroy" /\ ending = "running"
      /\ UNCHANGED <<found, options, made, shown, names, cur, ending>>
  BY DEF DestroyMade, Steps
<1>r. PICK r \in sweep :
        /\ sweep' = sweep \ {r}
        /\ out' \in [SplitNames -> {"none", "theirs", "locked", "link", "part", "whole"}]
        /\ out'[r] = "none"
        /\ \A n \in SplitNames : n # r => out'[n] = out[n]
  BY <1>0, RemoveIs DEF DestroyMade
<1>k. r \in SplitNames /\ Counted(r, made) /\ found[r] # "link"
  BY <1>0, <1>c DEF SplitTypes, DestroyInv, LinkInv
<1>1. SplitTypes'
  BY <1>0, <1>c, <1>r DEF SplitTypes
<1>2. NamesInv' /\ NumberInv' /\ ToldInv' /\ EndedInv'
  BY <1>0, <1>c DEF NamesInv, NumberInv, ToldInv, EndedInv
<1>3. LinkInv'
  BY <1>0, <1>c, <1>r DEF LinkInv
<1>4. MadeInv'
  <2>1. ASSUME NEW n \in SplitNames, out'[n] \in {"part", "whole"}
        PROVE  Counted(n, made) /\ Counted(n, shown)
    BY <2>1, <1>0, <1>c, <1>r DEF MadeInv
  <2>2. ASSUME NEW n \in SplitNames, found[n] = "link" \/ ~ Counted(n, made)
        PROVE  out'[n] = found[n]
    BY <2>2, <1>0, <1>c, <1>k, <1>r DEF MadeInv
  <2> QED
    BY <2>1, <2>2, <1>c DEF MadeInv
<1>5. DestroyInv'
  BY <1>0, <1>c, <1>r DEF DestroyInv
<1>6. WholeInv' /\ SweepInv'
  BY <1>c DEF WholeInv, SweepInv
<1>7. SplitAllOrNothing'
  BY <1>1, <1>2, <1>4, <1>c, RunningIsWhole
<1> QED
  BY <1>1, <1>2, <1>3, <1>4, <1>5, <1>6, <1>7 DEF SplitInv

-------------------------------------------------------------------------------
(* The end of a run, and the handler's.                                     *)
LEMMA ExitKeeps ==
  ASSUME SplitInv, ExitSplit
  PROVE  SplitInv'
<1>0. SplitTypes /\ NamesInv /\ NumberInv /\ ToldInv /\ LinkInv /\ MadeInv /\ DestroyInv /\ WholeInv
      /\ SplitAllOrNothing
  BY DEF SplitInv
<1>c. /\ ending = "running" /\ place \in {"finished", "gave up"} /\ ending' = place
      /\ UNCHANGED <<out, found, options, made, shown, names, cur, place, sweep>>
  BY DEF ExitSplit
<1>1. SplitTypes' /\ NamesInv' /\ NumberInv' /\ ToldInv' /\ LinkInv'
  BY <1>0, <1>c DEF SplitTypes, NamesInv, NumberInv, ToldInv, LinkInv
<1>2. MadeInv' /\ DestroyInv' /\ WholeInv' /\ SweepInv' /\ EndedInv'
  BY <1>c DEF MadeInv, DestroyInv, WholeInv, SweepInv, EndedInv
<1>3. ending' = "finished" => \A n \in SplitNames : n # 0 \/ options.index => out[n] = "whole"
  <2>1. SUFFICES ASSUME place = "finished", NEW n \in SplitNames, n # 0 \/ options.index = TRUE
                 PROVE  out[n] = "whole"
    BY <1>0, <1>c DEF SplitTypes
  <2>2. cur = MaxParts /\ cur # 0
    BY <1>0, <2>1 DEF NumberInv
  <2>3. n = 0 \/ n < cur \/ n = cur
    BY <2>2, SplitFacts
  <2> QED
    BY <1>0, <1>c, <2>1, <2>2, <2>3 DEF WholeInv
<1>4. ending' = "gave up" => \A n \in SplitNames : out[n] \notin {"part", "whole"}
  BY <1>0, <1>c DEF DestroyInv
<1>5. SplitAllOrNothing'
  BY <1>0, <1>c, <1>3, <1>4 DEF SplitAllOrNothing, Mistaken
<1> QED
  BY <1>1, <1>2, <1>5 DEF SplitInv

LEMMA InterruptKeeps ==
  ASSUME SplitInv, Interrupt
  PROVE  SplitInv'
<1>0. SplitTypes /\ NamesInv /\ NumberInv /\ ToldInv /\ LinkInv /\ MadeInv /\ DestroyInv
      /\ SplitAllOrNothing
  BY DEF SplitInv
<1>c. /\ ending = "running" /\ ending' = "interrupted"
      /\ sweep' = IF names THEN Counting(shown) ELSE {}
      /\ UNCHANGED <<out, found, options, made, shown, names, cur, place>>
  BY DEF Interrupt
<1>s. /\ sweep' \subseteq SplitNames
      /\ \A n \in SplitNames : n \in sweep' <=> names = TRUE /\ Counted(n, shown)
  BY <1>0, <1>c, CountingIs DEF SplitTypes
<1>1. SplitTypes' /\ NamesInv' /\ NumberInv' /\ ToldInv' /\ LinkInv'
  BY <1>0, <1>c, <1>s DEF SplitTypes, NamesInv, NumberInv, ToldInv, LinkInv
<1>2. MadeInv' /\ DestroyInv' /\ WholeInv' /\ EndedInv'
  BY <1>c DEF MadeInv, DestroyInv, WholeInv, EndedInv
<1>3. SweepInv'
  <2>1. \A n \in sweep' : Counted(n, shown)
    BY <1>s
  <2>2. ASSUME place # "finished", NEW n \in SplitNames, out[n] \in {"part", "whole"}
        PROVE  n \in sweep'
    <3>1. place # "gave up"
      BY <1>0, <1>c, <2>2 DEF DestroyInv
    <3>2. names = TRUE
      BY <1>0, <2>2, <3>1 DEF NamesInv
    <3>3. Counted(n, shown)
      BY <1>0, <1>c, <2>2 DEF MadeInv
    <3> QED
      BY <1>s, <3>2, <3>3
  <2> QED
    BY <1>c, <2>1, <2>2 DEF SweepInv
<1>4. SplitAllOrNothing'
  BY <1>0, <1>c DEF SplitAllOrNothing, Mistaken
<1> QED
  BY <1>1, <1>2, <1>3, <1>4 DEF SplitInv

(* What the handler removes was made, but for the link taken for a part.    *)
LEMMA HandlerKeeps ==
  ASSUME SplitInv, HandlerRemoves
  PROVE  SplitInv'
<1>0. SplitTypes /\ NamesInv /\ NumberInv /\ ToldInv /\ LinkInv /\ SweepInv /\ SplitAllOrNothing
  BY DEF SplitInv
<1>c. /\ ending = "interrupted"
      /\ UNCHANGED <<found, options, made, shown, names, cur, place, ending>>
  BY DEF HandlerRemoves
<1>r. PICK r \in sweep :
        /\ sweep' = sweep \ {r}
        /\ out' \in [SplitNames -> {"none", "theirs", "locked", "link", "part", "whole"}]
        /\ out'[r] = "none"
        /\ \A n \in SplitNames : n # r => out'[n] = out[n]
  BY <1>0, RemoveIs DEF HandlerRemoves
<1>k. r \in SplitNames /\ Counted(r, shown)
  BY <1>0, <1>c DEF SplitTypes, SweepInv
<1>1. SplitTypes'
  BY <1>0, <1>c, <1>r DEF SplitTypes
<1>2. NamesInv' /\ NumberInv' /\ ToldInv'
  BY <1>0, <1>c DEF NamesInv, NumberInv, ToldInv
<1>3. LinkInv'
  BY <1>0, <1>c, <1>r DEF LinkInv
<1>4. MadeInv' /\ DestroyInv' /\ WholeInv' /\ EndedInv'
  BY <1>c DEF MadeInv, DestroyInv, WholeInv, EndedInv
<1>5. SweepInv'
  BY <1>0, <1>c, <1>r DEF SweepInv
<1>6. found[r] = "link" => Mistaken(r)
  BY <1>0, <1>c, <1>k DEF LinkInv, Mistaken
<1>7. ~ Counted(r, made) => Mistaken(r)
  <2>1. CASE place \in {"retell parts", "retell index"}
    BY <2>1, <1>0, <1>c, <1>k DEF ToldInv, Mistaken
  <2>2. CASE place \in {"tell parts", "tell index"}
    BY <2>2, <1>0, <1>k DEF ToldInv
  <2>3. CASE place \notin {"tell parts", "tell index", "retell parts", "retell index"}
    BY <2>3, <1>0, <1>k DEF ToldInv, Counted
  <2> QED
    BY <2>1, <2>2, <2>3
<1>8. r > made.parts \/ (r = 0 /\ ~ options.index) => Mistaken(r)
  <2>1. made.parts \in Nat /\ r \in Nat
    BY <1>0, <1>k, SplitFacts DEF SplitTypes
  <2>2. made.index = TRUE => options.index = TRUE
    BY <1>0 DEF NumberInv
  <2>3. ~ Counted(r, made) \/ ~ (r > made.parts \/ (r = 0 /\ ~ options.index))
    BY <2>1, <2>2 DEF Counted
  <2> QED
    BY <1>7, <2>3
<1>9. SplitAllOrNothing'
  <2>1. ASSUME NEW n \in SplitNames
        PROVE  /\ found[n] = "link" => out'[n] = "link" \/ Mistaken(n)
               /\ n > made.parts \/ (n = 0 /\ ~ options.index) => out'[n] = found[n] \/ Mistaken(n)
    <3>1. CASE n = r
      BY <3>1, <1>6, <1>8
    <3>2. CASE n # r
      BY <3>2, <1>0, <1>r DEF SplitAllOrNothing
    <3> QED
      BY <3>1, <3>2
  <2>2. \A n \in SplitNames : Mistaken(n) => Mistaken(n)'
    BY <1>c DEF Mistaken
  <2> QED
    BY <1>c, <2>1, <2>2 DEF SplitAllOrNothing
<1> QED
  BY <1>1, <1>2, <1>3, <1>4, <1>5, <1>9 DEF SplitInv

LEMMA EndKeeps ==
  ASSUME SplitInv, HandlerExits \/ KilledSplit \/ UNCHANGED splitVars
  PROVE  SplitInv'
<1>0. SplitTypes /\ NamesInv /\ NumberInv /\ ToldInv /\ LinkInv /\ MadeInv /\ DestroyInv /\ WholeInv
      /\ SweepInv /\ EndedInv /\ SplitAllOrNothing
  BY DEF SplitInv
<1>c. /\ UNCHANGED <<out, found, options, made, shown, names, cur, place, sweep>>
      /\ \/ ending = "interrupted" /\ sweep = {} /\ ending' = "signalled"
         \/ ending \in {"running", "interrupted"} /\ ending' = "killed"
         \/ ending' = ending
  BY DEF HandlerExits, KilledSplit, splitVars
<1>t. SplitTypes'
  <2>1. ending' \in {"running", "interrupted", "finished", "gave up", "signalled", "killed"}
    BY <1>0, <1>c DEF SplitTypes
  <2> QED
    BY <1>0, <1>c, <2>1 DEF SplitTypes
<1>a. NamesInv' /\ NumberInv'
  BY <1>0, <1>c DEF NamesInv, NumberInv
<1>1. ToldInv' /\ LinkInv'
  BY <1>0, <1>c DEF ToldInv, LinkInv
<1>2. MadeInv' /\ DestroyInv' /\ WholeInv' /\ EndedInv' /\ SweepInv'
  BY <1>0, <1>c DEF MadeInv, DestroyInv, WholeInv, EndedInv, SweepInv
<1>3. SplitAllOrNothing'
  BY <1>0, <1>c DEF SplitAllOrNothing, Mistaken, SweepInv
<1> QED
  BY <1>t, <1>a, <1>1, <1>2, <1>3 DEF SplitInv

-------------------------------------------------------------------------------
LEMMA SplitStart == SplitInit => SplitInv
<1> SUFFICES ASSUME SplitInit PROVE SplitInv
  OBVIOUS
<1>c. /\ found \in [SplitNames -> {"none", "theirs", "locked", "link"}] /\ out = found
      /\ made = NothingMade /\ shown = NothingMade /\ cur = 1 /\ place = "begin" /\ sweep = {}
      /\ ending = "running" /\ names = TRUE /\ options \in [index : BOOLEAN, pause : BOOLEAN]
  BY DEF SplitInit
<1>n. \A n \in SplitNames : ~ Counted(n, made) /\ ~ Counted(n, shown)
  BY <1>c, SplitFacts DEF Counted, NothingMade
<1>1. SplitTypes /\ NamesInv
  BY <1>c, SplitFacts DEF SplitTypes, SplitPlaces, NothingMade, NamesInv
<1>2. NumberInv /\ ToldInv /\ LinkInv /\ MadeInv
  BY <1>c, <1>n DEF NumberInv, ToldInv, LinkInv, MadeInv, NothingMade
<1>3. DestroyInv /\ SweepInv /\ EndedInv
  BY <1>c DEF DestroyInv, SweepInv, EndedInv
<1>4. WholeInv
  <2>1. \A n \in SplitNames : ~ (n # 0 /\ n < 1)
    BY SplitFacts
  <2> QED
    BY <1>c, <2>1 DEF WholeInv
<1>5. SplitAllOrNothing
  BY <1>c DEF SplitAllOrNothing
<1> QED
  BY <1>1, <1>2, <1>3, <1>4, <1>5 DEF SplitInv

LEMMA SplitStep ==
  ASSUME SplitInv, SplitNext \/ UNCHANGED splitVars
  PROVE  SplitInv'
BY BeginKeeps, CountKeeps, TellPartsKeeps, TellIndexKeeps, CreateKeeps, LookKeeps, WriteKeeps, RedoKeeps,
   GiveUpKeeps, DestroyKeeps, SweptKeeps, DropKeeps, ExitKeeps, InterruptKeeps, HandlerKeeps, EndKeeps
   DEF SplitNext

(* Wherever a run of zipsplit ends, by itself or by a signal, it leaves all *)
(* its names or none, and no link but in the window of deviation 32         *)
(* (zipsplit.rs, Made and remove_split_files), whatever the number of parts.*)
THEOREM SplitLeavesAllOrNothing == ToolsSpec => []SplitAllOrNothing
<1>1. ToolsInit => SplitInv
  BY SplitStart DEF ToolsInit
<1>2. SplitInv /\ [ToolsNext]_toolVars => SplitInv'
  BY SplitStep DEF ToolsNext, toolVars
<1>3. SplitInv => SplitAllOrNothing
  BY DEF SplitInv
<1> QED
  BY <1>1, <1>2, <1>3, PTL DEF ToolsSpec

(* Both tools keep to their types, and at most the archive in hand is armed.*)
THEOREM ToolsTypeCorrect == ToolsSpec => []ToolsTypeOK
<1>1. ToolsInit => SplitInv
  BY SplitStart DEF ToolsInit
<1>2. SplitInv /\ [ToolsNext]_toolVars => SplitInv'
  BY SplitStep DEF ToolsNext, toolVars
<1>3. ASSUME ZipInv, SplitInv PROVE ToolsTypeOK
  <2>1. SplitTypeOK
    BY <1>3 DEF SplitInv, SplitTypes, SplitTypeOK
  <2>2. held \in BOOLEAN /\ (held <=> pc \in HeldPlaces)
    <3>1. CASE pc \in HeldPlaces
      BY <1>3, <3>1 DEF ZipInv, ArmedInv
    <3>2. CASE pc \notin HeldPlaces
      BY <1>3, <3>2 DEF ZipInv, ArmedInv
    <3> QED
      BY <3>1, <3>2
  <2>3. armed \in {Nothing, at}
    BY <1>3 DEF ZipInv, ArmedInv
  <2>4. disarming \in BOOLEAN /\ acting \in [Handlers -> {Nothing, at}]
    BY <1>3 DEF ZipInv, ArmedInv
  <2> QED
    BY <1>3, <2>1, <2>2, <2>3, <2>4 DEF ZipInv, ZipTypes, ToolsTypeOK, TypeOK
<1> QED
  BY <1>1, <1>2, <1>3, ZipInvAlways, PTL DEF ToolsSpec
===============================================================================
