--------------------------- MODULE HandlerSlotProofs ---------------------------
(***************************************************************************)
(* What HandlerSlot promises, for any number of threads a handler may run  *)
(* on, any values and any bound on the tries.  One inductive invariant     *)
(* carries all of it: the counts are exact, a buffer being filled is not   *)
(* published and not read, and with nothing armed only handlers that a     *)
(* disarm is still waiting for are reading.                                *)
(***************************************************************************)
EXTENDS HandlerSlot, FiniteSetTheorems, TLAPS

Types ==
  /\ state \in Words
  /\ readers \in [Buffers -> Nat]
  /\ bufs \in [Buffers -> Values \cup {Torn}]
  /\ wpc \in WriterPlaces
  /\ filling \in Buffers
  /\ hpc \in [Handlers -> HandlerPlaces]
  /\ seen \in [Handlers -> Words]
  /\ tries \in [Handlers -> 0 .. ReadTries]

CountsExact == \A i \in Buffers : readers[i] = Cardinality(CountedOn(i))

(* A handler in its loop has a try left, and has seen an armed word once it *)
(* is past the load.                                                        *)
InsideLoop ==
  \A h \in Handlers :
    /\ hpc[h] # "idle" => tries[h] >= 1
    /\ hpc[h] \in {"enter", "check", "reading", "retreat"} => seen[h].armed

WriterApart ==
  /\ wpc \in {"drain", "fill", "store"} => filling # state.pub
  /\ wpc \in {"quiesce0", "quiesce1"} => ~ state.armed
  /\ \A i \in Buffers : bufs[i] = Torn => wpc = "fill" /\ filling = i

ReadersAllowed ==
  \A h \in Handlers : hpc[h] = "reading" =>
    /\ ~ (wpc \in {"fill", "store"} /\ filling = seen[h].pub)
    /\ \/ state.armed
       \/ wpc = "quiesce0"
       \/ wpc = "quiesce1" /\ seen[h].pub = 1

SlotInv == Types /\ CountsExact /\ InsideLoop /\ WriterApart /\ ReadersAllowed

-------------------------------------------------------------------------------
(* A buffer whose count is 0 has nobody counted on it.                      *)
LEMMA NobodyCounted ==
  ASSUME CountsExact, NEW i \in Buffers, readers[i] = 0
  PROVE  CountedOn(i) = {}
<1>1. IsFiniteSet(CountedOn(i))
  BY SlotAssumption, FS_Subset DEF CountedOn
<1> QED
  BY <1>1, FS_EmptySet DEF CountsExact

(* The counts stay exact through a step that moves no handler.              *)
LEMMA CountsUntouched ==
  ASSUME CountsExact, UNCHANGED <<readers, hpc, seen>>
  PROVE  CountsExact'
BY DEF CountsExact, CountedOn

(* The counts stay exact when one handler moves between places of the same  *)
(* side of its increment and decrement.                                     *)
LEMMA CountsSameSide ==
  ASSUME Types, CountsExact, NEW h \in Handlers, NEW p,
         hpc' = [hpc EXCEPT ![h] = p], readers' = readers,
         \A k \in Handlers \ {h} : seen'[k] = seen[k],
         \/ hpc[h] \in {"idle", "load", "enter"} /\ p \in {"idle", "load", "enter"}
         \/ /\ hpc[h] \in {"check", "reading", "retreat"}
            /\ p \in {"check", "reading", "retreat"}
            /\ seen'[h] = seen[h]
  PROVE  CountsExact'
<1>1. \A i \in Buffers : CountedOn(i)' = CountedOn(i)
  BY DEF CountedOn, Types
<1> QED
  BY <1>1 DEF CountsExact

(* The counts stay exact when a handler counts itself on the buffer it saw. *)
LEMMA CountsEntered ==
  ASSUME Types, CountsExact, NEW h \in Handlers,
         hpc[h] = "enter", hpc' = [hpc EXCEPT ![h] = "check"], seen' = seen,
         readers' = [readers EXCEPT ![seen[h].pub] = @ + 1]
  PROVE  CountsExact'
<1> DEFINE b == seen[h].pub
<1>0. b \in Buffers
  BY DEF Types, Words
<1>1. ASSUME NEW i \in Buffers
      PROVE  /\ i = b => CountedOn(i)' = CountedOn(i) \cup {h}
             /\ i # b => CountedOn(i)' = CountedOn(i)
             /\ h \notin CountedOn(i)
             /\ IsFiniteSet(CountedOn(i))
  <2>1. IsFiniteSet(CountedOn(i))
    BY SlotAssumption, FS_Subset DEF CountedOn
  <2> QED
    BY <2>1, <1>0 DEF CountedOn, Types
<1>2. \A i \in Buffers : readers'[i] = IF i = b THEN readers[i] + 1 ELSE readers[i]
  BY <1>0 DEF Types
<1>3. ASSUME NEW i \in Buffers PROVE readers'[i] = Cardinality(CountedOn(i)')
  <2>1. CASE i # b
    BY <2>1, <1>1, <1>2 DEF CountsExact
  <2>2. CASE i = b
    <3>1. Cardinality(CountedOn(i) \cup {h}) = Cardinality(CountedOn(i)) + 1
      BY <1>1, FS_AddElement
    <3> QED
      BY <2>2, <3>1, <1>1, <1>2 DEF CountsExact
  <2> QED
    BY <2>1, <2>2
<1> QED
  BY <1>3 DEF CountsExact

(* The counts stay exact when a handler leaves the buffer it was counted on.*)
LEMMA CountsLeft ==
  ASSUME Types, CountsExact, NEW h \in Handlers,
         hpc[h] \in {"check", "reading", "retreat"},
         hpc'[h] \in {"idle", "load"},
         \A k \in Handlers \ {h} : hpc'[k] = hpc[k],
         seen' = seen,
         \A i \in Buffers :
           readers'[i] = IF i = seen[h].pub THEN readers[i] - 1 ELSE readers[i]
  PROVE  CountsExact'
<1> DEFINE b == seen[h].pub
<1>0. b \in Buffers
  BY DEF Types, Words
<1>1. ASSUME NEW i \in Buffers
      PROVE  /\ i = b => CountedOn(i)' = CountedOn(i) \ {h} /\ h \in CountedOn(i)
             /\ i # b => CountedOn(i)' = CountedOn(i)
             /\ IsFiniteSet(CountedOn(i))
  <2>1. IsFiniteSet(CountedOn(i))
    BY SlotAssumption, FS_Subset DEF CountedOn
  <2> QED
    BY <2>1, <1>0 DEF CountedOn, Types
<1>2. \A i \in Buffers : readers'[i] = IF i = b THEN readers[i] - 1 ELSE readers[i]
  OBVIOUS
<1>3. ASSUME NEW i \in Buffers PROVE readers'[i] = Cardinality(CountedOn(i)')
  <2>1. CASE i # b
    BY <2>1, <1>1, <1>2 DEF CountsExact
  <2>2. CASE i = b
    <3>1. Cardinality(CountedOn(i) \ {h}) = Cardinality(CountedOn(i)) - 1
      BY <2>2, <1>1, FS_RemoveElement
    <3> QED
      BY <2>2, <3>1, <1>1, <1>2 DEF CountsExact
  <2> QED
    BY <2>1, <2>2
<1> QED
  BY <1>3 DEF CountsExact

(* A handler that is counted on a buffer keeps its count above 0.           *)
LEMMA CountedAboveZero ==
  ASSUME Types, CountsExact, NEW h \in Handlers,
         hpc[h] \in {"check", "reading", "retreat"}
  PROVE  readers[seen[h].pub] >= 1
<1>1. seen[h].pub \in Buffers
  BY DEF Types, Words
<1>2. h \in CountedOn(seen[h].pub)
  BY DEF CountedOn
<1>3. readers[seen[h].pub] # 0
  BY <1>1, <1>2, NobodyCounted
<1> QED
  BY <1>1, <1>3 DEF Types

-------------------------------------------------------------------------------
LEMMA SlotInvInit == Init => SlotInv
<1> SUFFICES ASSUME Init PROVE SlotInv
  OBVIOUS
<1>1. Types
  BY SlotAssumption DEF Init, Types, Words, Unarmed, Buffers, WriterPlaces, HandlerPlaces
<1>2. CountsExact
  <2>1. \A i \in Buffers : CountedOn(i) = {}
    BY DEF Init, CountedOn
  <2> QED
    BY <2>1, FS_EmptySet DEF CountsExact, Init
<1>3. InsideLoop /\ WriterApart /\ ReadersAllowed
  BY SlotAssumption DEF Init, InsideLoop, WriterApart, ReadersAllowed
<1> QED
  BY <1>1, <1>2, <1>3 DEF SlotInv

(* A step of the writer keeps the invariant.                                *)
LEMMA WriterKeepsSlotInv ==
  ASSUME SlotInv, PublishStart \/ DisarmClear \/ WriterContinues
  PROVE  SlotInv'
<1> USE DEF SlotInv, handlerVars
<1>1. CountsExact'
  BY CountsUntouched DEF PublishStart, DisarmClear, WriterContinues, PublishDrained,
                         PublishFill, PublishStore, DisarmWait
<1>2. CASE PublishStart
  BY <1>1, <1>2 DEF PublishStart, Types, Words, Buffers, WriterPlaces, InsideLoop,
                    WriterApart, ReadersAllowed
<1>3. CASE DisarmClear
  BY <1>1, <1>3 DEF DisarmClear, Types, Words, Buffers, WriterPlaces, InsideLoop,
                    WriterApart, ReadersAllowed
<1>4. CASE PublishDrained
  <2>1. CountedOn(filling) = {}
    BY <1>4, NobodyCounted DEF PublishDrained, Types
  <2>2. \A h \in Handlers : hpc[h] = "reading" => seen[h].pub # filling
    BY <2>1 DEF CountedOn
  <2> QED
    BY <1>1, <1>4, <2>2 DEF PublishDrained, Types, Words, Buffers, WriterPlaces,
                            InsideLoop, WriterApart, ReadersAllowed
<1>5. CASE \E v \in Values : PublishFill(v)
  BY <1>1, <1>5, SlotAssumption
     DEF PublishFill, Types, Words, Buffers, WriterPlaces, InsideLoop, WriterApart,
         ReadersAllowed
<1>6. CASE PublishStore
  BY <1>1, <1>6 DEF PublishStore, Types, Words, Buffers, WriterPlaces, InsideLoop,
                    WriterApart, ReadersAllowed
<1>7. CASE DisarmWait
  <2>1. ASSUME wpc = "quiesce0", readers[0] = 0, wpc' = "quiesce1"
        PROVE  \A h \in Handlers : hpc[h] = "reading" => seen[h].pub = 1
    BY <2>1, NobodyCounted DEF CountedOn, Types, Words, Buffers
  <2>2. ASSUME wpc = "quiesce1", readers[1] = 0, wpc' = "idle"
        PROVE  \A h \in Handlers : hpc[h] = "reading" => seen[h].pub = 0
    BY <2>2, NobodyCounted DEF CountedOn, Types, Words, Buffers
  <2> QED
    BY <1>1, <1>7, <2>1, <2>2 DEF DisarmWait, Types, Words, Buffers, WriterPlaces,
                                  InsideLoop, WriterApart, ReadersAllowed
<1> QED
  BY <1>2, <1>3, <1>4, <1>5, <1>6, <1>7 DEF WriterContinues

(* A step of a handler keeps the invariant.                                 *)
LEMMA HandlerKeepsSlotInv ==
  ASSUME SlotInv, NEW h \in Handlers, ReadStart(h) \/ HandlerContinues(h)
  PROVE  SlotInv'
<1> USE DEF SlotInv, writerVars, HandlerGoes
<1>1. CASE ReadStart(h)
  <2>1. CountsExact'
    BY <1>1, CountsSameSide DEF ReadStart
  <2> QED
    BY <1>1, <2>1, SlotAssumption
       DEF ReadStart, Types, HandlerPlaces, InsideLoop, WriterApart, ReadersAllowed
<1>2. CASE ReadLoad(h)
  <2>1. CountsExact'
    <3>1. CASE hpc' = [hpc EXCEPT ![h] = "idle"]
      BY <1>2, <3>1, CountsSameSide DEF ReadLoad, Types
    <3>2. CASE hpc' = [hpc EXCEPT ![h] = "enter"]
      BY <1>2, <3>2, CountsSameSide DEF ReadLoad, Types
    <3> QED
      BY <1>2, <3>1, <3>2 DEF ReadLoad
  <2> QED
    BY <1>2, <2>1
       DEF ReadLoad, Types, HandlerPlaces, InsideLoop, WriterApart, ReadersAllowed
<1>3. CASE ReadEnter(h)
  <2>1. CountsExact'
    BY <1>3, CountsEntered DEF ReadEnter
  <2>2. Types'
    BY <1>3 DEF ReadEnter, Types, Words, Buffers, HandlerPlaces
  <2> QED
    BY <1>3, <2>1, <2>2
       DEF ReadEnter, Types, InsideLoop, WriterApart, ReadersAllowed
<1>4. CASE ReadCheck(h)
  <2>1. CountsExact'
    <3>1. CASE hpc' = [hpc EXCEPT ![h] = "reading"]
      BY <1>4, <3>1, CountsSameSide DEF ReadCheck
    <3>2. CASE hpc' = [hpc EXCEPT ![h] = "retreat"]
      BY <1>4, <3>2, CountsSameSide DEF ReadCheck
    <3> QED
      BY <1>4, <3>1, <3>2 DEF ReadCheck
  <2> QED
    BY <1>4, <2>1
       DEF ReadCheck, Types, HandlerPlaces, InsideLoop, WriterApart, ReadersAllowed
<1>5. CASE ReadDone(h)
  <2>1. CountsExact'
    BY <1>5, CountsLeft DEF ReadDone, Types
  <2>2. readers[seen[h].pub] >= 1
    BY <1>5, CountedAboveZero DEF ReadDone
  <2>3. Types'
    BY <1>5, <2>2 DEF ReadDone, Types, Words, Buffers, HandlerPlaces
  <2> QED
    BY <1>5, <2>1, <2>3 DEF ReadDone, Types, InsideLoop, WriterApart, ReadersAllowed
<1>6. CASE ReadRetreat(h)
  <2>1. CountsExact'
    BY <1>6, CountsLeft DEF ReadRetreat, Types
  <2>2. readers[seen[h].pub] >= 1
    BY <1>6, CountedAboveZero DEF ReadRetreat
  <2>3. tries[h] \in 1 .. ReadTries
    BY <1>6, SlotAssumption DEF ReadRetreat, InsideLoop, Types
  <2>4. Types'
    BY <1>6, <2>2, <2>3, SlotAssumption DEF ReadRetreat, Types, Words, Buffers, HandlerPlaces
  <2> QED
    BY <1>6, <2>1, <2>3, <2>4, SlotAssumption
       DEF ReadRetreat, Types, InsideLoop, WriterApart, ReadersAllowed
<1> QED
  BY <1>1, <1>2, <1>3, <1>4, <1>5, <1>6 DEF HandlerContinues

LEMMA SlotInvStep == SlotInv /\ [Next]_slotVars => SlotInv'
<1> SUFFICES ASSUME SlotInv, [Next]_slotVars PROVE SlotInv'
  OBVIOUS
<1>1. CASE UNCHANGED slotVars
  BY <1>1 DEF slotVars, SlotInv, Types, CountsExact, CountedOn, InsideLoop, WriterApart,
              ReadersAllowed
<1>2. CASE Next
  BY <1>2, WriterKeepsSlotInv, HandlerKeepsSlotInv DEF Next
<1> QED
  BY <1>1, <1>2

LEMMA SlotInvAlways == Spec => []SlotInv
BY SlotInvInit, SlotInvStep, PTL DEF Spec

-------------------------------------------------------------------------------
(* The state keeps its types and each count is the number of handlers that  *)
(* are between their increment and their decrement.                         *)
THEOREM SlotTypeCorrect == Spec => []TypeOK
<1>1. SlotInv => TypeOK
  BY DEF SlotInv, Types, CountsExact, TypeOK
<1> QED
  BY <1>1, SlotInvAlways, PTL

(* "A buffer is written only while it is not published and no handler reads *)
(* it", on any number of threads.                                           *)
THEOREM FillIsExclusive == Spec => []WrittenAlone
<1>1. SlotInv => WrittenAlone
  BY DEF SlotInv, WrittenAlone, WriterApart, ReadersAllowed, ReadersOf
<1> QED
  BY <1>1, SlotInvAlways, PTL

(* No handler reads a path that is half written.                            *)
THEOREM NothingReadTorn == Spec => []ReadsWhole
<1>1. SlotInv => ReadsWhole
  BY DEF SlotInv, ReadsWhole, WriterApart, ReadersAllowed, ReadersOf
<1> QED
  BY <1>1, SlotInvAlways, PTL

(* After disarm has returned no handler on any thread acts on the old value.*)
THEOREM DisarmIsFinal == Spec => []QuietOnceDisarmed
<1>1. SlotInv => QuietOnceDisarmed
  BY DEF SlotInv, QuietOnceDisarmed, ReadersAllowed
<1> QED
  BY <1>1, SlotInvAlways, PTL

(* A buffer holds still for as long as somebody reads it.                   *)
THEOREM BufferHoldsStill == Spec => ReadIsStable
<1>1. ASSUME SlotInv, [Next]_slotVars
      PROVE  [\A i \in Buffers : ReadersOf(i) # {} => bufs'[i] = bufs[i]]_slotVars
  <2> SUFFICES ASSUME NEW i \in Buffers, ReadersOf(i) # {}, bufs' # bufs
               PROVE  bufs'[i] = bufs[i]
    OBVIOUS
  <2>1. CountedOn(i) # {}
    BY DEF ReadersOf, CountedOn
  <2>2. readers[i] # 0
    BY <2>1, <1>1, NobodyCounted DEF SlotInv
  <2>3. ~ (wpc = "fill" /\ filling = i)
    BY <1>1 DEF SlotInv, ReadersAllowed, ReadersOf
  <2>4. PublishDrained \/ \E v \in Values : PublishFill(v)
    BY <1>1 DEF slotVars, Next, PublishStart, DisarmClear, WriterContinues, PublishStore,
                DisarmWait, ReadStart, HandlerContinues, ReadLoad, ReadEnter, ReadCheck,
                ReadDone, ReadRetreat
  <2> QED
    BY <1>1, <2>2, <2>3, <2>4 DEF PublishDrained, PublishFill, SlotInv, Types
<1> QED
  BY <1>1, SlotInvAlways, PTL DEF Spec, ReadIsStable

-------------------------------------------------------------------------------
(* The refinement: what the armed value, the running disarm and the values  *)
(* in use become at each step of the slot.                                  *)
ArmedValue == IF state.armed THEN bufs[state.pub] ELSE Torn
Disarming == wpc \in {"quiesce0", "quiesce1"}
InUse == [h \in Handlers |-> IF hpc[h] = "reading" THEN bufs[seen[h].pub] ELSE Torn]

(* A buffer that is published armed, or read, holds a whole value.          *)
LEMMA WholeBuffers ==
  ASSUME SlotInv
  PROVE  /\ state.armed => bufs[state.pub] \in Values
         /\ \A h \in Handlers : hpc[h] = "reading" => bufs[seen[h].pub] \in Values
<1>1. state.pub \in Buffers /\ \A h \in Handlers : seen[h].pub \in Buffers
  BY DEF SlotInv, Types, Words
<1>2. \A i \in Buffers : bufs[i] \in Values \/ (wpc = "fill" /\ filling = i)
  BY DEF SlotInv, Types, WriterApart
<1> QED
  BY <1>1, <1>2 DEF SlotInv, WriterApart, ReadersAllowed

(* The buffers that are published or read keep their content.               *)
LEMMA VisibleStable ==
  ASSUME SlotInv, [Next]_slotVars
  PROVE  /\ state' = state => ArmedValue' = ArmedValue
         /\ hpc' = hpc /\ seen' = seen => InUse' = InUse
<1>1. CASE bufs' = bufs
  BY <1>1 DEF ArmedValue, InUse
<1>2. CASE bufs' # bufs
  <2>1. PublishDrained \/ \E v \in Values : PublishFill(v)
    BY <1>2 DEF slotVars, Next, PublishStart, DisarmClear, WriterContinues, PublishStore,
                DisarmWait, ReadStart, HandlerContinues, ReadLoad, ReadEnter, ReadCheck,
                ReadDone, ReadRetreat
  <2>2. \A i \in Buffers : i # filling => bufs'[i] = bufs[i]
    BY <2>1 DEF PublishDrained, PublishFill, SlotInv, Types
  <2>3. state.pub # filling
    BY <2>1 DEF PublishDrained, PublishFill, SlotInv, WriterApart
  <2>4. \A h \in Handlers : hpc[h] = "reading" => seen[h].pub # filling
    <3>1. CASE PublishDrained
      <4>1. CountedOn(filling) = {}
        BY <3>1, NobodyCounted DEF PublishDrained, SlotInv, Types
      <4> QED
        BY <4>1 DEF CountedOn
    <3>2. CASE \E v \in Values : PublishFill(v)
      BY <3>2 DEF PublishFill, SlotInv, ReadersAllowed
    <3> QED
      BY <2>1, <3>1, <3>2
  <2>5. state.pub \in Buffers /\ \A h \in Handlers : seen[h].pub \in Buffers
    BY DEF SlotInv, Types, Words
  <2>6. state' = state => ArmedValue' = ArmedValue
    BY <2>2, <2>3, <2>5 DEF ArmedValue
  <2>7. hpc' = hpc /\ seen' = seen => InUse' = InUse
    BY <2>2, <2>4, <2>5 DEF InUse
  <2> QED
    BY <2>6, <2>7
<1> QED
  BY <1>1, <1>2

(* A step of the writer is a step of SignalSlot or none.                    *)
LEMMA WriterSignals ==
  ASSUME SlotInv, SlotInv', [Next]_slotVars,
         PublishStart \/ DisarmClear \/ WriterContinues
  PROVE  [Signal!SlotNext]_(Signal!slot)
<1> USE DEF Signal!slot, Signal!SlotNext
<1>0. InUse' = InUse
  BY VisibleStable DEF PublishStart, DisarmClear, WriterContinues, PublishDrained,
                       PublishFill, PublishStore, DisarmWait, handlerVars
<1>1. CASE PublishStart \/ PublishDrained \/ \E v \in Values : PublishFill(v)
  <2>1. ArmedValue' = ArmedValue
    BY <1>1, VisibleStable DEF PublishStart, PublishDrained, PublishFill
  <2>2. Disarming' = Disarming
    BY <1>1 DEF PublishStart, PublishDrained, PublishFill, Disarming
  <2> QED
    BY <1>0, <2>1, <2>2 DEF ArmedValue, Disarming, InUse
<1>2. CASE DisarmClear
  <2>1. ~ Disarming /\ Disarming'
    BY <1>2 DEF DisarmClear, Disarming
  <2>2. ArmedValue' = Torn
    BY <1>2 DEF DisarmClear, ArmedValue, SlotInv, Types, Words
  <2>3. Signal!Disarm
    BY <1>0, <2>1, <2>2 DEF Signal!Disarm, ArmedValue, Disarming, InUse
  <2> QED
    BY <2>3
<1>3. CASE PublishStore
  <2>1. ~ Disarming /\ ~ Disarming'
    BY <1>3 DEF PublishStore, Disarming
  <2>2. ArmedValue' = bufs'[state'.pub] /\ state'.armed
    BY <1>3 DEF PublishStore, ArmedValue
  <2>3. ArmedValue' \in Values
    BY <2>2, WholeBuffers, SlotInv' DEF SlotInv, Types, Words, WriterApart
  <2>4. \E v \in Values : Signal!Arm(v)
    BY <1>0, <2>1, <2>3 DEF Signal!Arm, ArmedValue, Disarming, InUse
  <2> QED
    BY <2>4
<1>4. CASE DisarmWait
  <2>1. ArmedValue' = ArmedValue
    BY <1>4, VisibleStable DEF DisarmWait
  <2>2. CASE wpc' = "quiesce1"
    <3>1. Disarming' = Disarming
      BY <1>4, <2>2 DEF DisarmWait, Disarming
    <3> QED
      BY <1>0, <2>1, <3>1 DEF ArmedValue, Disarming, InUse
  <2>3. CASE wpc' = "idle"
    <3>1. Disarming /\ ~ Disarming'
      BY <1>4, <2>3 DEF DisarmWait, Disarming
    <3>2. \A h \in Handlers : hpc[h] # "reading"
      BY <1>4, <2>3 DEF DisarmWait, SlotInv, ReadersAllowed, WriterApart, handlerVars
    <3>3. \A h \in Handlers : InUse[h] = Torn
      BY <3>2 DEF InUse
    <3>4. Signal!Disarmed
      BY <1>0, <2>1, <3>1, <3>3 DEF Signal!Disarmed, ArmedValue, Disarming, InUse
    <3> QED
      BY <3>4
  <2> QED
    BY <1>4, <2>2, <2>3 DEF DisarmWait
<1> QED
  BY <1>1, <1>2, <1>3, <1>4 DEF WriterContinues

(* A step of a handler is a step of SignalSlot or none.                     *)
LEMMA HandlerSignals ==
  ASSUME SlotInv, [Next]_slotVars,
         NEW h \in Handlers, ReadStart(h) \/ HandlerContinues(h)
  PROVE  [Signal!SlotNext]_(Signal!slot)
<1> USE DEF Signal!slot, Signal!SlotNext
<1>0. UNCHANGED <<state, bufs, wpc>>
  BY DEF ReadStart, HandlerContinues, ReadLoad, ReadEnter, ReadCheck, ReadDone,
         ReadRetreat, writerVars
<1>1. ArmedValue' = ArmedValue /\ Disarming' = Disarming
  BY <1>0 DEF ArmedValue, Disarming
<1>2. \A k \in Handlers \ {h} : hpc'[k] = hpc[k] /\ seen'[k] = seen[k]
  BY DEF ReadStart, HandlerContinues, ReadLoad, ReadEnter, ReadCheck, ReadDone,
         ReadRetreat, HandlerGoes, SlotInv, Types
<1>3. CASE hpc[h] # "reading" /\ hpc'[h] # "reading"
  <2>1. InUse' = InUse
    BY <1>0, <1>2, <1>3 DEF InUse
  <2> QED
    BY <1>1, <2>1 DEF ArmedValue, Disarming, InUse
<1>4. CASE ReadDone(h)
  <2>1. InUse[h] # Torn
    BY <1>4, WholeBuffers, SlotAssumption DEF ReadDone, HandlerGoes, InUse
  <2>2. InUse' = [InUse EXCEPT ![h] = Torn]
    BY <1>0, <1>2, <1>4 DEF ReadDone, HandlerGoes, InUse, SlotInv, Types
  <2>3. Signal!Release(h)
    BY <1>1, <2>1, <2>2 DEF Signal!Release, ArmedValue, Disarming, InUse
  <2> QED
    BY <2>3
<1>5. CASE ReadCheck(h) /\ hpc'[h] = "reading"
  <2>1. state = seen[h] /\ hpc[h] = "check" /\ seen' = seen /\ state.armed
    BY <1>5 DEF ReadCheck, HandlerGoes, SlotInv, Types, InsideLoop
  <2>2. ArmedValue # Torn /\ InUse[h] = Torn
    BY <2>1, WholeBuffers, SlotAssumption DEF ArmedValue, InUse
  <2>3. InUse' = [InUse EXCEPT ![h] = ArmedValue]
    BY <1>0, <1>2, <1>5, <2>1 DEF InUse, ArmedValue
  <2>4. Signal!Take(h)
    BY <1>1, <2>2, <2>3 DEF Signal!Take, ArmedValue, Disarming, InUse
  <2> QED
    BY <2>4
<1>6. hpc[h] = "reading" => ReadDone(h)
  BY DEF ReadStart, HandlerContinues, ReadLoad, ReadEnter, ReadCheck, ReadRetreat, HandlerGoes
<1>7. hpc'[h] = "reading" => ReadCheck(h)
  BY DEF ReadStart, HandlerContinues, ReadLoad, ReadEnter, ReadDone, ReadRetreat,
         HandlerGoes, SlotInv, Types
<1> QED
  BY <1>3, <1>4, <1>5, <1>6, <1>7

(* HandlerSlot is a SignalSlot: one value, taken whole by any number of     *)
(* handlers on any threads, and a disarm that waits for every one of them.  *)
THEOREM SlotImplementsSignalSlot == Spec => ImplementsSignalSlot
<1>1. Init => Signal!SlotInit
  BY DEF Init, Unarmed, Signal!SlotInit
<1>2. SlotInv /\ SlotInv' /\ [Next]_slotVars => [Signal!SlotNext]_(Signal!slot)
  <2> SUFFICES ASSUME SlotInv, SlotInv', [Next]_slotVars
               PROVE  [Signal!SlotNext]_(Signal!slot)
    OBVIOUS
  <2>1. CASE UNCHANGED slotVars
    BY <2>1 DEF slotVars, Signal!slot
  <2>2. CASE Next
    BY <2>2, WriterSignals, HandlerSignals DEF Next
  <2> QED
    BY <2>1, <2>2
<1> QED
  BY <1>1, <1>2, SlotInvAlways, PTL DEF Spec, ImplementsSignalSlot, Signal!SlotSpec

===============================================================================
