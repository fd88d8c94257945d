------------------------------ MODULE HandlerSlot ------------------------------
(***************************************************************************)
(* HandlerSlot (crates/stuffr-cli/src/compat/host.rs): the lock-free slot  *)
(* through which ordinary code arms a value (the path to remove, the       *)
(* terminal mode to restore) for signal handlers running on any thread.    *)
(* Two buffers, one `state` word naming the published one and whether it   *)
(* is armed, and a count of the handlers reading each buffer.              *)
(*                                                                         *)
(* Every access of the code is SeqCst, so each is one action and the       *)
(* actions interleave freely.  Filling a buffer and reading one are not    *)
(* atomic: each is a span of states, from the check that allows it to its  *)
(* end, and a buffer being filled holds Torn.                              *)
(***************************************************************************)
EXTENDS Naturals, FiniteSets

CONSTANTS
  Handlers,   (* threads a signal handler may run on                         *)
  Own,        (* the writer's own thread                                     *)
  Values,     (* what is armed                                               *)
  Torn,       (* the content of a buffer being filled                        *)
  ReadTries   (* READ_TRIES                                                  *)

ASSUME SlotAssumption ==
  /\ IsFiniteSet(Handlers)
  /\ Own \in Handlers
  /\ Torn \notin Values
  /\ ReadTries \in Nat \ {0}

VARIABLES
  state,      (* the published buffer and the armed bit                      *)
  readers,    (* readers[i]: handlers counted on buffer i                    *)
  bufs,       (* the two buffers                                             *)
  wpc,        (* where the writer is, "idle" outside publish and disarm      *)
  filling,    (* the buffer the writer chose in publish                      *)
  hpc,        (* hpc[h]: where thread h's handler is, "idle" when none runs  *)
  seen,       (* seen[h]: the state the handler loaded                       *)
  tries       (* tries[h]: turns of the handler's loop still to take         *)

writerVars == <<wpc, filling>>
handlerVars == <<hpc, seen, tries>>
slotVars == <<state, readers, bufs, wpc, filling, hpc, seen, tries>>

Buffers == {0, 1}
Words == [pub : Buffers, armed : BOOLEAN]

Unarmed == [pub |-> 0, armed |-> FALSE]

Init ==
  /\ state = Unarmed
  /\ readers = [i \in Buffers |-> 0]
  /\ \E v \in Values : bufs = [i \in Buffers |-> v]
  /\ wpc = "idle"
  /\ filling = 0
  /\ hpc = [h \in Handlers |-> "idle"]
  /\ seen = [h \in Handlers |-> Unarmed]
  /\ tries = [h \in Handlers |-> 0]

-------------------------------------------------------------------------------
(* The writer.  A handler on its own thread runs to completion over it.     *)
WriterRuns == hpc[Own] = "idle"

(* publish: choose the buffer that is not published.                        *)
PublishStart ==
  /\ WriterRuns
  /\ wpc = "idle"
  /\ filling' = 1 - state.pub
  /\ wpc' = "drain"
  /\ UNCHANGED <<state, readers, bufs, handlerVars>>

(* Variant of PublishDrained: no wait for the buffer's readers.             *)
PublishUndrained ==
  /\ WriterRuns
  /\ wpc = "drain"
  /\ bufs' = [bufs EXCEPT ![filling] = Torn]
  /\ wpc' = "fill"
  /\ UNCHANGED <<state, readers, filling, handlerVars>>

(* publish: its readers are gone, so the fill may begin.                    *)
PublishDrained ==
  /\ WriterRuns
  /\ wpc = "drain"
  /\ readers[filling] = 0
  /\ bufs' = [bufs EXCEPT ![filling] = Torn]
  /\ wpc' = "fill"
  /\ UNCHANGED <<state, readers, filling, handlerVars>>

PublishFill(v) ==
  /\ WriterRuns
  /\ wpc = "fill"
  /\ bufs' = [bufs EXCEPT ![filling] = v]
  /\ wpc' = "store"
  /\ UNCHANGED <<state, readers, filling, handlerVars>>

PublishStore ==
  /\ WriterRuns
  /\ wpc = "store"
  /\ state' = [pub |-> filling, armed |-> TRUE]
  /\ wpc' = "idle"
  /\ UNCHANGED <<readers, bufs, filling, handlerVars>>

(* disarm: clear the armed bit ...                                          *)
DisarmClear ==
  /\ WriterRuns
  /\ wpc = "idle"
  /\ state' = [state EXCEPT !.armed = FALSE]
  /\ wpc' = "quiesce0"
  /\ UNCHANGED <<readers, bufs, filling, handlerVars>>

(* Variant of DisarmWait: only the published buffer's readers are awaited.  *)
DisarmWaitPublished ==
  /\ WriterRuns
  /\ \/ /\ wpc = "quiesce0"
        /\ state.pub = 0 => readers[0] = 0
        /\ wpc' = "quiesce1"
     \/ /\ wpc = "quiesce1"
        /\ state.pub = 1 => readers[1] = 0
        /\ wpc' = "idle"
  /\ UNCHANGED <<state, readers, bufs, filling, handlerVars>>

(* ... then wait for each buffer's readers in turn.                         *)
DisarmWait ==
  /\ WriterRuns
  /\ \/ /\ wpc = "quiesce0"
        /\ readers[0] = 0
        /\ wpc' = "quiesce1"
     \/ /\ wpc = "quiesce1"
        /\ readers[1] = 0
        /\ wpc' = "idle"
  /\ UNCHANGED <<state, readers, bufs, filling, handlerVars>>

(* The writer's own steps once publish or disarm has begun.                 *)
WriterContinues ==
  \/ PublishDrained
  \/ \E v \in Values : PublishFill(v)
  \/ PublishStore
  \/ DisarmWait

-------------------------------------------------------------------------------
(* A handler's call of `read`.                                              *)
HandlerGoes(h, from, to) ==
  /\ hpc[h] = from
  /\ hpc' = [hpc EXCEPT ![h] = to]

(* A signal is delivered on thread h.                                       *)
ReadStart(h) ==
  /\ HandlerGoes(h, "idle", "load")
  /\ tries' = [tries EXCEPT ![h] = ReadTries]
  /\ UNCHANGED <<state, readers, bufs, writerVars, seen>>

(* Load `state`; with nothing armed, read nothing.                          *)
ReadLoad(h) ==
  /\ \/ ~ state.armed /\ HandlerGoes(h, "load", "idle")
     \/ state.armed /\ HandlerGoes(h, "load", "enter")
  /\ seen' = [seen EXCEPT ![h] = state]
  /\ UNCHANGED <<state, readers, bufs, writerVars, tries>>

(* Count this handler among the readers of the buffer it saw published.     *)
ReadEnter(h) ==
  /\ HandlerGoes(h, "enter", "check")
  /\ readers' = [readers EXCEPT ![seen[h].pub] = @ + 1]
  /\ UNCHANGED <<state, bufs, writerVars, seen, tries>>

(* Variant of ReadCheck: the second load of `state` left out.              *)
ReadUnchecked(h) ==
  /\ HandlerGoes(h, "check", "reading")
  /\ UNCHANGED <<state, readers, bufs, writerVars, seen, tries>>

(* Load `state` again: read only if nothing moved meanwhile.                *)
ReadCheck(h) ==
  /\ \/ state = seen[h] /\ HandlerGoes(h, "check", "reading")
     \/ state # seen[h] /\ HandlerGoes(h, "check", "retreat")
  /\ UNCHANGED <<state, readers, bufs, writerVars, seen, tries>>

(* The value has been used (unlink, tcsetattr): leave the count and return. *)
ReadDone(h) ==
  /\ HandlerGoes(h, "reading", "idle")
  /\ readers' = [readers EXCEPT ![seen[h].pub] = @ - 1]
  /\ UNCHANGED <<state, bufs, writerVars, seen, tries>>

(* Variant of ReadRetreat: the count is left raised on the way out.         *)
RetreatCounted(h) ==
  /\ \/ tries[h] > 1 /\ HandlerGoes(h, "retreat", "load")
     \/ tries[h] <= 1 /\ HandlerGoes(h, "retreat", "idle")
  /\ tries' = [tries EXCEPT ![h] = @ - 1]
  /\ UNCHANGED <<state, readers, bufs, writerVars, seen>>

(* Variant of ReadRetreat: every turn is taken for the first.               *)
RetreatForever(h) ==
  /\ HandlerGoes(h, "retreat", "load")
  /\ readers' = [readers EXCEPT ![seen[h].pub] = @ - 1]
  /\ UNCHANGED <<state, bufs, writerVars, seen, tries>>

(* Back off and try again, or give up after the last try.                   *)
ReadRetreat(h) ==
  /\ \/ tries[h] > 1 /\ HandlerGoes(h, "retreat", "load")
     \/ tries[h] <= 1 /\ HandlerGoes(h, "retreat", "idle")
  /\ readers' = [readers EXCEPT ![seen[h].pub] = @ - 1]
  /\ tries' = [tries EXCEPT ![h] = @ - 1]
  /\ UNCHANGED <<state, bufs, writerVars, seen>>

HandlerContinues(h) ==
  ReadLoad(h) \/ ReadEnter(h) \/ ReadCheck(h) \/ ReadDone(h) \/ ReadRetreat(h)

-------------------------------------------------------------------------------
Next ==
  \/ PublishStart
  \/ DisarmClear
  \/ WriterContinues
  \/ \E h \in Handlers : ReadStart(h) \/ HandlerContinues(h)

Spec == Init /\ [][Next]_slotVars

(* Running threads make progress.  Calls of publish and disarm and the      *)
(* delivery of signals are nobody's duty.                                   *)
Fairness ==
  /\ WF_slotVars(WriterContinues)
  /\ \A h \in Handlers : WF_slotVars(HandlerContinues(h))

FairSpec == Spec /\ Fairness

-------------------------------------------------------------------------------
WriterPlaces == {"idle", "drain", "fill", "store", "quiesce0", "quiesce1"}
HandlerPlaces == {"idle", "load", "enter", "check", "reading", "retreat"}

(* The handlers counted on buffer i, by where they are.                     *)
CountedOn(i) ==
  {h \in Handlers : hpc[h] \in {"check", "reading", "retreat"} /\ seen[h].pub = i}

ReadersOf(i) == {h \in Handlers : hpc[h] = "reading" /\ seen[h].pub = i}

(* Types of the state, each count being the number of handlers between      *)
(* their increment and their decrement.                                     *)
TypeOK ==
  /\ state \in Words
  /\ readers \in [Buffers -> Nat]
  /\ bufs \in [Buffers -> Values \cup {Torn}]
  /\ wpc \in WriterPlaces
  /\ filling \in Buffers
  /\ hpc \in [Handlers -> HandlerPlaces]
  /\ seen \in [Handlers -> Words]
  /\ tries \in [Handlers -> 0 .. ReadTries]
  /\ \A i \in Buffers : readers[i] = Cardinality(CountedOn(i))

(* "A buffer is written only while it is not published and no handler reads *)
(* it": no read and write of a buffer overlap, however many publishes pass  *)
(* under a handler that was stalled on any thread.                          *)
WrittenAlone ==
  wpc = "fill" => ReadersOf(filling) = {} /\ ~ (state.armed /\ state.pub = filling)

(* What a handler reads is whole.                                           *)
ReadsWhole == \A i \in Buffers : ReadersOf(i) # {} => bufs[i] # Torn

(* "Once disarm returns no handler on any thread is still acting on the old *)
(* value": outside publish and disarm, with nothing armed, nobody reads.    *)
QuietOnceDisarmed ==
  wpc = "idle" /\ ~ state.armed => \A h \in Handlers : hpc[h] # "reading"

(* A buffer does not change under a handler that is reading it.             *)
ReadIsStable ==
  [][\A i \in Buffers : ReadersOf(i) # {} => bufs'[i] = bufs[i]]_slotVars

(* The slot is one armed value or nothing, taken whole, with a disarm that  *)
(* waits: what SignalSlot says.  The abstract disarm has returned when      *)
(* disarm returns, the abstract value is the published buffer's.            *)
Signal == INSTANCE SignalSlot WITH
  Nothing <- Torn,
  armed <- IF state.armed THEN bufs[state.pub] ELSE Torn,
  disarming <- wpc \in {"quiesce0", "quiesce1"},
  acting <- [h \in Handlers |->
               IF hpc[h] = "reading" THEN bufs[seen[h].pub] ELSE Torn]

ImplementsSignalSlot == Signal!SlotSpec

(* A handler that interrupts the writer's own thread never has to back off, *)
(* so a value armed when it starts is a value it reads.                     *)
OwnThreadReadsArmed ==
  hpc[Own] = "load" /\ state.armed ~> hpc[Own] = "reading"

(* "It cannot deadlock": publish and disarm return once signals stop        *)
(* interrupting the writer's own thread, and a handler returns whatever the *)
(* writer does under it -- one on the writer's own thread, if a value was   *)
(* armed when it started, with that value read.                             *)
EveryoneReturns ==
  /\ <>[](hpc[Own] = "idle") => [](wpc # "idle" => <>(wpc = "idle"))
  /\ \A h \in Handlers : hpc[h] # "idle" ~> hpc[h] = "idle"
  /\ OwnThreadReadsArmed

===============================================================================
