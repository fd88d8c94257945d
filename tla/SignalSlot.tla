------------------------------ MODULE SignalSlot ------------------------------
(***************************************************************************)
(* What HandlerSlot promises those who use it: one armed value or nothing, *)
(* taken whole by any number of handlers, and a disarm that returns only   *)
(* once no handler acts on a value any more.  HandlerSlot implements it;   *)
(* ArmedOutput and ZipReplace are written over it.                         *)
(***************************************************************************)
CONSTANTS
  Handlers,   (* threads a signal handler may run on                         *)
  Values,     (* what is armed                                               *)
  Nothing     (* no value                                                    *)

ASSUME NothingAssumption == Nothing \notin Values

VARIABLES
  armed,      (* the armed value, or Nothing                                 *)
  disarming,  (* a call of disarm has cleared it and has not returned        *)
  acting      (* acting[h]: the value thread h's handler acts on, or Nothing *)

slot == <<armed, disarming, acting>>

SlotInit ==
  /\ armed = Nothing
  /\ disarming = FALSE
  /\ acting = [h \in Handlers |-> Nothing]

(* publish: the value takes the place of whatever was armed.                *)
Arm(v) ==
  /\ ~ disarming
  /\ armed' = v
  /\ UNCHANGED <<disarming, acting>>

(* disarm, from its first access ...                                        *)
Disarm ==
  /\ ~ disarming
  /\ armed' = Nothing
  /\ disarming' = TRUE
  /\ UNCHANGED acting

(* ... to its return.                                                       *)
Disarmed ==
  /\ disarming
  /\ \A h \in Handlers : acting[h] = Nothing
  /\ disarming' = FALSE
  /\ UNCHANGED <<armed, acting>>

(* read: take the armed value ...                                           *)
Take(h) ==
  /\ armed # Nothing
  /\ acting[h] = Nothing
  /\ acting' = [acting EXCEPT ![h] = armed]
  /\ UNCHANGED <<armed, disarming>>

(* ... and be done with it.                                                 *)
Release(h) ==
  /\ acting[h] # Nothing
  /\ acting' = [acting EXCEPT ![h] = Nothing]
  /\ UNCHANGED <<armed, disarming>>

SlotNext ==
  \/ \E v \in Values : Arm(v)
  \/ Disarm
  \/ Disarmed
  \/ \E h \in Handlers : Take(h) \/ Release(h)

SlotSpec == SlotInit /\ [][SlotNext]_slot
===============================================================================
