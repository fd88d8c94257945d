------------------------------- MODULE Outputs -------------------------------
(***************************************************************************)
(* The outputs of stuffr's own verbs: calls that create, write and publish  *)
(* one destination (AtomicOutput), and the verb with most to decide before  *)
(* it creates its own, `pack` (Pack), for which a call is the step that     *)
(* opens the destination.  A run is of one or of the other.                 *)
(***************************************************************************)
EXTENDS AtomicOutput, Pack

VARIABLE verb       (* "calls" or "pack"                                     *)

outputsVars == <<vars, packVars, verb>>

(* The other's state is not used: it starts in one way.                     *)
OutputsInit ==
  /\ verb \in {"calls", "pack"} /\ Init /\ PackInit
  /\ verb = "calls" => [tree |-> tree, files |-> files, asked |-> asked, changes |-> pending]
                         = CHOOSE scene \in Scenes : TRUE
  /\ verb = "pack" => dir[Dest] = None /\ options = [sync |-> TRUE, forced |-> TRUE]

OutputsNext ==
  \/ verb = "calls" /\ Next /\ UNCHANGED <<packVars, verb>>
  \/ verb = "pack" /\ PackNext /\ UNCHANGED <<vars, verb>>

OutputsSpec == OutputsInit /\ [][OutputsNext]_outputsVars
===============================================================================
