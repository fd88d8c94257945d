------------------------------- MODULE Convert -------------------------------
(***************************************************************************)
(* convert at its two levels: the loop over entries, which writes, skips    *)
(* and copies (ConvertLinks), and the bytes of one archive that each        *)
(* payload is read from, as every verb reads them (ReadPath).  What the     *)
(* first needs of the second is that a payload it wrote is whole, which is  *)
(* checked there; so a run is of one or of the other.                       *)
(***************************************************************************)
EXTENDS ConvertLinks, ReadPath

VARIABLE level     \* "entries" or "bytes"

convertVars == <<vars, readVars, level>>

\* The other level's state is not used: it starts in one way.
ConvertInit ==
  /\ level \in {"entries", "bytes"} /\ Init /\ ReadInit
  /\ level = "entries" =>
       layout = (CHOOSE l \in Layouts : TRUE) /\ asked = (CHOOSE r \in Requests : TRUE)
  /\ level = "bytes" => ~caps.symlinks

ConvertNext ==
  \/ level = "entries" /\ Next /\ UNCHANGED <<readVars, level>>
  \/ level = "bytes" /\ ReadNext /\ UNCHANGED <<vars, level>>

ConvertSpec == ConvertInit /\ [][ConvertNext]_convertVars

\* Types of both levels' state.
ConvertTypeOK == TypeOK /\ ReadTypeOK
===============================================================================
