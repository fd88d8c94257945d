------------------------------- MODULE ZipTools -------------------------------
(***************************************************************************)
(* The zip tools' files under the handler they share (on_zip_abort): a run  *)
(* is zip's, which replaces its archive by an armed temporary (ZipReplace), *)
(* or zipsplit's, whose parts are made in place (ZipSplit).                 *)
(***************************************************************************)
EXTENDS ZipReplace, ZipSplit

VARIABLE tool       (* whose run it is                                      *)

toolVars == <<zipVars, splitVars, tool>>

(* The other tool's state is not used.                                      *)
ToolsInit ==
  /\ tool \in {"zip", "zipsplit"} /\ Init /\ SplitInit
  /\ tool = "zip" => options = [index |-> FALSE, pause |-> FALSE] /\ found[1] = "none"
                     /\ \A n \in SplitNames : found[n] = found[1]
  /\ tool = "zipsplit" => ~split /\ \A a \in Archives : was[a] = "absent"

ToolsNext ==
  \/ tool = "zip" /\ Next /\ UNCHANGED <<splitVars, tool>>
  \/ tool = "zipsplit" /\ SplitNext /\ UNCHANGED <<zipVars, tool>>
  \/ tool = "zipsplit" /\ ending \notin {"running", "interrupted"} /\ UNCHANGED toolVars

ToolsSpec == ToolsInit /\ [][ToolsNext]_toolVars

(* Types of both tools' state.                                              *)
ToolsTypeOK == TypeOK /\ SplitTypeOK
===============================================================================
