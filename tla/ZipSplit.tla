------------------------------- MODULE ZipSplit -------------------------------
(***************************************************************************)
(* zipsplit (crates/stuffr-cli/src/compat/zip/zipsplit.rs): an index and    *)
(* the parts an archive is divided into, each written directly under its    *)
(* name.  What has been made is counted twice: by the run (Made), which     *)
(* removes it on an error, and in two static words (SPLIT_PARTS,            *)
(* SPLIT_INDEX) from which the handler of the zip signals (on_zip_abort)    *)
(* forms the names to remove.  zipsplit runs on one thread, which the       *)
(* handler interrupts between any two steps; SIGKILL may strike the handler *)
(* as well.  Name 0 is the index, name n the n-th part.                     *)
(***************************************************************************)
EXTENDS Naturals

CONSTANT MaxParts       (* the archives the entries are divided among        *)

ASSUME PartsAssumption == MaxParts \in Nat \ {0}

VARIABLES
  out,        (* out[n]: what is at the name: "none", "theirs", "locked" (a  *)
              (* file zipsplit may not write), "link", "part" or "whole"     *)
  found,      (* out, before the run                                         *)
  options,    (* -i (the index is written) and -p (a failed disk is redone)  *)
  made,       (* Made: parts and index                                       *)
  shown,      (* SPLIT_PARTS and SPLIT_INDEX                                 *)
  names,      (* SPLIT is armed                                              *)
  cur,        (* the name being made                                         *)
  place,      (* where zipsplit is                                           *)
  sweep,      (* what the removal at hand has yet to remove                  *)
  ending      (* "running", "interrupted" (in the handler), or how it ended  *)

splitVars == <<out, found, options, made, shown, names, cur, place, sweep, ending>>

SplitNames == 0 .. MaxParts
NothingMade == [parts |-> 0, index |-> FALSE]

(* arm_split_cleanup, before the first name is made.                        *)
SplitInit ==
  /\ found \in [SplitNames -> {"none", "theirs", "locked", "link"}]
  /\ out = found
  /\ options \in [index : BOOLEAN, pause : BOOLEAN]
  /\ made = NothingMade /\ shown = NothingMade
  /\ names = TRUE
  /\ cur = 1
  /\ place = "begin"
  /\ sweep = {}
  /\ ending = "running"

(* The names the index and the parts counted by m are made under.           *)
Counting(m) == (IF m.index THEN {0} ELSE {}) \cup 1 .. m.parts

-------------------------------------------------------------------------------
Steps(from, to) ==
  /\ ending = "running"
  /\ place = from
  /\ place' = to
  /\ UNCHANGED <<found, options>>

(* make_part: the first part's turn begins with the index, if one is asked. *)
Begin ==
  /\ Steps("begin", "count")
  /\ cur' = IF cur = 1 /\ options.index THEN 0 ELSE cur
  /\ UNCHANGED <<out, made, shown, names, sweep, ending>>

(* The name is counted as made before it is.                                *)
Count ==
  /\ Steps("count", "tell parts")
  /\ made' = IF cur = 0 THEN [made EXCEPT !.index = TRUE] ELSE [made EXCEPT !.parts = cur]
  /\ UNCHANGED <<out, shown, names, cur, sweep, ending>>

(* split_progress: two words, stored in turn; told again when the count is  *)
(* taken back.                                                              *)
TellParts ==
  /\ \/ Steps("tell parts", "tell index")
     \/ Steps("retell parts", "retell index")
  /\ shown' = [shown EXCEPT !.parts = made.parts]
  /\ UNCHANGED <<out, made, names, cur, sweep, ending>>

TellIndex ==
  /\ \/ Steps("tell index", "create")
     \/ Steps("retell index", "error")
  /\ shown' = [shown EXCEPT !.index = made.index]
  /\ UNCHANGED <<out, made, names, cur, sweep, ending>>

(* create_part: a file is cut, a link refused; any open may fail.           *)
Create ==
  /\ \/ /\ out[cur] \notin {"link", "locked"}
        /\ Steps("create", "write")
        /\ out' = [out EXCEPT ![cur] = "part"]
     \/ Steps("create", "look") /\ UNCHANGED out
  /\ UNCHANGED <<made, shown, names, cur, sweep, ending>>

(* Variant: a name that could not be opened is still counted.               *)
LookAway ==
  /\ Steps("look", "error")
  /\ UNCHANGED <<out, made, shown, names, cur, sweep, ending>>

(* Deviation 32: a link is not ours, and its count is taken back.           *)
LookAtLink ==
  /\ \/ out[cur] = "link" /\ Steps("look", "retell parts")
        /\ made' = IF cur = 0 THEN [made EXCEPT !.index = FALSE]
                   ELSE [made EXCEPT !.parts = cur - 1]
     \/ out[cur] # "link" /\ Steps("look", "error") /\ UNCHANGED made
  /\ UNCHANGED <<out, shown, names, cur, sweep, ending>>

(* The entries, the central headers and the end record; or a failure, which *)
(* the index and the end of a part may redo, and an entry's copy may not.   *)
WriteOut ==
  /\ \/ /\ Steps("write", IF cur = MaxParts THEN "done" ELSE IF cur = 0 THEN "count" ELSE "begin")
        /\ out' = [out EXCEPT ![cur] = "whole"]
        /\ cur' = IF cur = MaxParts THEN cur ELSE cur + 1
        /\ UNCHANGED sweep
     \/ Steps("write", "error") /\ UNCHANGED <<out, cur, sweep>>
     \/ /\ cur # 0 /\ Steps("write", "destroy")
        /\ sweep' = Counting(made)
        /\ UNCHANGED <<out, cur>>
  /\ UNCHANGED <<made, shown, names, ending>>

(* part_error: -p asks to redo the disk; else everything made is removed.   *)
Redo ==
  /\ options.pause
  /\ Steps("error", "begin")
  /\ cur' = IF cur = 0 THEN 1 ELSE cur
  /\ UNCHANGED <<out, made, shown, names, sweep, ending>>

GiveUp ==
  /\ Steps("error", "destroy")
  /\ sweep' = Counting(made)
  /\ UNCHANGED <<out, made, shown, names, cur, ending>>

(* The index first, then the parts, the last first.                         *)
NextSwept == IF 0 \in sweep THEN 0 ELSE CHOOSE n \in sweep : \A m \in sweep : m <= n

Remove ==
  /\ out' = [out EXCEPT ![NextSwept] = "none"]
  /\ sweep' = sweep \ {NextSwept}

(* Made::destroy, still armed.                                              *)
DestroyMade ==
  /\ sweep # {}
  /\ Steps("destroy", "destroy")
  /\ Remove
  /\ UNCHANGED <<made, shown, names, cur, ending>>

Swept ==
  /\ sweep = {}
  /\ Steps("destroy", "failed")
  /\ UNCHANGED <<out, made, shown, names, cur, sweep, ending>>

(* The guard dropped (SplitGuard), and the exit.                            *)
DropGuard ==
  /\ \/ Steps("done", "finished") \/ Steps("failed", "gave up")
  /\ names' = FALSE
  /\ UNCHANGED <<out, made, shown, cur, sweep, ending>>

ExitSplit ==
  /\ ending = "running" /\ place \in {"finished", "gave up"}
  /\ ending' = place
  /\ UNCHANGED <<out, found, options, made, shown, names, cur, place, sweep>>

-------------------------------------------------------------------------------
(* on_zip_abort, remove_split_files: the words are read as they are.        *)
Interrupt ==
  /\ ending = "running"
  /\ ending' = "interrupted"
  /\ sweep' = IF names THEN Counting(shown) ELSE {}
  /\ UNCHANGED <<out, found, options, made, shown, names, cur, place>>

HandlerRemoves ==
  /\ ending = "interrupted" /\ sweep # {}
  /\ Remove
  /\ UNCHANGED <<found, options, made, shown, names, cur, place, ending>>

HandlerExits ==
  /\ ending = "interrupted" /\ sweep = {}
  /\ ending' = "signalled"
  /\ UNCHANGED <<out, found, options, made, shown, names, cur, place, sweep>>

KilledSplit ==
  /\ ending \in {"running", "interrupted"}
  /\ ending' = "killed"
  /\ UNCHANGED <<out, found, options, made, shown, names, cur, place, sweep>>

SplitNext ==
  \/ Begin \/ Count \/ TellParts \/ TellIndex \/ Create \/ LookAtLink \/ WriteOut
  \/ Redo \/ GiveUp \/ DestroyMade \/ Swept \/ DropGuard \/ ExitSplit
  \/ Interrupt \/ HandlerRemoves \/ HandlerExits \/ KilledSplit

-------------------------------------------------------------------------------
SplitTypeOK ==
  /\ out \in [SplitNames -> {"none", "theirs", "locked", "link", "part", "whole"}]
  /\ made \in [parts : SplitNames, index : BOOLEAN]
  /\ shown \in [parts : SplitNames, index : BOOLEAN]
  /\ cur \in SplitNames /\ sweep \subseteq SplitNames /\ names \in BOOLEAN

(* Between the count of a name and the taking back of it, an interrupt      *)
(* takes a link for a part.                                                 *)
Mistaken(n) ==
  /\ n = cur /\ ending \in {"interrupted", "signalled", "killed"}
  /\ place \in {"tell index", "create", "look", "retell parts", "retell index"}

(* A run leaves all of its names or none: "an error removes every file made *)
(* so far, the index too", an interrupt "removes the index and every part   *)
(* made" (zipsplit.rs:15), wherever it strikes; and neither removes a link, *)
(* which no part is written through (deviation 32), but in the window above,*)
(* nor what is at a name the run has not come to.                           *)
SplitAllOrNothing ==
  /\ ending = "finished" =>
       \A n \in SplitNames : n # 0 \/ options.index => out[n] = "whole"
  /\ ending = "gave up" \/ (ending = "signalled" /\ place # "finished") =>
       \A n \in SplitNames : out[n] \notin {"part", "whole"}
  /\ \A n \in SplitNames :
       /\ found[n] = "link" => out[n] = "link" \/ Mistaken(n)
       /\ n > made.parts \/ (n = 0 /\ ~ options.index) => out[n] = found[n] \/ Mistaken(n)
===============================================================================
