------------------------------ MODULE MCGovernor ------------------------------
(* Instances of Governor for TLC.  The units are interchangeable, which the  *)
(* runs without a liveness property use as a symmetry.                       *)
EXTENDS Governor, ThreadBudget, TLC

UnitSymmetry == Permutations(Units)

(* The budget against what its documentation asks, over small inputs: each   *)
(* source's opinion is the answer, 0 for "auto", unless one before it has    *)
(* one; "auto" is at least one worker, at most the cap, and never more than  *)
(* the host or a control group gives.                                        *)
Said == {Silent, 0, 1, 3}
Hosts == {0, 1, 2, 5, 40}
Readings == {<<>>, <<Silent, 2>>, <<5, 2>>, <<0, 2>>, <<5, 0>>, <<40, 1>>}

Expected(i, auto) ==
  IF i.cli # Silent THEN (IF i.cli = 0 THEN auto ELSE i.cli)
  ELSE IF i.env # Silent THEN (IF i.env = 0 THEN auto ELSE i.env)
  ELSE IF i.project # Silent THEN (IF i.project = 0 THEN auto ELSE i.project)
  ELSE IF i.user > 0 THEN i.user ELSE auto

ASSUME BudgetAsDocumented ==
  \A i \in [cli : Said, env : Said, project : Said, user : Said,
            detected : Hosts, turbo : BOOLEAN] :
    LET auto == resolve_workers([i EXCEPT !.cli = 0])
    IN  /\ resolve_workers(i) = Expected(i, auto)
        /\ i.turbo => auto = Most(i.detected, 1)
        /\ ~i.turbo => auto \in 1 .. 8 /\ (auto = 1 \/ 2 * auto <= i.detected)

ASSUME QuotaAsDocumented ==
  \A affinity \in Hosts, own, root, v1 \in Readings :
    LET budget == detect_cpu_budget(affinity, CgroupBudget(own, root, v1))
        none == {<<>>, <<Silent, 2>>, <<5, 0>>}
        limits == ({own, root} \ none) \cup ({v1} \ (none \cup {<<0, 2>>}))
    IN  /\ budget >= 1 /\ budget <= Most(affinity, 1)
        /\ limits = {} => budget = Most(affinity, 1)
        /\ own \in limits => budget = 1 \/ budget * own[2] <= own[1]

ASSUME MemoryAsDocumented ==
  \A available, floor \in 0 .. 9, v2, v1 \in {Silent, 0, 3, 8} :
    LET limit == effective_memory_limit(available, v2, v1, floor)
    IN  /\ limit >= floor
        /\ limit = floor \/ \A n \in {available, v2, v1} \ {Silent} : 4 * limit <= n
===============================================================================
