----------------------------- MODULE ThreadBudget -----------------------------
(***************************************************************************)
(* What a governor is made with (governor/budget.rs, cgroup.rs and the head *)
(* of mod.rs): the workers the flags, the environment and the               *)
(* configuration ask for, or else half of what the host and its control     *)
(* groups give, and a quarter of their memory.  A source that says nothing, *)
(* or cannot be read, is Silent.                                            *)
(***************************************************************************)
EXTENDS Integers, Sequences

Silent == -1

DEFAULT_CAP == 8

AtMost(n, cap) == IF n > cap THEN cap ELSE n
AtLeast(n, floor) == IF n < floor THEN floor ELSE n

(* The first of the sources that expresses an opinion.                      *)
FirstOpinion(sources) ==
  LET said == {k \in DOMAIN sources : sources[k] # Silent}
  IN  IF said = {} THEN Silent
      ELSE sources[CHOOSE k \in said : \A j \in said : k <= j]

(* cpu.max, a quota and a period: whole CPUs, at least one; "max" is no     *)
(* limit.                                                                   *)
ParseQuota(reading) ==
  IF reading = <<>> \/ reading[1] = Silent \/ reading[2] = 0 THEN Silent
  ELSE AtLeast(reading[1] \div reading[2], 1)

(* cfs_quota_us and cfs_period_us: a quota of 0 is none either.             *)
ParseQuotaV1(reading) ==
  IF reading # <<>> /\ reading[1] = 0 THEN Silent ELSE ParseQuota(reading)

(* The process's own control group, the root's, then v1's.                  *)
CgroupBudget(own, root, v1) ==
  FirstOpinion(<<ParseQuota(own), ParseQuota(root), ParseQuotaV1(v1)>>)

detect_cpu_budget(affinity, quota) ==
  IF quota = Silent THEN AtLeast(affinity, 1) ELSE AtLeast(AtMost(affinity, quota), 1)

(* An explicit 0 is an opinion, "auto", which no source below it overrides. *)
resolve_workers(i) ==
  LET explicit == FirstOpinion(<<i.cli, i.env, i.project, i.user>>)
      detected == AtLeast(i.detected, 1)
  IN  IF explicit \notin {Silent, 0} THEN explicit
      ELSE IF i.turbo THEN detected
      ELSE AtLeast(AtMost(detected \div 2, DEFAULT_CAP), 1)

(* The least of what is free and what the control groups allow, a quarter.  *)
effective_memory_limit(available, v2, v1, floor) ==
  LET under2 == IF v2 = Silent THEN available ELSE AtMost(available, v2)
      under1 == IF v1 = Silent THEN under2 ELSE AtMost(under2, v1)
  IN  AtLeast(under1 \div 4, floor)

Opinions == Nat \cup {Silent}
Inputs ==
  [cli : Opinions, env : Opinions, project : Opinions, user : Opinions,
   detected : Nat, turbo : BOOLEAN]
===============================================================================
