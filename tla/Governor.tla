------------------------------- MODULE Governor -------------------------------
(***************************************************************************)
(* The governor: the single source of parallelism in a stuffr process      *)
(* (crates/stuffr-core/src/governor/mod.rs).  Units of work, each on its   *)
(* own thread, acquire a LeaseSet of workers and memory under one mutex,   *)
(* wait on a condition variable while no worker is free, and release by    *)
(* dropping the lease.                                                     *)
(*                                                                         *)
(* A critical section of the mutex is one action.  Waiting is two: the     *)
(* thread falls asleep inside its critical section (cv.wait releases the   *)
(* lock), is made ready by a notification or spuriously, and then runs the *)
(* loop body again under the lock, racing every other ready thread for it. *)
(***************************************************************************)
EXTENDS Naturals, FiniteSets, Totals

CONSTANTS
  Units,        (* units of work, one thread each                            *)
  Workers,      (* Governor.workers, already clamped to at least one         *)
  MemoryLimit,  (* Governor.memory_limit                                     *)
  U64Max,       (* the largest value of a u64, where arithmetic saturates    *)
  Wants,        (* the `want` arguments callers pass to acquire_many         *)
  PerWorker,    (* the `per_worker_bytes` arguments callers pass             *)
  Acquisitions  (* bound: how many times each unit acquires                  *)

ASSUME GovernorAssumption ==
  /\ IsFiniteSet(Units)
  /\ Workers \in Nat \ {0}
  /\ U64Max \in Nat
  /\ MemoryLimit \in 0 .. U64Max
  /\ Wants \subseteq Nat
  /\ PerWorker \subseteq 0 .. U64Max
  /\ Acquisitions \in Nat

VARIABLES
  workers_out,  (* GovState.workers_out                                      *)
  bytes_out,    (* GovState.bytes_out                                        *)
  lease,        (* lease[u]: the LeaseSet u holds; no workers is no lease    *)
  ask,          (* ask[u]: the arguments of u's pending acquire_many         *)
  pc,           (* where each unit is                                        *)
  left          (* left[u]: acquisitions u may still make                    *)

vars == <<workers_out, bytes_out, lease, ask, pc, left>>

NoLease == [workers |-> 0, bytes |-> 0]
Leases == [workers : Nat, bytes : 0 .. U64Max]
Requests == [want : Nat, per : 0 .. U64Max]

Least(a, b) == IF a <= b THEN a ELSE b
Most(a, b) == IF a >= b THEN a ELSE b
SatSub(a, b) == IF a >= b THEN a - b ELSE 0
Saturated(n) == Least(n, U64Max)

(* Variants of Grant: one without the cut to the free workers, one that      *)
(* sizes memory by the whole limit as the hint workers_for does.            *)
GrantWholeWant(r) ==
  LET by_mem == IF r.per = 0 THEN r.want
                ELSE SatSub(MemoryLimit, bytes_out) \div r.per
  IN  Most(Least(r.want, by_mem), 1)

GrantWholeMemory(r) ==
  LET by_mem == IF r.per = 0 THEN r.want ELSE MemoryLimit \div r.per
  IN  Most(Least(Least(r.want, Workers - workers_out), by_mem), 1)

(* acquire_many's grant: what was asked for, cut to the free workers and to *)
(* the free memory, but never less than one worker.                         *)
Grant(r) ==
  LET by_mem == IF r.per = 0 THEN r.want
                ELSE SatSub(MemoryLimit, bytes_out) \div r.per
  IN  Most(Least(Least(r.want, Workers - workers_out), by_mem), 1)

Init ==
  /\ workers_out = 0
  /\ bytes_out = 0
  /\ lease = [u \in Units |-> NoLease]
  /\ ask = [u \in Units |-> [want |-> 1, per |-> 0]]
  /\ pc = [u \in Units |-> "idle"]
  /\ left = [u \in Units |-> Acquisitions]

(* A unit calls acquire_many and heads for the mutex.                       *)
Call(u) ==
  /\ pc[u] = "idle"
  /\ left[u] > 0
  /\ \E w \in Wants, p \in PerWorker :
       ask' = [ask EXCEPT ![u] = [want |-> Most(w, 1), per |-> p]]
  /\ pc' = [pc EXCEPT ![u] = "ready"]
  /\ left' = [left EXCEPT ![u] = @ - 1]
  /\ UNCHANGED <<workers_out, bytes_out, lease>>

(* The loop body under the lock, with a worker free.                        *)
Acquire(u) ==
  /\ pc[u] = "ready"
  /\ workers_out < Workers
  /\ LET n == Grant(ask[u])
         b == Saturated(ask[u].per * n)
     IN  /\ workers_out' = workers_out + n
         /\ bytes_out' = Saturated(bytes_out + b)
         /\ lease' = [lease EXCEPT ![u] = [workers |-> n, bytes |-> b]]
  /\ pc' = [pc EXCEPT ![u] = "holding"]
  /\ UNCHANGED <<ask, left>>

(* The loop body under the lock, with none free: cv.wait.                   *)
Wait(u) ==
  /\ pc[u] = "ready"
  /\ workers_out >= Workers
  /\ pc' = [pc EXCEPT ![u] = "asleep"]
  /\ UNCHANGED <<workers_out, bytes_out, lease, ask, left>>

(* A condition variable may wake a waiter for no reason.                    *)
SpuriousWake(u) ==
  /\ pc[u] = "asleep"
  /\ pc' = [pc EXCEPT ![u] = "ready"]
  /\ UNCHANGED <<workers_out, bytes_out, lease, ask, left>>

(* try_acquire: one worker and no memory, or nothing at once.               *)
TryAcquire(u) ==
  /\ pc[u] = "idle"
  /\ left[u] > 0
  /\ left' = [left EXCEPT ![u] = @ - 1]
  /\ \/ /\ workers_out >= Workers
        /\ UNCHANGED <<workers_out, lease, pc>>
     \/ /\ workers_out < Workers
        /\ workers_out' = workers_out + 1
        /\ lease' = [lease EXCEPT ![u] = [workers |-> 1, bytes |-> 0]]
        /\ pc' = [pc EXCEPT ![u] = "holding"]
  /\ UNCHANGED <<bytes_out, ask>>

(* Variants of Notified: no notification, and cv.notify_one.                *)
NotifiedNone(p) == p

NotifiedOne(p) ==
  LET sleepers == {u \in Units : p[u] = "asleep"}
  IN  IF sleepers = {} THEN p
      ELSE [p EXCEPT ![CHOOSE u \in sleepers : TRUE] = "ready"]

(* cv.notify_all.                                                           *)
Notified(p) == [u \in Units |-> IF p[u] = "asleep" THEN "ready" ELSE p[u]]

(* Variant of Drop: no bytes back.                                          *)
DropNoBytes(u) ==
  /\ pc[u] = "holding"
  /\ workers_out' = SatSub(workers_out, lease[u].workers)
  /\ lease' = [lease EXCEPT ![u] = NoLease]
  /\ pc' = Notified([pc EXCEPT ![u] = "idle"])
  /\ UNCHANGED <<bytes_out, ask, left>>

(* LeaseSet::drop.                                                          *)
Drop(u) ==
  /\ pc[u] = "holding"
  /\ workers_out' = SatSub(workers_out, lease[u].workers)
  /\ bytes_out' = SatSub(bytes_out, lease[u].bytes)
  /\ lease' = [lease EXCEPT ![u] = NoLease]
  /\ pc' = Notified([pc EXCEPT ![u] = "idle"])
  /\ UNCHANGED <<ask, left>>

(* Every unit has made its acquisitions and given everything back.          *)
Finished ==
  /\ \A u \in Units : pc[u] = "idle" /\ left[u] = 0
  /\ UNCHANGED vars

Step(u) ==
  \/ Call(u) \/ Acquire(u) \/ Wait(u) \/ SpuriousWake(u)
  \/ TryAcquire(u) \/ Drop(u)

Next == (\E u \in Units : Step(u)) \/ Finished

Spec == Init /\ [][Next]_vars

(* The scheduler lets a thread that wants the mutex take it sooner or later, *)
(* and a unit of work ends (its encoder is dropped with the lease).  Nothing *)
(* obliges a unit to acquire, and no fairness is asked of spurious wakeups.  *)
Fairness == \A u \in Units : WF_vars(Acquire(u) \/ Wait(u)) /\ WF_vars(Drop(u))

FairSpec == Spec /\ Fairness

-------------------------------------------------------------------------------
(* What the units hold, as shares to sum.                                   *)
WorkersHeld == [u \in Units |-> lease[u].workers]
BytesHeld == [u \in Units |-> lease[u].bytes]

(* The bytes of the leases of more than one worker: parallelism a caller    *)
(* was given beyond the one worker it needs to make progress.               *)
VoluntaryBytes ==
  [u \in Units |-> IF lease[u].workers > 1 THEN lease[u].bytes ELSE 0]

(* Types of the state, and a unit holds workers exactly while it is in      *)
(* "holding".                                                               *)
TypeOK ==
  /\ workers_out \in 0 .. Workers
  /\ bytes_out \in 0 .. U64Max
  /\ lease \in [Units -> Leases]
  /\ ask \in [Units -> Requests]
  /\ pc \in [Units -> {"idle", "ready", "asleep", "holding"}]
  /\ left \in [Units -> 0 .. Acquisitions]
  /\ \A u \in Units : (lease[u].workers > 0) <=> (pc[u] = "holding")

(* The counter the mutex guards is exactly the sum of the live leases, and  *)
(* so however calls, drops and wakeups interleave the workers in use never  *)
(* outnumber the pool ("their product can never exceed the budget").        *)
WorkersAccounted == workers_out = Total(Units, WorkersHeld) /\ Total(Units, WorkersHeld) <= Workers

(* Saturation only ever forgets: bytes_out never claims a reservation no    *)
(* lease holds, so once every lease is dropped the whole budget is back.    *)
NothingReservedTwice == bytes_out <= Total(Units, BytesHeld)

(* "The memory budget bounds voluntary parallelism": whatever the floor of  *)
(* one worker overcommits, the leases of two workers or more together stay  *)
(* within the limit, unless a saturated counter has forgotten bytes that    *)
(* are still leased.                                                        *)
VoluntaryWithinBudget ==
  bytes_out = Total(Units, BytesHeld) => Total(Units, VoluntaryBytes) <= MemoryLimit

(* No wakeup is lost: a unit sleeps only while every worker is taken, so a  *)
(* drop between its check and its sleep cannot leave it asleep beside a     *)
(* free worker.                                                             *)
NoLostWakeup == \A u \in Units : pc[u] = "asleep" => workers_out = Workers

(* Every call of acquire_many returns with a lease: no unit is stranded     *)
(* behind the others' wants, however large.                                 *)
EveryCallIsServed == \A u \in Units : pc[u] = "ready" ~> pc[u] = "holding"

(* The governor does what the abstract pool promises.                       *)
Pool == INSTANCE CorePool WITH free <- Workers - workers_out, held <- WorkersHeld
ImplementsPool == Pool!Spec

===============================================================================
