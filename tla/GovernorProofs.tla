---------------------------- MODULE GovernorProofs ----------------------------
(***************************************************************************)
(* Proofs about Governor, for every set of units, pool and budget.         *)
(***************************************************************************)
EXTENDS Governor, ThreadBudget, FiniteSetTheorems, TLAPS

-------------------------------------------------------------------------------
(* What the sums of Totals are worth when one share changes.                *)

(* One share: n elements.                                                   *)
LEMMA SharePart ==
  ASSUME NEW d, NEW n \in Nat
  PROVE  /\ IsFiniteSet({d} \X (1 .. n))
         /\ Cardinality({d} \X (1 .. n)) = n
  <1>1. IsFiniteSet({d}) /\ Cardinality({d}) = 1
    BY FS_Singleton
  <1>2. IsFiniteSet(1 .. n) /\ Cardinality(1 .. n) = n
    BY FS_Interval
  <1>3. /\ IsFiniteSet({d} \X (1 .. n))
        /\ Cardinality({d} \X (1 .. n)) = Cardinality({d}) * Cardinality(1 .. n)
    BY <1>1, <1>2, FS_Product
  <1>. QED BY <1>1, <1>2, <1>3

(* The parts of natural shares over a finite set are finitely many, so the  *)
(* total is a natural number.                                               *)
LEMMA TotalType ==
  ASSUME NEW D, IsFiniteSet(D), NEW amount \in [D -> Nat]
  PROVE  IsFiniteSet(Parts(D, amount)) /\ Total(D, amount) \in Nat
  <1>. DEFINE share == [d \in D |-> {d} \X (1 .. amount[d])]
              S == {share[d] : d \in D}
  <1>1. share \in Surjection(D, S)
    BY DEF Surjection
  <1>2. IsFiniteSet(S)
    <2>. HIDE DEF share, S
    <2>. QED BY <1>1, FS_Surjection
  <1>3. \A T \in S : IsFiniteSet(T)
    <2>1. ASSUME NEW d \in D PROVE IsFiniteSet(share[d])
      <3>1. amount[d] \in Nat
        OBVIOUS
      <3>. QED BY <3>1, SharePart
    <2>. QED BY <2>1
  <1>4. IsFiniteSet(UNION S)
    <2>. HIDE DEF S
    <2>. QED BY <1>2, <1>3, FS_UNION
  <1>5. UNION S = Parts(D, amount)
    BY DEF Parts
  <1>6. IsFiniteSet(Parts(D, amount))
    <2>. HIDE DEF S
    <2>. QED BY <1>4, <1>5
  <1>. QED BY <1>6, FS_CardinalityType DEF Total

(* Nothing shared, nothing in total.                                        *)
LEMMA TotalOfNothing ==
  ASSUME NEW D, NEW amount \in [D -> Nat], \A d \in D : amount[d] = 0
  PROVE  Total(D, amount) = 0
  <1>1. Parts(D, amount) = {}
    BY DEF Parts
  <1>. QED BY <1>1, FS_EmptySet DEF Total

(* When only d's share differs, so does the total, by as much.              *)
LEMMA TotalUpdate ==
  ASSUME NEW D, IsFiniteSet(D), NEW d \in D,
         NEW amount \in [D -> Nat], NEW after \in [D -> Nat],
         \A e \in D : e # d => after[e] = amount[e]
  PROVE  /\ amount[d] <= Total(D, amount)
         /\ Total(D, after) = Total(D, amount) - amount[d] + after[d]
  <1>. DEFINE old == {d} \X (1 .. amount[d])
              new == {d} \X (1 .. after[d])
              rest == Parts(D, amount) \ old
  <1>1. amount[d] \in Nat /\ after[d] \in Nat
    OBVIOUS
  <1>2. /\ IsFiniteSet(old) /\ Cardinality(old) = amount[d]
        /\ IsFiniteSet(new) /\ Cardinality(new) = after[d]
    BY <1>1, SharePart
  <1>3. IsFiniteSet(Parts(D, amount)) /\ Total(D, amount) \in Nat
    BY TotalType
  <1>4. old \subseteq Parts(D, amount)
    BY DEF Parts
  <1>5. Parts(D, after) = rest \cup new /\ rest \cap new = {}
    <2>1. ASSUME NEW p \in rest
          PROVE  p \in Parts(D, after) /\ p \notin new
      <3>1. PICK e \in D : p \in {e} \X (1 .. amount[e])
        BY <2>1 DEF Parts
      <3>2. e # d
        BY <2>1, <3>1
      <3>3. p \in {e} \X (1 .. after[e])
        BY <3>1, <3>2
      <3>. QED BY <3>1, <3>2, <3>3 DEF Parts
    <2>2. new \subseteq Parts(D, after)
      BY DEF Parts
    <2>3. ASSUME NEW p \in Parts(D, after), p \notin new
          PROVE  p \in rest
      <3>1. PICK e \in D : p \in {e} \X (1 .. after[e])
        BY <2>3 DEF Parts
      <3>2. e # d
        BY <2>3, <3>1
      <3>3. p \in {e} \X (1 .. amount[e])
        BY <3>1, <3>2
      <3>4. p \in Parts(D, amount) /\ p \notin old
        BY <3>1, <3>2, <3>3 DEF Parts
      <3>. QED BY <3>4
    <2>. HIDE DEF rest, new
    <2>. QED BY <2>1, <2>2, <2>3
  <1>6. IsFiniteSet(rest) /\ Cardinality(rest) = Total(D, amount) - amount[d]
    <2>1. /\ IsFiniteSet(rest)
          /\ Cardinality(rest)
               = Cardinality(Parts(D, amount)) - Cardinality(Parts(D, amount) \cap old)
      BY <1>3, FS_Difference
    <2>2. Parts(D, amount) \cap old = old
      BY <1>4
    <2>. QED BY <2>1, <2>2, <1>2 DEF Total
  <1>7. amount[d] <= Total(D, amount)
    BY <1>2, <1>3, <1>4, FS_Subset DEF Total
  <1>8. Cardinality(rest \cup new)
          = Cardinality(rest) + Cardinality(new) - Cardinality(rest \cap new)
    <2>. HIDE DEF rest, new
    <2>. QED BY <1>2, <1>6, FS_Union
  <1>9. Cardinality(rest \cap new) = 0
    BY <1>5, FS_EmptySet
  <1>10. Total(D, after) = Cardinality(rest \cup new)
    BY <1>5 DEF Total
  <1>. HIDE DEF rest, new
  <1>. QED BY <1>1, <1>2, <1>3, <1>6, <1>7, <1>8, <1>9, <1>10

(* Shares that are nowhere above others make no greater total.              *)
LEMMA TotalMonotone ==
  ASSUME NEW D, IsFiniteSet(D), NEW less \in [D -> Nat], NEW more \in [D -> Nat],
         \A d \in D : less[d] <= more[d]
  PROVE  Total(D, less) <= Total(D, more)
  <1>1. Parts(D, less) \subseteq Parts(D, more)
    <2>1. ASSUME NEW d \in D PROVE 1 .. less[d] \subseteq 1 .. more[d]
      <3>1. less[d] \in Nat /\ more[d] \in Nat /\ less[d] <= more[d]
        OBVIOUS
      <3>. QED BY <3>1
    <2>2. ASSUME NEW p \in Parts(D, less) PROVE p \in Parts(D, more)
      <3>1. PICK d \in D : p \in {d} \X (1 .. less[d])
        BY DEF Parts
      <3>2. p \in {d} \X (1 .. more[d])
        BY <2>1, <3>1
      <3>. QED BY <3>2 DEF Parts
    <2>. QED BY <2>2
  <1>2. IsFiniteSet(Parts(D, more))
    BY TotalType
  <1>. QED BY <1>1, <1>2, FS_Subset DEF Total

-------------------------------------------------------------------------------
(* A grant is between one worker and the workers still free.                *)
LEMMA GrantBounds ==
  ASSUME TypeOK, NEW u \in Units, workers_out < Workers
  PROVE  /\ Grant(ask[u]) \in Nat \ {0}
         /\ workers_out + Grant(ask[u]) <= Workers
  <1>. DEFINE r == ask[u]
              by_mem == IF r.per = 0 THEN r.want
                        ELSE SatSub(MemoryLimit, bytes_out) \div r.per
  <1>1. r.want \in Nat /\ r.per \in Nat
    BY GovernorAssumption DEF TypeOK, Requests
  <1>2. by_mem \in Nat
    <2>1. SatSub(MemoryLimit, bytes_out) \in Nat
      BY GovernorAssumption DEF TypeOK, SatSub
    <2>2. CASE r.per = 0
      BY <1>1, <2>2
    <2>3. CASE r.per # 0
      <3>1. \A a \in Nat, b \in Nat \ {0} : a \div b \in Nat
        OBVIOUS
      <3>. QED BY <1>1, <2>1, <2>3, <3>1
    <2>. QED BY <2>2, <2>3
  <1>3. Workers - workers_out \in Nat \ {0}
    BY GovernorAssumption DEF TypeOK
  <1>4. Grant(r) = Most(Least(Least(r.want, Workers - workers_out), by_mem), 1)
    BY DEF Grant
  <1>. HIDE DEF r, by_mem
  <1>5. Grant(r) \in Nat \ {0} /\ Grant(r) <= Workers - workers_out
    BY <1>1, <1>2, <1>3, <1>4 DEF Most, Least
  <1>6. workers_out \in Nat /\ Workers \in Nat
    BY GovernorAssumption DEF TypeOK
  <1>7. workers_out + Grant(r) <= Workers
    BY <1>5, <1>6
  <1>. QED BY <1>5, <1>7 DEF r

(* Saturating arithmetic stays within a u64.                                *)
LEMMA SaturatedType ==
  ASSUME NEW n \in Nat
  PROVE  Saturated(n) \in 0 .. U64Max /\ Saturated(n) <= n
  BY GovernorAssumption DEF Saturated, Least

LEMMA TypeStep ==
  ASSUME TypeOK, [Next]_vars
  PROVE  TypeOK'
  <1>1. ASSUME NEW u \in Units, Call(u) PROVE TypeOK'
    <2>1. ask' \in [Units -> Requests]
      BY <1>1, GovernorAssumption DEF Call, TypeOK, Requests, Most
    <2>2. left' \in [Units -> 0 .. Acquisitions]
      BY <1>1, GovernorAssumption DEF Call, TypeOK
    <2>. QED BY <1>1, <2>1, <2>2 DEF Call, TypeOK
  <1>2. ASSUME NEW u \in Units, Acquire(u) PROVE TypeOK'
    <2>. DEFINE n == Grant(ask[u])
                b == Saturated(ask[u].per * n)
    <2>1. n \in Nat \ {0} /\ workers_out + n <= Workers
      BY <1>2, GrantBounds DEF Acquire
    <2>2. ask[u].per \in Nat /\ bytes_out \in Nat /\ workers_out \in Nat
      BY GovernorAssumption DEF TypeOK, Requests
    <2>3. /\ workers_out' = workers_out + n
          /\ bytes_out' = Saturated(bytes_out + b)
          /\ lease' = [lease EXCEPT ![u] = [workers |-> n, bytes |-> b]]
          /\ pc' = [pc EXCEPT ![u] = "holding"]
          /\ UNCHANGED <<ask, left>>
      BY <1>2 DEF Acquire
    <2>. HIDE DEF n
    <2>4. ask[u].per * n \in Nat
      BY <2>1, <2>2
    <2>5. b \in 0 .. U64Max
      BY <2>4, SaturatedType
    <2>. HIDE DEF b
    <2>6. bytes_out + b \in Nat
      BY <2>2, <2>5
    <2>7. bytes_out' \in 0 .. U64Max
      BY <2>3, <2>6, SaturatedType
    <2>8. workers_out' \in 0 .. Workers
      BY <2>1, <2>2, <2>3, GovernorAssumption
    <2>9. /\ lease' \in [Units -> Leases]
          /\ pc' \in [Units -> {"idle", "ready", "asleep", "holding"}]
          /\ \A v \in Units : (lease'[v].workers > 0) <=> (pc'[v] = "holding")
      BY <2>1, <2>3, <2>5 DEF TypeOK, Leases
    <2>. QED BY <2>3, <2>7, <2>8, <2>9 DEF TypeOK
  <1>3. ASSUME NEW u \in Units, Wait(u) PROVE TypeOK'
    BY <1>3 DEF Wait, TypeOK
  <1>4. ASSUME NEW u \in Units, SpuriousWake(u) PROVE TypeOK'
    BY <1>4 DEF SpuriousWake, TypeOK
  <1>5. ASSUME NEW u \in Units, TryAcquire(u) PROVE TypeOK'
    <2>1. left' \in [Units -> 0 .. Acquisitions]
      BY <1>5, GovernorAssumption DEF TryAcquire, TypeOK
    <2>2. CASE UNCHANGED <<workers_out, lease, pc>>
      BY <1>5, <2>1, <2>2 DEF TryAcquire, TypeOK
    <2>3. CASE /\ workers_out < Workers
               /\ workers_out' = workers_out + 1
               /\ lease' = [lease EXCEPT ![u] = [workers |-> 1, bytes |-> 0]]
               /\ pc' = [pc EXCEPT ![u] = "holding"]
      <3>1. workers_out' \in 0 .. Workers
        BY <2>3, GovernorAssumption DEF TypeOK
      <3>2. /\ lease' \in [Units -> Leases]
            /\ \A v \in Units : (lease'[v].workers > 0) <=> (pc'[v] = "holding")
        BY <2>3, GovernorAssumption DEF TypeOK, Leases
      <3>. QED BY <1>5, <2>1, <2>3, <3>1, <3>2 DEF TryAcquire, TypeOK
    <2>. QED BY <1>5, <2>2, <2>3 DEF TryAcquire
  <1>6. ASSUME NEW u \in Units, Drop(u) PROVE TypeOK'
    <2>1. lease[u].workers \in Nat /\ lease[u].bytes \in Nat
      BY GovernorAssumption DEF TypeOK, Leases
    <2>2. workers_out' \in 0 .. Workers /\ bytes_out' \in 0 .. U64Max
      BY <1>6, <2>1, GovernorAssumption DEF Drop, TypeOK, SatSub
    <2>3. lease' \in [Units -> Leases]
      BY <1>6, GovernorAssumption DEF Drop, TypeOK, Leases, NoLease
    <2>4. /\ pc' \in [Units -> {"idle", "ready", "asleep", "holding"}]
          /\ pc'[u] = "idle"
          /\ \A v \in Units \ {u} : pc'[v] = "holding" <=> pc[v] = "holding"
      BY <1>6 DEF Drop, TypeOK, Notified
    <2>5. ASSUME NEW v \in Units
          PROVE  (lease'[v].workers > 0) <=> (pc'[v] = "holding")
      <3>1. CASE v = u
        <4>1. lease'[v].workers = 0
          BY <1>6, <3>1 DEF Drop, TypeOK, NoLease
        <4>. QED BY <2>4, <3>1, <4>1
      <3>2. CASE v # u
        <4>1. lease'[v] = lease[v]
          BY <1>6, <3>2 DEF Drop, TypeOK
        <4>. QED BY <2>4, <3>2, <4>1 DEF TypeOK
      <3>. QED BY <3>1, <3>2
    <2>. QED BY <1>6, <2>2, <2>3, <2>4, <2>5 DEF Drop, TypeOK
  <1>7. CASE UNCHANGED vars
    BY <1>7 DEF vars, TypeOK
  <1>. QED BY <1>1, <1>2, <1>3, <1>4, <1>5, <1>6, <1>7 DEF Next, Step, Finished

LEMMA TypeInit == Init => TypeOK
  BY GovernorAssumption DEF Init, TypeOK, NoLease, Leases, Requests

(* The state keeps its types, and the workers out never outnumber the pool. *)
THEOREM TypeCorrect == Spec => []TypeOK
  <1>1. TypeOK /\ [Next]_vars => TypeOK'
    BY TypeStep
  <1>. QED BY TypeInit, <1>1, PTL DEF Spec

-------------------------------------------------------------------------------
LEMMA FiniteUnits == IsFiniteSet(Units)
  BY GovernorAssumption

(* How the sums move with the leases: replacing one unit's lease moves each *)
(* total by the difference of the two.                                      *)
LEMMA HeldAfter ==
  ASSUME TypeOK, NEW u \in Units, NEW l \in Leases,
         lease' = [lease EXCEPT ![u] = l]
  PROVE  /\ Total(Units, WorkersHeld) \in Nat
         /\ lease[u].workers <= Total(Units, WorkersHeld)
         /\ Total(Units, WorkersHeld')
              = Total(Units, WorkersHeld) - lease[u].workers + l.workers
         /\ Total(Units, BytesHeld) \in Nat
         /\ lease[u].bytes <= Total(Units, BytesHeld)
         /\ Total(Units, BytesHeld')
              = Total(Units, BytesHeld) - lease[u].bytes + l.bytes
  <1>1. lease \in [Units -> Leases] /\ lease' \in [Units -> Leases]
    BY DEF TypeOK
  <1>2. \A x \in Leases : x.workers \in Nat /\ x.bytes \in Nat
    BY GovernorAssumption DEF Leases
  <1>3. /\ WorkersHeld \in [Units -> Nat] /\ WorkersHeld' \in [Units -> Nat]
        /\ BytesHeld \in [Units -> Nat] /\ BytesHeld' \in [Units -> Nat]
    BY <1>1, <1>2 DEF WorkersHeld, BytesHeld
  <1>4. /\ \A v \in Units : v # u => WorkersHeld'[v] = WorkersHeld[v]
        /\ \A v \in Units : v # u => BytesHeld'[v] = BytesHeld[v]
    BY <1>1 DEF WorkersHeld, BytesHeld
  <1>5. /\ WorkersHeld[u] = lease[u].workers /\ WorkersHeld'[u] = l.workers
        /\ BytesHeld[u] = lease[u].bytes /\ BytesHeld'[u] = l.bytes
    BY <1>1 DEF WorkersHeld, BytesHeld
  <1>6. /\ Total(Units, WorkersHeld) \in Nat /\ Total(Units, BytesHeld) \in Nat
    BY <1>3, TotalType, FiniteUnits
  <1>7. /\ WorkersHeld[u] <= Total(Units, WorkersHeld)
        /\ Total(Units, WorkersHeld')
             = Total(Units, WorkersHeld) - WorkersHeld[u] + WorkersHeld'[u]
    BY <1>3, <1>4, TotalUpdate, FiniteUnits
  <1>8. /\ BytesHeld[u] <= Total(Units, BytesHeld)
        /\ Total(Units, BytesHeld')
             = Total(Units, BytesHeld) - BytesHeld[u] + BytesHeld'[u]
    BY <1>3, <1>4, TotalUpdate, FiniteUnits
  <1>. QED BY <1>5, <1>6, <1>7, <1>8

(* The counters and the leases agree.                                       *)
CountersAgree ==
  /\ TypeOK
  /\ \A u \in Units : pc[u] # "holding" => lease[u].bytes = 0
  /\ workers_out = Total(Units, WorkersHeld)
  /\ bytes_out <= Total(Units, BytesHeld)

LEMMA CountersInit == Init => CountersAgree
  <1>. SUFFICES ASSUME Init PROVE CountersAgree
    OBVIOUS
  <1>1. TypeOK
    BY TypeInit
  <1>2. /\ WorkersHeld \in [Units -> Nat] /\ \A u \in Units : WorkersHeld[u] = 0
        /\ BytesHeld \in [Units -> Nat] /\ \A u \in Units : BytesHeld[u] = 0
    BY DEF Init, WorkersHeld, BytesHeld, NoLease
  <1>3. Total(Units, WorkersHeld) = 0 /\ Total(Units, BytesHeld) = 0
    BY <1>2, TotalOfNothing
  <1>. QED BY <1>1, <1>3 DEF Init, CountersAgree, NoLease

(* A unit that takes a lease moves both sides of each equation alike.       *)
LEMMA CountersTake ==
  ASSUME CountersAgree, TypeOK', NEW u \in Units, pc[u] # "holding",
         NEW l \in Leases,
         lease' = [lease EXCEPT ![u] = l],
         pc' = [pc EXCEPT ![u] = "holding"],
         workers_out' = workers_out + l.workers,
         bytes_out' <= bytes_out + l.bytes
  PROVE  CountersAgree'
  <1>. USE DEF CountersAgree
  <1>1. lease[u].workers = 0 /\ lease[u].bytes = 0
    <2>1. lease[u].workers \in Nat
      BY DEF TypeOK, Leases
    <2>. QED BY <2>1 DEF TypeOK
  <1>2. l.workers \in Nat /\ l.bytes \in Nat
    BY GovernorAssumption DEF Leases
  <1>3. /\ Total(Units, WorkersHeld) \in Nat
        /\ Total(Units, WorkersHeld')
             = Total(Units, WorkersHeld) - lease[u].workers + l.workers
        /\ Total(Units, BytesHeld) \in Nat
        /\ Total(Units, BytesHeld')
             = Total(Units, BytesHeld) - lease[u].bytes + l.bytes
    BY HeldAfter
  <1>4. Total(Units, WorkersHeld') = Total(Units, WorkersHeld) + l.workers
    BY <1>1, <1>2, <1>3
  <1>5. Total(Units, BytesHeld') = Total(Units, BytesHeld) + l.bytes
    BY <1>1, <1>2, <1>3
  <1>6. bytes_out \in Nat /\ bytes_out' \in Nat
    BY GovernorAssumption DEF TypeOK
  <1>7. \A v \in Units : pc'[v] # "holding" => lease'[v].bytes = 0
    BY DEF TypeOK
  <1>8. bytes_out' <= Total(Units, BytesHeld')
    BY <1>2, <1>3, <1>5, <1>6
  <1>9. workers_out' = Total(Units, WorkersHeld')
    BY <1>4
  <1>. QED BY <1>7, <1>8, <1>9

LEMMA CountersDrop ==
  ASSUME CountersAgree, TypeOK', NEW u \in Units, Drop(u)
  PROVE  CountersAgree'
  <1>. USE DEF CountersAgree
  <1>1. /\ lease[u].workers \in Nat /\ lease[u].bytes \in Nat
        /\ NoLease \in Leases /\ NoLease.workers = 0 /\ NoLease.bytes = 0
    BY GovernorAssumption DEF TypeOK, Leases, NoLease
  <1>2. lease' = [lease EXCEPT ![u] = NoLease]
    BY DEF Drop
  <1>3. /\ Total(Units, WorkersHeld) \in Nat
        /\ lease[u].workers <= Total(Units, WorkersHeld)
        /\ Total(Units, WorkersHeld')
             = Total(Units, WorkersHeld) - lease[u].workers + NoLease.workers
        /\ Total(Units, BytesHeld) \in Nat
        /\ lease[u].bytes <= Total(Units, BytesHeld)
        /\ Total(Units, BytesHeld')
             = Total(Units, BytesHeld) - lease[u].bytes + NoLease.bytes
    BY <1>1, <1>2, HeldAfter
  <1>6. workers_out' = Total(Units, WorkersHeld')
    BY <1>1, <1>3 DEF Drop, SatSub
  <1>7. bytes_out' <= Total(Units, BytesHeld')
    BY <1>1, <1>3, GovernorAssumption DEF Drop, SatSub, TypeOK
  <1>8. \A v \in Units : pc'[v] # "holding" => lease'[v].bytes = 0
    <2>1. \A v \in Units \ {u} : (pc'[v] = "holding" <=> pc[v] = "holding")
      BY DEF Drop, Notified, TypeOK
    <2>. QED BY <1>1, <1>2, <2>1 DEF TypeOK
  <1>. QED BY <1>6, <1>7, <1>8

LEMMA CountersStep ==
  ASSUME CountersAgree, [Next]_vars
  PROVE  CountersAgree'
  <1>0. TypeOK /\ TypeOK'
    BY TypeStep DEF CountersAgree
  <1>1. ASSUME UNCHANGED <<workers_out, bytes_out, lease>>,
               \A u \in Units : pc'[u] = "holding" <=> pc[u] = "holding"
        PROVE  CountersAgree'
    BY <1>0, <1>1 DEF CountersAgree, WorkersHeld, BytesHeld
  <1>2. ASSUME NEW u \in Units, Call(u) \/ Wait(u) \/ SpuriousWake(u)
        PROVE  CountersAgree'
    BY <1>0, <1>1, <1>2 DEF Call, Wait, SpuriousWake, TypeOK
  <1>3. ASSUME NEW u \in Units, Acquire(u) PROVE CountersAgree'
    <2>. DEFINE n == Grant(ask[u])
                b == Saturated(ask[u].per * n)
                l == [workers |-> n, bytes |-> b]
    <2>1. /\ workers_out' = workers_out + n
          /\ bytes_out' = Saturated(bytes_out + b)
          /\ lease' = [lease EXCEPT ![u] = l]
          /\ pc' = [pc EXCEPT ![u] = "holding"]
          /\ pc[u] # "holding"
      BY <1>3 DEF Acquire
    <2>2. n \in Nat
      BY <1>0, <1>3, GrantBounds DEF Acquire
    <2>3. ask[u].per \in Nat /\ bytes_out \in Nat
      BY <1>0, GovernorAssumption DEF TypeOK, Requests
    <2>. HIDE DEF n
    <2>4. ask[u].per * n \in Nat
      BY <2>2, <2>3
    <2>5. b \in 0 .. U64Max
      BY <2>4, SaturatedType
    <2>. HIDE DEF b
    <2>6. l \in Leases /\ l.workers = n /\ l.bytes = b
      BY <2>2, <2>5 DEF Leases
    <2>7. bytes_out + b \in Nat
      BY <2>3, <2>5
    <2>8. bytes_out' <= bytes_out + b
      BY <2>1, <2>7, SaturatedType
    <2>. HIDE DEF l
    <2>. QED BY <1>0, <2>1, <2>6, <2>8, CountersTake
  <1>4. ASSUME NEW u \in Units, TryAcquire(u) PROVE CountersAgree'
    <2>. DEFINE l == [workers |-> 1, bytes |-> 0]
    <2>1. CASE UNCHANGED <<workers_out, lease, pc>>
      BY <1>0, <1>1, <1>4, <2>1 DEF TryAcquire
    <2>2. CASE /\ workers_out' = workers_out + 1
               /\ lease' = [lease EXCEPT ![u] = l]
               /\ pc' = [pc EXCEPT ![u] = "holding"]
      <3>1. l \in Leases /\ l.workers = 1 /\ l.bytes = 0
        BY GovernorAssumption DEF Leases
      <3>2. bytes_out' <= bytes_out + l.bytes
        BY <1>0, <1>4, <3>1, GovernorAssumption DEF TryAcquire, TypeOK
      <3>3. pc[u] # "holding"
        BY <1>4 DEF TryAcquire
      <3>. HIDE DEF l
      <3>. QED BY <1>0, <2>2, <3>1, <3>2, <3>3, CountersTake
    <2>. QED BY <1>4, <2>1, <2>2 DEF TryAcquire
  <1>5. ASSUME NEW u \in Units, Drop(u) PROVE CountersAgree'
    BY <1>0, <1>5, CountersDrop
  <1>6. CASE UNCHANGED vars
    BY <1>1, <1>6 DEF vars
  <1>. QED BY <1>2, <1>3, <1>4, <1>5, <1>6 DEF Next, Step, Finished

LEMMA Counters == Spec => []CountersAgree
  <1>1. CountersAgree /\ [Next]_vars => CountersAgree'
    BY CountersStep
  <1>. QED BY CountersInit, <1>1, PTL DEF Spec

(* workers_out is the sum of the live leases, and never above the pool.     *)
THEOREM WorkersNeverOutnumberThePool == Spec => []WorkersAccounted
  <1>1. CountersAgree => WorkersAccounted
    BY GovernorAssumption DEF CountersAgree, WorkersAccounted, TypeOK
  <1>. QED BY Counters, <1>1, PTL

(* bytes_out claims no byte that no lease holds, saturated or not.          *)
THEOREM NoPhantomReservation == Spec => []NothingReservedTwice
  <1>1. CountersAgree => NothingReservedTwice
    BY DEF CountersAgree, NothingReservedTwice
  <1>. QED BY Counters, <1>1, PTL

-------------------------------------------------------------------------------
(* A unit is asleep only while the pool is empty.                           *)
THEOREM NoWakeupIsLost == Spec => []NoLostWakeup
  <1>1. Init => NoLostWakeup
    BY DEF Init, NoLostWakeup
  <1>2. TypeOK /\ NoLostWakeup /\ [Next]_vars => NoLostWakeup'
    <2>. SUFFICES ASSUME TypeOK, NoLostWakeup, [Next]_vars
                  PROVE  NoLostWakeup'
      OBVIOUS
    <2>1. ASSUME NEW u \in Units, Call(u) \/ SpuriousWake(u)
          PROVE  NoLostWakeup'
      BY <2>1 DEF Call, SpuriousWake, NoLostWakeup, TypeOK
    <2>2. ASSUME NEW u \in Units, Wait(u) PROVE NoLostWakeup'
      BY <2>2, GovernorAssumption DEF Wait, NoLostWakeup, TypeOK
    <2>3. ASSUME NEW u \in Units, Acquire(u) PROVE NoLostWakeup'
      BY <2>3, GovernorAssumption DEF Acquire, NoLostWakeup, TypeOK
    <2>4. ASSUME NEW u \in Units, TryAcquire(u) PROVE NoLostWakeup'
      BY <2>4, GovernorAssumption DEF TryAcquire, NoLostWakeup, TypeOK
    <2>5. ASSUME NEW u \in Units, Drop(u) PROVE NoLostWakeup'
      BY <2>5 DEF Drop, Notified, NoLostWakeup, TypeOK
    <2>6. CASE UNCHANGED vars
      BY <2>6 DEF vars, NoLostWakeup
    <2>. QED BY <2>1, <2>2, <2>3, <2>4, <2>5, <2>6 DEF Next, Step, Finished
  <1>. QED BY TypeCorrect, <1>1, <1>2, PTL DEF Spec

-------------------------------------------------------------------------------
(* Every behaviour of the governor is one of the abstract pool: a granted   *)
(* call takes cores, a drop gives them all back, and the rest is invisible. *)
THEOREM GovernorImplementsPool == Spec => ImplementsPool
  <1>1. Init => Pool!Init
    BY GovernorAssumption DEF Init, Pool!Init, WorkersHeld, NoLease
  <1>2. ASSUME CountersAgree, CountersAgree', [Next]_vars
        PROVE  [Pool!Next]_<<Workers - workers_out, WorkersHeld>>
    <2>1. /\ TypeOK /\ TypeOK' /\ workers_out \in Nat /\ workers_out' \in Nat
          /\ Workers \in Nat
      BY <1>2, GovernorAssumption DEF CountersAgree, TypeOK
    <2>2. ASSUME NEW u \in Units, NEW n \in Nat \ {0}, pc[u] # "holding",
                 lease'[u].workers = n,
                 \A v \in Units \ {u} : lease'[v] = lease[v],
                 workers_out + n <= Workers,
                 workers_out' = workers_out + n
          PROVE  Pool!Take(u)
      <3>1. WorkersHeld[u] = 0
        <4>1. lease[u].workers \in Nat
          BY <2>1 DEF TypeOK, Leases
        <4>. QED BY <2>1, <2>2, <4>1 DEF WorkersHeld, TypeOK
      <3>2. WorkersHeld' = [WorkersHeld EXCEPT ![u] = n]
        BY <2>2 DEF WorkersHeld
      <3>3. /\ n \in 1 .. (Workers - workers_out)
            /\ Workers - workers_out' = (Workers - workers_out) - n
        BY <2>1, <2>2
      <3>. QED BY <3>1, <3>2, <3>3 DEF Pool!Take
    <2>3. ASSUME NEW u \in Units, Acquire(u) PROVE Pool!Take(u)
      <3>1. /\ pc[u] # "holding"
            /\ lease'[u].workers = Grant(ask[u])
            /\ \A v \in Units \ {u} : lease'[v] = lease[v]
            /\ workers_out' = workers_out + Grant(ask[u])
        BY <2>1, <2>3 DEF Acquire, TypeOK
      <3>2. Grant(ask[u]) \in Nat \ {0} /\ workers_out + Grant(ask[u]) <= Workers
        BY <2>1, <2>3, GrantBounds DEF Acquire
      <3>. QED BY <2>2, <3>1, <3>2
    <2>4. ASSUME NEW u \in Units, TryAcquire(u), ~ UNCHANGED <<workers_out, lease>>
          PROVE  Pool!Take(u)
      <3>1. /\ pc[u] # "holding"
            /\ lease'[u].workers = 1
            /\ \A v \in Units \ {u} : lease'[v] = lease[v]
            /\ workers_out' = workers_out + 1
            /\ workers_out + 1 <= Workers
        BY <2>1, <2>4 DEF TryAcquire, TypeOK
      <3>. QED BY <2>2, <3>1
    <2>5. ASSUME NEW u \in Units, Drop(u) PROVE Pool!GiveBack(u)
      <3>1. /\ lease[u].workers \in Nat /\ lease[u].workers > 0
            /\ lease[u].workers <= workers_out
        <4>1. lease[u].workers \in Nat /\ lease[u].workers > 0
          BY <2>1, <2>5 DEF Drop, TypeOK, Leases
        <4>2. /\ NoLease \in Leases
              /\ lease' = [lease EXCEPT ![u] = NoLease]
          BY <2>5, GovernorAssumption DEF Drop, NoLease, Leases
        <4>3. lease[u].workers <= Total(Units, WorkersHeld)
          BY <2>1, <4>2, HeldAfter
        <4>. QED BY <1>2, <4>1, <4>3 DEF CountersAgree
      <3>2. WorkersHeld' = [WorkersHeld EXCEPT ![u] = 0]
        BY <2>1, <2>5 DEF Drop, WorkersHeld, NoLease, TypeOK
      <3>3. Workers - workers_out' = (Workers - workers_out) + lease[u].workers
        BY <2>1, <2>5, <3>1 DEF Drop, SatSub
      <3>4. WorkersHeld[u] = lease[u].workers
        BY DEF WorkersHeld
      <3>. QED BY <3>1, <3>2, <3>3, <3>4 DEF Pool!GiveBack
    <2>6. ASSUME UNCHANGED <<workers_out, lease>>
          PROVE  UNCHANGED <<Workers - workers_out, WorkersHeld>>
      BY <2>6 DEF WorkersHeld
    <2>7. ASSUME NEW u \in Units, Call(u) \/ Wait(u) \/ SpuriousWake(u)
          PROVE  UNCHANGED <<workers_out, lease>>
      BY <2>7 DEF Call, Wait, SpuriousWake
    <2>. QED
      BY <1>2, <2>3, <2>4, <2>5, <2>6, <2>7 DEF Next, Step, Finished, vars, Pool!Next
  <1>. QED BY Counters, <1>1, <1>2, PTL DEF Spec, ImplementsPool, Pool!Spec

-------------------------------------------------------------------------------
(* Leases without bytes have none in total; the voluntary bytes are among   *)
(* the bytes held.                                                          *)
LEMMA VoluntaryAreHeld ==
  ASSUME TypeOK
  PROVE  /\ BytesHeld \in [Units -> Nat] /\ VoluntaryBytes \in [Units -> Nat]
         /\ \A u \in Units : VoluntaryBytes[u] <= BytesHeld[u]
         /\ Total(Units, VoluntaryBytes) \in Nat /\ Total(Units, BytesHeld) \in Nat
         /\ Total(Units, VoluntaryBytes) <= Total(Units, BytesHeld)
  <1>1. \A u \in Units : lease[u].bytes \in Nat /\ lease[u].workers \in Nat
    BY GovernorAssumption DEF TypeOK, Leases
  <1>2. BytesHeld \in [Units -> Nat] /\ VoluntaryBytes \in [Units -> Nat]
    BY <1>1 DEF BytesHeld, VoluntaryBytes
  <1>3. \A u \in Units : VoluntaryBytes[u] <= BytesHeld[u]
    BY <1>1 DEF BytesHeld, VoluntaryBytes
  <1>. QED BY <1>2, <1>3, TotalType, TotalMonotone, FiniteUnits

(* A lease of one worker, or of no bytes, adds nothing voluntary; a lease   *)
(* dropped takes some away.                                                 *)
LEMMA VoluntaryNotMore ==
  ASSUME TypeOK, TypeOK', NEW u \in Units,
         \A v \in Units \ {u} : lease'[v] = lease[v],
         lease'[u].workers <= 1 \/ lease'[u].bytes = 0
  PROVE  Total(Units, VoluntaryBytes') <= Total(Units, VoluntaryBytes)
  <1>1. /\ VoluntaryBytes \in [Units -> Nat] /\ VoluntaryBytes' \in [Units -> Nat]
    <2>1. \A v \in Units : lease'[v].bytes \in Nat
      BY GovernorAssumption DEF TypeOK, Leases
    <2>. QED BY <2>1, VoluntaryAreHeld DEF VoluntaryBytes
  <1>2. ASSUME NEW v \in Units PROVE VoluntaryBytes'[v] <= VoluntaryBytes[v]
    <2>1. CASE v = u
      <3>1. VoluntaryBytes'[v] = 0
        <4>1. lease'[u].workers \in Nat
          BY DEF TypeOK, Leases
        <4>. QED BY <2>1, <4>1 DEF VoluntaryBytes
      <3>2. VoluntaryBytes[v] \in Nat
        BY <1>1
      <3>. QED BY <3>1, <3>2
    <2>2. CASE v # u
      <3>1. VoluntaryBytes'[v] = VoluntaryBytes[v]
        BY <2>2 DEF VoluntaryBytes
      <3>2. VoluntaryBytes[v] \in Nat
        BY <1>1
      <3>. QED BY <3>1, <3>2
    <2>. QED BY <2>1, <2>2
  <1>. QED BY <1>1, <1>2, TotalMonotone, FiniteUnits

(* A grant of several workers is cut to the memory that is free.            *)
LEMMA SeveralFit ==
  ASSUME TypeOK, NEW u \in Units, Grant(ask[u]) > 1, ask[u].per # 0, workers_out < Workers
  PROVE  bytes_out + ask[u].per * Grant(ask[u]) <= MemoryLimit
  <1>. DEFINE free == SatSub(MemoryLimit, bytes_out)
              by_mem == free \div ask[u].per
              n == Grant(ask[u])
  <1>1. /\ ask[u].want \in Nat /\ ask[u].per \in Nat \ {0}
        /\ bytes_out \in Nat /\ MemoryLimit \in Nat /\ free \in Nat
    BY GovernorAssumption DEF TypeOK, Requests, SatSub
  <1>2. \A a \in Nat, b \in Nat \ {0} : a \div b \in Nat /\ b * (a \div b) <= a
    OBVIOUS
  <1>3. by_mem \in Nat /\ ask[u].per * by_mem <= free
    BY <1>1, <1>2
  <1>4. Workers - workers_out \in Nat
    BY GovernorAssumption DEF TypeOK
  <1>5. n = Most(Least(Least(ask[u].want, Workers - workers_out), by_mem), 1)
    BY <1>1 DEF Grant
  <1>. HIDE DEF by_mem, free
  <1>6. n \in Nat /\ n > 1 /\ n <= by_mem
    <2>1. n > 1
      OBVIOUS
    <2>. HIDE DEF n
    <2>. QED BY <1>1, <1>3, <1>4, <1>5, <2>1 DEF Most, Least
  <1>. HIDE DEF n
  <1>7. \A a, b, c \in Nat : b <= c => a * b <= a * c
    OBVIOUS
  <1>8. ask[u].per * n <= free /\ ask[u].per * n \in Nat /\ ask[u].per * n > 0
    <2>1. \A a, b \in Nat : a > 0 /\ b > 0 => a * b > 0 /\ a * b \in Nat
      OBVIOUS
    <2>2. ask[u].per * n <= ask[u].per * by_mem
      BY <1>1, <1>3, <1>6, <1>7
    <2>3. ask[u].per * by_mem \in Nat /\ ask[u].per * n \in Nat
      BY <1>1, <1>3, <1>6
    <2>. QED BY <1>1, <1>3, <1>6, <2>1, <2>2, <2>3
  <1>9. bytes_out + ask[u].per * n <= MemoryLimit
    BY <1>1, <1>8 DEF free, SatSub
  <1>. QED BY <1>9 DEF n

(* Whatever has been granted and dropped, the leases of several workers     *)
(* stay within the limit while the counter is not saturated: a counter that *)
(* has forgotten bytes does not agree with the leases again before they are *)
(* all gone.                                                                *)
THEOREM VoluntaryStaysWithinBudget == Spec => []VoluntaryWithinBudget
  <1>1. Init => VoluntaryWithinBudget
    <2>. SUFFICES ASSUME Init PROVE VoluntaryWithinBudget
      OBVIOUS
    <2>1. /\ VoluntaryBytes \in [Units -> Nat]
          /\ \A u \in Units : VoluntaryBytes[u] = 0
      BY DEF Init, VoluntaryBytes, NoLease
    <2>2. Total(Units, VoluntaryBytes) = 0
      BY <2>1, TotalOfNothing
    <2>. QED BY <2>2, GovernorAssumption DEF VoluntaryWithinBudget
  <1>2. CountersAgree /\ CountersAgree' /\ VoluntaryWithinBudget /\ [Next]_vars
          => VoluntaryWithinBudget'
    <2>. SUFFICES ASSUME CountersAgree, CountersAgree', VoluntaryWithinBudget, [Next]_vars,
                         bytes_out' = Total(Units, BytesHeld')
                  PROVE  Total(Units, VoluntaryBytes') <= MemoryLimit
      BY DEF VoluntaryWithinBudget
    <2>1. /\ TypeOK /\ TypeOK' /\ bytes_out \in Nat /\ bytes_out' \in Nat
          /\ bytes_out <= Total(Units, BytesHeld) /\ MemoryLimit \in Nat
      BY GovernorAssumption DEF CountersAgree, TypeOK
    <2>2. /\ Total(Units, VoluntaryBytes) \in Nat /\ Total(Units, BytesHeld) \in Nat
          /\ Total(Units, VoluntaryBytes) <= Total(Units, BytesHeld)
      BY <2>1, VoluntaryAreHeld
    <2>3. /\ Total(Units, VoluntaryBytes') \in Nat /\ Total(Units, BytesHeld') \in Nat
          /\ Total(Units, VoluntaryBytes') <= Total(Units, BytesHeld')
      <3>1. \A v \in Units : lease'[v].bytes \in Nat
        BY <2>1, GovernorAssumption DEF TypeOK, Leases
      <3>2. /\ BytesHeld' \in [Units -> Nat] /\ VoluntaryBytes' \in [Units -> Nat]
            /\ \A v \in Units : VoluntaryBytes'[v] <= BytesHeld'[v]
        BY <3>1 DEF BytesHeld, VoluntaryBytes
      <3>. QED BY <3>2, TotalType, TotalMonotone, FiniteUnits
    <2>4. ASSUME UNCHANGED <<bytes_out, lease>>
          PROVE  Total(Units, VoluntaryBytes') <= MemoryLimit
      BY <2>4 DEF VoluntaryWithinBudget, BytesHeld, VoluntaryBytes
    <2>5. ASSUME NEW u \in Units, Call(u) \/ Wait(u) \/ SpuriousWake(u)
          PROVE  UNCHANGED <<bytes_out, lease>>
      BY <2>5 DEF Call, Wait, SpuriousWake
    <2>6. ASSUME NEW u \in Units, Acquire(u)
          PROVE  Total(Units, VoluntaryBytes') <= MemoryLimit
      <3>. DEFINE n == Grant(ask[u])
                  b == Saturated(ask[u].per * n)
                  l == [workers |-> n, bytes |-> b]
      <3>1. /\ bytes_out' = Saturated(bytes_out + b)
            /\ lease' = [lease EXCEPT ![u] = l]
            /\ workers_out < Workers /\ pc[u] # "holding"
        BY <2>6 DEF Acquire
      <3>2. n \in Nat \ {0} /\ ask[u].per \in Nat /\ ask[u].per * n \in Nat
        <4>1. n \in Nat \ {0} /\ ask[u].per \in Nat
          BY <2>1, <3>1, GrantBounds, GovernorAssumption DEF TypeOK, Requests
        <4>. HIDE DEF n
        <4>. QED BY <4>1
      <3>3. b \in Nat /\ b \in 0 .. U64Max /\ b <= ask[u].per * n
        <4>1. b \in 0 .. U64Max /\ b <= ask[u].per * n
          <5>. HIDE DEF n
          <5>. QED BY <3>2, SaturatedType
        <4>. HIDE DEF b
        <4>. QED BY <4>1, GovernorAssumption
      <3>4. bytes_out' <= bytes_out + b
        <4>. HIDE DEF b
        <4>. QED BY <2>1, <3>1, <3>3, SaturatedType
      <3>5. lease[u].bytes = 0
        BY <2>1, <3>1 DEF CountersAgree
      <3>6. Total(Units, BytesHeld') = Total(Units, BytesHeld) + b
        <4>1. l \in Leases /\ l.bytes = b
          <5>. HIDE DEF n, b
          <5>. QED BY <3>2, <3>3 DEF Leases
        <4>2. Total(Units, BytesHeld') = Total(Units, BytesHeld) - lease[u].bytes + l.bytes
          <5>. HIDE DEF l
          <5>. QED BY <2>1, <3>1, <4>1, HeldAfter
        <4>. HIDE DEF l, b
        <4>. QED BY <2>2, <3>3, <3>5, <4>1, <4>2
      <3>7. /\ \A v \in Units \ {u} : lease'[v] = lease[v]
            /\ lease'[u].workers = n /\ lease'[u].bytes = b
        <4>. HIDE DEF n, b
        <4>. QED BY <2>1, <3>1 DEF TypeOK, l
      <3>8. CASE n > 1 /\ ask[u].per # 0
        <4>1. bytes_out + ask[u].per * n <= MemoryLimit
          BY <2>1, <3>1, <3>8, SeveralFit
        <4>. HIDE DEF n, b
        <4>2. bytes_out' <= MemoryLimit
          BY <2>1, <3>2, <3>3, <3>4, <4>1
        <4>. QED BY <2>1, <2>3, <4>2
      <3>9. CASE n <= 1 \/ ask[u].per = 0
        <4>1. n <= 1 \/ b = 0
          <5>1. ask[u].per = 0 => ask[u].per * n = 0
            <6>. HIDE DEF n
            <6>. QED BY <3>2
          <5>. HIDE DEF n, b
          <5>. QED BY <3>2, <3>3, <3>9, <5>1
        <4>2. Total(Units, VoluntaryBytes') <= Total(Units, VoluntaryBytes)
          <5>. HIDE DEF n, b
          <5>. QED BY <2>1, <3>7, <4>1, VoluntaryNotMore
        <4>3. bytes_out = Total(Units, BytesHeld)
          <5>. HIDE DEF b
          <5>. QED BY <2>1, <2>2, <3>3, <3>4, <3>6
        <4>. QED BY <2>1, <2>2, <2>3, <4>2, <4>3 DEF VoluntaryWithinBudget
      <3>10. n > 1 \/ n <= 1
        <4>. HIDE DEF n
        <4>. QED BY <3>2
      <3>. QED BY <3>8, <3>9, <3>10
    <2>7. ASSUME NEW u \in Units, TryAcquire(u)
          PROVE  Total(Units, VoluntaryBytes') <= MemoryLimit
      <3>1. CASE UNCHANGED lease
        BY <2>4, <2>7, <3>1 DEF TryAcquire
      <3>2. CASE lease' = [lease EXCEPT ![u] = [workers |-> 1, bytes |-> 0]]
        <4>. DEFINE l == [workers |-> 1, bytes |-> 0]
        <4>1. l \in Leases /\ l.bytes = 0 /\ l.workers = 1
          BY GovernorAssumption DEF Leases
        <4>2. lease[u].bytes = 0
          BY <2>1, <2>7 DEF CountersAgree, TryAcquire
        <4>3. Total(Units, BytesHeld') = Total(Units, BytesHeld) - lease[u].bytes + l.bytes
          <5>. HIDE DEF l
          <5>. QED BY <2>1, <3>2, <4>1, HeldAfter DEF l
        <4>4. bytes_out = Total(Units, BytesHeld)
          <5>1. bytes_out' = bytes_out
            BY <2>7 DEF TryAcquire
          <5>. HIDE DEF l
          <5>. QED BY <2>2, <4>1, <4>2, <4>3, <5>1
        <4>5. Total(Units, VoluntaryBytes') <= Total(Units, VoluntaryBytes)
          <5>1. /\ \A v \in Units \ {u} : lease'[v] = lease[v]
                /\ lease'[u].workers = 1
            BY <2>1, <3>2 DEF TypeOK
          <5>. QED BY <2>1, <5>1, VoluntaryNotMore
        <4>. QED BY <2>1, <2>2, <2>3, <4>4, <4>5 DEF VoluntaryWithinBudget
      <3>. QED BY <2>7, <3>1, <3>2 DEF TryAcquire
    <2>8. ASSUME NEW u \in Units, Drop(u)
          PROVE  Total(Units, VoluntaryBytes') <= MemoryLimit
      <3>1. /\ NoLease \in Leases /\ NoLease.bytes = 0 /\ NoLease.workers = 0
            /\ lease[u].bytes \in Nat
        BY <2>1, GovernorAssumption DEF NoLease, Leases, TypeOK
      <3>2. /\ lease' = [lease EXCEPT ![u] = NoLease]
            /\ bytes_out' = SatSub(bytes_out, lease[u].bytes)
        BY <2>8 DEF Drop
      <3>3. Total(Units, BytesHeld') = Total(Units, BytesHeld) - lease[u].bytes
        <4>1. Total(Units, BytesHeld')
                = Total(Units, BytesHeld) - lease[u].bytes + NoLease.bytes
          BY <2>1, <3>1, <3>2, HeldAfter
        <4>2. lease[u].bytes \in Nat
          BY <3>1
        <4>. QED BY <2>2, <3>1, <4>1, <4>2
      <3>4. Total(Units, VoluntaryBytes') <= Total(Units, VoluntaryBytes)
        <4>1. /\ \A v \in Units \ {u} : lease'[v] = lease[v]
              /\ lease'[u].workers = 0
          BY <2>1, <3>1, <3>2 DEF TypeOK
        <4>. QED BY <2>1, <4>1, VoluntaryNotMore
      <3>5. CASE bytes_out = Total(Units, BytesHeld)
        BY <2>1, <2>2, <2>3, <3>4, <3>5 DEF VoluntaryWithinBudget
      <3>6. CASE bytes_out < Total(Units, BytesHeld)
        <4>1. \A a, b \in Nat : SatSub(a, b) = a - b \/ SatSub(a, b) = 0
          BY DEF SatSub
        <4>2. bytes_out' = bytes_out - lease[u].bytes \/ bytes_out' = 0
          BY <2>1, <3>1, <3>2, <4>1
        <4>3. bytes_out' # bytes_out - lease[u].bytes
          BY <2>1, <2>2, <3>1, <3>3, <3>6
        <4>4. bytes_out' = 0
          BY <4>2, <4>3
        <4>. QED BY <2>1, <2>3, <4>4
      <3>. QED BY <2>1, <2>2, <3>5, <3>6
    <2>9. CASE UNCHANGED vars
      BY <2>4, <2>9 DEF vars
    <2>. QED BY <2>4, <2>5, <2>6, <2>7, <2>8, <2>9 DEF Next, Step, Finished
  <1>. QED BY Counters, <1>1, <1>2, PTL DEF Spec

-------------------------------------------------------------------------------
(* The first opinion is the sources', or there is none.                     *)
LEMMA FirstOpinionIsOne ==
  ASSUME NEW a \in Opinions, NEW b \in Opinions, NEW c \in Opinions, NEW d \in Opinions
  PROVE  /\ FirstOpinion(<<a, b, c, d>>) \in Opinions
         /\ a # Silent => FirstOpinion(<<a, b, c, d>>) = a
  <1>. DEFINE sources == <<a, b, c, d>>
              said == {k \in DOMAIN sources : sources[k] # Silent}
              first == CHOOSE k \in said : \A j \in said : k <= j
  <1>1. /\ DOMAIN sources = 1 .. 4
        /\ sources[1] = a /\ sources[2] = b /\ sources[3] = c /\ sources[4] = d
    OBVIOUS
  <1>2. \A k \in 1 .. 4 : sources[k] \in Opinions
    BY <1>1
  <1>3. FirstOpinion(sources) = IF said = {} THEN Silent ELSE sources[first]
    BY DEF FirstOpinion
  <1>4. said # {} => \E k \in said : \A j \in said : k <= j
    <2>1. said \subseteq {1, 2, 3, 4}
      BY <1>1
    <2>. HIDE DEF said
    <2>2. 1 \in said => \A j \in said : 1 <= j
      BY <2>1
    <2>3. 1 \notin said /\ 2 \in said => \A j \in said : 2 <= j
      BY <2>1
    <2>4. 1 \notin said /\ 2 \notin said /\ 3 \in said => \A j \in said : 3 <= j
      BY <2>1
    <2>5. 1 \notin said /\ 2 \notin said /\ 3 \notin said => \A j \in said : j = 4
      BY <2>1
    <2>6. 4 <= 4
      OBVIOUS
    <2>. QED BY <2>1, <2>2, <2>3, <2>4, <2>5, <2>6
  <1>5. said # {} => first \in said /\ \A j \in said : first <= j
    <2>. HIDE DEF said
    <2>. QED BY <1>4
  <1>6. said \subseteq 1 .. 4 /\ (a # Silent => 1 \in said)
    BY <1>1
  <1>7. Silent \in Opinions
    BY DEF Opinions
  <1>8. a # Silent => first = 1
    <2>. HIDE DEF said, first
    <2>. SUFFICES ASSUME a # Silent PROVE first = 1
      OBVIOUS
    <2>1. 1 \in said
      BY <1>6
    <2>2. first \in 1 .. 4 /\ first <= 1
      BY <1>5, <1>6, <2>1
    <2>. QED BY <2>2
  <1>. HIDE DEF sources, said, first
  <1>9. FirstOpinion(sources) \in Opinions
    BY <1>2, <1>3, <1>5, <1>6, <1>7
  <1>10. a # Silent => FirstOpinion(sources) = a
    BY <1>1, <1>3, <1>6, <1>8
  <1>. QED BY <1>9, <1>10 DEF sources

(* Whatever the flags, the environment, the files and the host say, the     *)
(* governor has a worker (GovernorAssumption asks for one: "0 workers       *)
(* deadlocks on an empty pool"), and an opinion of the command line, 0      *)
(* included, is not overridden by a source below it.                        *)
THEOREM BudgetIsNeverZero ==
  ASSUME NEW i \in Inputs
  PROVE  /\ resolve_workers(i) \in Nat \ {0}
         /\ i.cli # Silent =>
              \A e, p, u \in Opinions :
                resolve_workers([i EXCEPT !.env = e, !.project = p, !.user = u]) = resolve_workers(i)
  <1>1. /\ i.cli \in Opinions /\ i.env \in Opinions /\ i.project \in Opinions /\ i.user \in Opinions
        /\ i.detected \in Nat /\ i.turbo \in BOOLEAN
    BY DEF Inputs
  <1>2. FirstOpinion(<<i.cli, i.env, i.project, i.user>>) \in Opinions
    BY <1>1, FirstOpinionIsOne
  <1>3. i.detected \div 2 \in Nat
    BY <1>1
  <1>4. resolve_workers(i) \in Nat \ {0}
    BY <1>1, <1>2, <1>3 DEF resolve_workers, AtLeast, AtMost, Opinions, Silent, DEFAULT_CAP
  <1>5. ASSUME i.cli # Silent, NEW e \in Opinions, NEW p \in Opinions, NEW u \in Opinions
        PROVE  resolve_workers([i EXCEPT !.env = e, !.project = p, !.user = u]) = resolve_workers(i)
    <2>. DEFINE o == [i EXCEPT !.env = e, !.project = p, !.user = u]
    <2>1. /\ o.cli = i.cli /\ o.env = e /\ o.project = p /\ o.user = u
          /\ o.detected = i.detected /\ o.turbo = i.turbo
      BY DEF Inputs
    <2>2. /\ FirstOpinion(<<o.cli, o.env, o.project, o.user>>) = i.cli
          /\ FirstOpinion(<<i.cli, i.env, i.project, i.user>>) = i.cli
      BY <1>1, <1>5, <2>1, FirstOpinionIsOne
    <2>. HIDE DEF o
    <2>3. resolve_workers(o) = resolve_workers(i)
      BY <2>1, <2>2 DEF resolve_workers
    <2>. QED BY <2>3 DEF o
  <1>. QED BY <1>4, <1>5
===============================================================================
