-------------------------- MODULE WorkerLeaseProofs --------------------------
(***************************************************************************)
(* Proofs about the lease, for any set of pods and any number of periods   *)
(* and faults.                                                             *)
(***************************************************************************)
EXTENDS WorkerLease, FiniteSetTheorems, TLAPS

(* Type correctness of the lease and of the workers around it. *)
THEOREM LeaseTypes == Spec => []TypeOK
<1>1. Init => TypeOK
  BY LeaseAssumption DEF Init, TypeOK, IdlePod, Periods, LeaseAssumption
<1>2. TypeOK /\ [Next]_vars => TypeOK'
  <2> SUFFICES ASSUME TypeOK, [Next]_vars
               PROVE  TypeOK'
    OBVIOUS
  <2> USE DEF TypeOK, Goto, End, IdlePod, Note
  <2>1. CASE HourEnds
    BY <2>1 DEF HourEnds
  <2>6. CASE NextPeriod
    BY <2>6, LeaseAssumption DEF NextPeriod, Periods, LeaseAssumption
  <2>2. ASSUME NEW p \in Pods, Tick(p)
        PROVE  TypeOK'
    BY <2>2 DEF Tick
  <2>3. ASSUME NEW p \in Pods, PodNext(p)
        PROVE  TypeOK'
    BY <2>3 DEF PodNext, ClaimWins, ClaimLoses, WorkDone, Release
  <2>4. ASSUME NEW p \in Pods, PodFault(p)
        PROVE  TypeOK'
    <3>1. faults' \in 0..MaxFaults
      BY <2>4, LeaseAssumption
         DEF PodFault, ClaimThrows, WorkThrows, ReleaseFails, Crash, Fault, LeaseAssumption
    <3> QED
      BY <2>4, <3>1 DEF PodFault, ClaimThrows, WorkThrows, ReleaseFails, Crash
  <2>5. CASE UNCHANGED vars
    BY <2>5 DEF vars
  <2> QED
    BY <2>1, <2>2, <2>3, <2>4, <2>5, <2>6 DEF Next
<1> QED
  BY <1>1, <1>2, PTL DEF Spec

(* A tick whose work did not throw never deletes a row: that is what makes the
   claim of workerLease.js exclusive, and what a release after a failed claim
   breaks. *)
LEMMA LeaseStep ==
    ASSUME ~ReleaseOnClaimError \/ ~ClaimMayThrow, TypeOK, LeaseInv, [Next]_vars
    PROVE  LeaseInv'
<1> USE DEF TypeOK, LeaseInv, Active, Goto, End, IdlePod
<1>1. CASE HourEnds \/ NextPeriod
  BY <1>1 DEF HourEnds, NextPeriod
<1>2. ASSUME NEW p \in Pods, Tick(p)
      PROVE  LeaseInv'
  BY <1>2 DEF Tick
<1>3. ASSUME NEW p \in Pods, ClaimWins(p)
      PROVE  LeaseInv'
  BY <1>3 DEF ClaimWins
<1>4. ASSUME NEW p \in Pods, ClaimLoses(p)
      PROVE  LeaseInv'
  BY <1>4 DEF ClaimLoses
<1>5. ASSUME NEW p \in Pods, WorkDone(p)
      PROVE  LeaseInv'
  BY <1>5 DEF WorkDone
<1>6. ASSUME NEW p \in Pods, Release(p)
      PROVE  LeaseInv'
  BY <1>6 DEF Release
<1>7. ASSUME NEW p \in Pods, ClaimThrows(p)
      PROVE  LeaseInv'
  <2>1. CASE ReleaseOnClaimError
    BY <1>7, <2>1 DEF ClaimThrows
  <2>2. CASE ~ReleaseOnClaimError
    <3>1. /\ runs \subseteq runs' /\ finished' = finished
          /\ \A q \in Pods, k \in Periods : Active(q, k)' => Active(q, k)
      BY <1>7, <2>2 DEF ClaimThrows
    <3> QED BY <3>1 DEF LeaseInv
  <2> QED BY <2>1, <2>2
<1>8. ASSUME NEW p \in Pods, PodFault(p), ~ClaimThrows(p)
      PROVE  LeaseInv'
  <2>1. runs' = runs /\ finished' = finished /\ \A q \in Pods, k \in Periods : Active(q, k)' => Active(q, k)
    BY <1>8 DEF PodFault, WorkThrows, ReleaseFails, Crash
  <2> QED BY <2>1 DEF LeaseInv
<1>9. CASE UNCHANGED vars
  BY <1>9 DEF vars
<1> QED
  BY <1>1, <1>2, <1>3, <1>4, <1>5, <1>6, <1>7, <1>8, <1>9 DEF Next, PodNext, PodFault

(* The lease runs a period on one pod, provided a claim that throws does not
   release (weeklySummaryWorker, aiBilling) or never throws. *)
THEOREM OnePod ==
    ASSUME ~ReleaseOnClaimError \/ ~ClaimMayThrow
    PROVE  Spec => []OnePodPerPeriod
<1>1. Init => LeaseInv
  BY DEF Init, LeaseInv, Active, IdlePod
<1>2. TypeOK /\ LeaseInv /\ [Next]_vars => LeaseInv'
  BY LeaseStep
<1>3. LeaseInv => OnePodPerPeriod
  BY DEF LeaseInv, OnePodPerPeriod, Working, Active
<1> QED
  BY <1>1, <1>2, <1>3, LeaseTypes, PTL DEF Spec

-----------------------------------------------------------------------------
(* Every row is accounted for.  The pod that leaves a period without finishing
   it has deleted the row, or the row is marked as orphaned. *)
THEOREM RowsHaveOwners == Spec => []RowsAccounted
<1>1. Init => RowsAccounted
  BY DEF Init, RowsAccounted
<1>2. TypeOK /\ RowsAccounted /\ [Next]_vars => RowsAccounted'
  <2> SUFFICES ASSUME TypeOK, RowsAccounted, [Next]_vars
               PROVE  RowsAccounted'
    OBVIOUS
  <2> USE DEF TypeOK, RowsAccounted, Active, Goto, End, IdlePod
  <2>1. CASE HourEnds \/ NextPeriod
    BY <2>1 DEF HourEnds, NextPeriod
  <2>2. ASSUME NEW p \in Pods, Tick(p)
        PROVE  RowsAccounted'
    BY <2>2 DEF Tick
  <2>3. ASSUME NEW p \in Pods, ClaimWins(p) \/ ClaimLoses(p)
        PROVE  RowsAccounted'
    BY <2>3 DEF ClaimWins, ClaimLoses
  <2>4. ASSUME NEW p \in Pods, WorkDone(p)
        PROVE  RowsAccounted'
    BY <2>4 DEF WorkDone
  <2>5. ASSUME NEW p \in Pods, Release(p)
        PROVE  RowsAccounted'
    BY <2>5 DEF Release
  <2>9. ASSUME NEW p \in Pods, ReleaseFails(p)
        PROVE  RowsAccounted'
    BY <2>9 DEF ReleaseFails
  <2>6. ASSUME NEW p \in Pods, ClaimThrows(p)
        PROVE  RowsAccounted'
    BY <2>6 DEF ClaimThrows
  <2>7. ASSUME NEW p \in Pods, WorkThrows(p) \/ Crash(p)
        PROVE  RowsAccounted'
    BY <2>7 DEF WorkThrows, Crash
  <2>8. CASE UNCHANGED vars
    BY <2>8 DEF vars
  <2> QED
    BY <2>1, <2>2, <2>3, <2>4, <2>5, <2>6, <2>7, <2>8, <2>9 DEF Next, PodNext, PodFault
<1> QED
  BY <1>1, <1>2, LeaseTypes, PTL DEF Spec

-----------------------------------------------------------------------------
(* How often a period is run at worst.  A pod needs the row gone to start, a row
   goes when a pod releases it, and a pod comes to release only by a fault. *)

ActivePods(k) == {p \in Pods : Active(p, k)}

CountInv ==
    \A k \in Periods :
        Cardinality(ActivePods(k)) + Cardinality(finished[k]) + (IF k \in runs THEN 0 ELSE 1)
            <= 1 + faults

(* A finite set and one that differs from it in one element at most. *)
LEMMA OneMoreOrLess ==
  ASSUME NEW S, IsFiniteSet(S), NEW x, NEW T, \A y : y # x => (y \in T <=> y \in S)
  PROVE  /\ IsFiniteSet(T) /\ Cardinality(S) \in Nat /\ Cardinality(T) \in Nat
         /\ Cardinality(T) = Cardinality(S) + (IF x \in T THEN 1 ELSE 0)
                                            - (IF x \in S THEN 1 ELSE 0)
<1>1. CASE x \in T
  <2>1. T = S \union {x}
    BY <1>1
  <2> QED BY <1>1, <2>1, FS_AddElement, FS_CardinalityType
<1>2. CASE x \notin T
  <2>1. T = S \ {x}
    BY <1>2
  <2>2. x \in S => Cardinality(S) # 0
    BY FS_EmptySet
  <2> QED BY <1>2, <2>1, <2>2, FS_RemoveElement, FS_CardinalityType
<1> QED BY <1>1, <1>2

LEMMA PodsCount ==
  ASSUME IsFiniteSet(Pods), TypeOK, NEW p \in Pods, NEW k \in Periods,
         \A q \in Pods \ {p} : pod'[q] = pod[q]
  PROVE  /\ Cardinality(ActivePods(k)) \in Nat /\ Cardinality(ActivePods(k)') \in Nat
         /\ Cardinality(ActivePods(k)') = Cardinality(ActivePods(k))
               + (IF Active(p, k)' THEN 1 ELSE 0) - (IF Active(p, k) THEN 1 ELSE 0)
<1> DEFINE S == ActivePods(k)
           T == ActivePods(k)'
<1>1. IsFiniteSet(S)
  BY FS_Subset DEF ActivePods
<1>2. \A y : y # p => (y \in T <=> y \in S)
  BY DEF ActivePods, Active
<1>3. (p \in S <=> Active(p, k)) /\ (p \in T <=> Active(p, k)')
  BY DEF ActivePods, Active
<1> HIDE DEF S, T
<1>4. /\ Cardinality(S) \in Nat /\ Cardinality(T) \in Nat
      /\ Cardinality(T) = Cardinality(S) + (IF p \in T THEN 1 ELSE 0)
                                         - (IF p \in S THEN 1 ELSE 0)
  BY ONLY <1>1, <1>2, OneMoreOrLess
<1> QED BY <1>3, <1>4 DEF S, T

(* One step of a pod on one period. *)
LEMMA CountStep ==
  ASSUME IsFiniteSet(Pods), TypeOK, CountInv, NEW p \in Pods, Tick(p) \/ PodNext(p) \/ PodFault(p)
  PROVE  CountInv'
<1> SUFFICES ASSUME NEW k \in Periods
             PROVE  Cardinality(ActivePods(k)') + Cardinality(finished'[k])
                        + (IF k \in runs' THEN 0 ELSE 1) <= 1 + faults'
  BY DEF CountInv, ActivePods, Active
<1> DEFINE a == Cardinality(ActivePods(k))
           b == Cardinality(ActivePods(k)')
           f == Cardinality(finished[k])
           g == Cardinality(finished'[k])
<1>1. /\ pod \in [Pods -> [pc : {"idle", "claiming", "working", "releasing"},
                           key : Periods \union {0}]]
      /\ runs \subseteq Periods /\ faults \in Nat /\ finished \in [Periods -> SUBSET Pods]
  BY LeaseAssumption DEF TypeOK, LeaseAssumption
<1>2. a + f + (IF k \in runs THEN 0 ELSE 1) <= 1 + faults
  BY DEF CountInv
<1>3. \A q \in Pods \ {p} : pod'[q] = pod[q]
  BY <1>1 DEF Tick, PodNext, PodFault, ClaimWins, ClaimLoses, WorkDone, Release, ClaimThrows,
        WorkThrows, ReleaseFails, Crash, Goto, End
<1>4. /\ a \in Nat /\ b \in Nat
      /\ b = a + (IF Active(p, k)' THEN 1 ELSE 0) - (IF Active(p, k) THEN 1 ELSE 0)
  BY <1>3, PodsCount
<1>5. IsFiniteSet(finished[k]) /\ f \in Nat
  BY <1>1, FS_Subset, FS_CardinalityType
<1>6. finished'[k] = finished[k] => g = f
  OBVIOUS
<1> HIDE DEF a, b, f, g
<1>7. CASE Tick(p) \/ ClaimLoses(p)
  <2>1. ~Active(p, k) /\ ~Active(p, k)' /\ g = f /\ runs' = runs /\ faults' = faults
    BY <1>1, <1>6, <1>7 DEF Tick, ClaimLoses, Active, End, IdlePod
  <2> QED BY <1>1, <1>2, <1>4, <1>5, <2>1 DEF b, g
<1>8. CASE ClaimWins(p)
  <2>1. CASE pod[p].key = k
    <3>1. ~Active(p, k) /\ Active(p, k)' /\ g = f /\ k \notin runs /\ k \in runs' /\ faults' = faults
      BY <1>1, <1>6, <1>8, <2>1 DEF ClaimWins, Active, Goto
    <3> QED BY <1>1, <1>2, <1>4, <1>5, <3>1 DEF b, g
  <2>2. CASE pod[p].key # k
    <3>1. ~Active(p, k) /\ ~Active(p, k)' /\ g = f /\ (k \in runs <=> k \in runs') /\ faults' = faults
      BY <1>1, <1>6, <1>8, <2>2 DEF ClaimWins, Active, Goto
    <3> QED BY <1>1, <1>2, <1>4, <1>5, <3>1 DEF b, g
  <2> QED BY <2>1, <2>2
<1>9. CASE WorkDone(p)
  <2>1. ~Active(p, k)' /\ runs' = runs /\ faults' = faults
    BY <1>1, <1>9 DEF WorkDone, Active, End, IdlePod
  <2>2. CASE pod[p].key = k
    <3>1. Active(p, k) /\ finished'[k] = finished[k] \union {p}
      BY <1>1, <1>9, <2>2 DEF WorkDone, Active
    <3>2. g \in Nat /\ g <= f + 1
      <4>1. /\ IsFiniteSet(finished[k] \union {p})
            /\ Cardinality(finished[k] \union {p}) \in {f, f + 1}
        BY <1>5, FS_AddElement DEF f
      <4> QED BY <1>5, <3>1, <4>1 DEF g
    <3> QED BY <1>1, <1>2, <1>4, <1>5, <2>1, <3>1, <3>2 DEF b, g
  <2>3. CASE pod[p].key # k
    <3>1. ~Active(p, k) /\ g = f
      BY <1>1, <1>6, <1>9, <2>3 DEF WorkDone, Active
    <3> QED BY <1>1, <1>2, <1>4, <1>5, <2>1, <3>1 DEF b, g
  <2> QED BY <2>2, <2>3
<1>10. CASE Release(p)
  <2>1. ~Active(p, k)' /\ g = f /\ faults' = faults
    BY <1>1, <1>6, <1>10 DEF Release, Active, End, IdlePod
  <2>2. k \in runs /\ k \notin runs' => Active(p, k)
    BY <1>10 DEF Release, Active
  <2>3. k \in runs' => k \in runs
    BY <1>10 DEF Release
  <2> QED BY <1>1, <1>2, <1>4, <1>5, <2>1, <2>2, <2>3 DEF b, g
<1>11. CASE ClaimThrows(p) \/ WorkThrows(p)
  <2>1. g = f /\ (k \in runs => k \in runs') /\ faults' = faults + 1
    BY <1>6, <1>11 DEF ClaimThrows, WorkThrows, Fault
  <2> QED BY <1>1, <1>2, <1>4, <1>5, <2>1 DEF b, g
<1>12. CASE ReleaseFails(p) \/ Crash(p)
  <2>1. g = f /\ runs' = runs /\ faults' = faults + 1
    BY <1>6, <1>12 DEF ReleaseFails, Crash, Fault
  <2> QED BY <1>1, <1>2, <1>4, <1>5, <2>1 DEF b, g
<1> QED BY <1>7, <1>8, <1>9, <1>10, <1>11, <1>12 DEF PodNext, PodFault

(* Also where a claim that throws releases (sequenceWorker, recurringTaskWorker,
   pluginScheduleWorker, msgraphSyncWorker): a period is run at most once more
   than there were faults. *)
THEOREM RunsCostFaults ==
  ASSUME IsFiniteSet(Pods)
  PROVE  Spec => []RunsBounded
<1>1. Init => CountInv
  <2> SUFFICES ASSUME Init, NEW k \in Periods
               PROVE  Cardinality(ActivePods(k)) + Cardinality(finished[k])
                          + (IF k \in runs THEN 0 ELSE 1) <= 1 + faults
    BY DEF CountInv
  <2>1. ActivePods(k) = {} /\ finished[k] = {} /\ runs = {} /\ faults = 0
    BY DEF Init, ActivePods, Active, IdlePod
  <2> QED BY <2>1, FS_EmptySet
<1>2. TypeOK /\ CountInv /\ [Next]_vars => CountInv'
  <2>1. ASSUME TypeOK, CountInv, HourEnds \/ NextPeriod \/ UNCHANGED vars
        PROVE  CountInv'
    BY <2>1 DEF HourEnds, NextPeriod, vars, CountInv, ActivePods, Active
  <2> QED BY <2>1, CountStep DEF Next
<1>3. TypeOK /\ CountInv => RunsBounded
  <2> SUFFICES ASSUME TypeOK, CountInv, NEW k \in Periods
               PROVE  Cardinality(Working(k)) + Cardinality(finished[k]) <= 1 + faults
    BY DEF RunsBounded
  <2>1. Working(k) \subseteq ActivePods(k) /\ ActivePods(k) \subseteq Pods
    BY DEF Working, ActivePods, Active
  <2>2. /\ Cardinality(Working(k)) \in Nat /\ Cardinality(ActivePods(k)) \in Nat
        /\ Cardinality(Working(k)) <= Cardinality(ActivePods(k))
    BY <2>1, FS_Subset, FS_CardinalityType
  <2>3. Cardinality(finished[k]) \in Nat /\ faults \in Nat
    BY LeaseAssumption, FS_Subset, FS_CardinalityType DEF TypeOK, LeaseAssumption
  <2>4. Cardinality(ActivePods(k)) + Cardinality(finished[k]) + (IF k \in runs THEN 0 ELSE 1) <= 1 + faults
    BY DEF CountInv
  <2> QED BY <2>2, <2>3, <2>4
<1> QED
  BY <1>1, <1>2, <1>3, LeaseTypes, PTL DEF Spec
=============================================================================
