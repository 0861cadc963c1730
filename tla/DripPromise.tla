----------------------------- MODULE DripPromise -----------------------------
(***************************************************************************)
(* What the sequence engine promises of one enrollment, with no worker,    *)
(* snapshot or table in sight: it goes through the life cycle of migration *)
(* 133, its position moves one step at a time and only while it is active, *)
(* and a step is delivered at most once, never before it was consumed.     *)
(* A consumed step may never be delivered ("at worst SKIP a step",         *)
(* sequences.js:29).                                                       *)
(***************************************************************************)
EXTENDS Naturals

CONSTANTS Enrollments, MaxSteps

VARIABLES status, position, delivered

promiseVars == <<status, position, delivered>>

Ended == {"completed", "stopped", "unsubscribed"}

PromiseInit ==
    /\ status = [e \in Enrollments |-> "absent"]
    /\ position = [e \in Enrollments |-> 0]
    /\ delivered = [e \in Enrollments |-> [k \in 0..(MaxSteps - 1) |-> 0]]

Begin(E) ==
    /\ \A e \in E : status[e] = "absent"
    /\ status' = [e \in Enrollments |-> IF e \in E THEN "active" ELSE status[e]]
    /\ UNCHANGED <<position, delivered>>

Consume(e) ==
    /\ status[e] = "active"
    /\ position[e] < MaxSteps
    /\ \E st \in {"active", "completed"} : status' = [status EXCEPT ![e] = st]
    /\ position' = [position EXCEPT ![e] = @ + 1]
    /\ UNCHANGED delivered

Deliver(e, k) ==
    /\ k < position[e]
    /\ delivered[e][k] = 0
    /\ delivered' = [delivered EXCEPT ![e][k] = 1]
    /\ UNCHANGED <<status, position>>

End(e, st) ==
    /\ status[e] = "active"
    /\ status' = [status EXCEPT ![e] = st]
    /\ UNCHANGED <<position, delivered>>

Remove(E) ==
    /\ status' = [e \in Enrollments |->
                    IF e \in E /\ status[e] # "absent" THEN "removed" ELSE status[e]]
    /\ UNCHANGED <<position, delivered>>

PromiseNext ==
    \/ \E E \in SUBSET Enrollments : Begin(E) \/ Remove(E)
    \/ \E e \in Enrollments :
          \/ Consume(e)
          \/ \E k \in 0..(MaxSteps - 1) : Deliver(e, k)
          \/ \E st \in Ended : End(e, st)

PromiseSpec == PromiseInit /\ [][PromiseNext]_promiseVars
=============================================================================
