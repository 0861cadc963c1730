----------------------------- MODULE WorkerLease -----------------------------
(***************************************************************************)
(* The cross-instance run lease of services/workerLease.js and the three   *)
(* ways the periodic workers use it.  Every instance ("pod") ticks on its  *)
(* own timer; a tick claims the row (worker, period_key) of worker_runs,   *)
(* works if it won, and deletes the row again if the work threw so that    *)
(* the period can be retried.                                              *)
(*                                                                         *)
(* sequenceWorker, recurringTaskWorker, pluginScheduleWorker and           *)
(* msgraphSyncWorker tick at any time and remember nothing, and the claim  *)
(* sits inside the try whose catch releases.  weeklySummaryWorker and      *)
(* aiBilling tick only in one hour of the week or month and skip a period  *)
(* they remember, and a throwing claim ends their tick.  The memory is of  *)
(* the process: weeklySummaryWorker writes it when it has lost the claim   *)
(* or finished the work, aiBilling before the claim.                       *)
(***************************************************************************)
EXTENDS Naturals, FiniteSets

CONSTANTS
    Pods,                  \* instances, with one tick at a time each
    LastPeriod,            \* bound: the clock stops in this period
    Memory,                \* when a process notes the period: "never", "after", "before"
    ReleaseOnClaimError,   \* the claim sits inside the try whose catch releases
    ClaimMayThrow,         \* the INSERT may fail, with or without effect
    MaxFaults              \* bound: failing statements and dying pods

ASSUME LeaseAssumption ==
    /\ LastPeriod \in Nat \ {0} /\ MaxFaults \in Nat
    /\ Memory \in {"never", "after", "before"}
    /\ {ReleaseOnClaimError, ClaimMayThrow} \subseteq BOOLEAN

Periods == 1..LastPeriod

VARIABLES
    now,      \* the period the clock is in
    open,     \* the run hour of the period is not over
    runs,     \* rows of worker_runs for this worker
    pod,      \* each pod's tick: program counter and period key
    memo,     \* processes whose lastFiredISOWeekKey or lastRunYM is this period
    finished, \* history: periods some pod finished the work of, with how many
    orphaned, \* history: periods whose row lost its pod
    faults    \* faults so far

vars == <<now, open, runs, pod, memo, finished, orphaned, faults>>

IdlePod == [pc |-> "idle", key |-> 0]

Init ==
    /\ now = 1
    /\ open = TRUE
    /\ runs = {}
    /\ pod = [p \in Pods |-> IdlePod]
    /\ memo = {}
    /\ finished = [k \in Periods |-> {}]
    /\ orphaned = {}
    /\ faults = 0

Goto(p, pc) == pod' = [pod EXCEPT ![p].pc = pc]
End(p)      == pod' = [pod EXCEPT ![p] = IdlePod]

\* Process p notes period k.
Note(p, when, k) == memo' = IF Memory = when /\ k = now THEN memo \union {p} ELSE memo

HasRunHour == Memory # "never"

\* The run hour ends; the workers without one tick all the time.
HourEnds ==
    /\ HasRunHour /\ open
    /\ open' = FALSE
    /\ UNCHANGED <<now, runs, pod, memo, finished, orphaned, faults>>

NextPeriod ==
    /\ now < LastPeriod
    /\ HasRunHour => ~open
    /\ now' = now + 1
    /\ open' = TRUE
    /\ memo' = {}
    /\ UNCHANGED <<runs, pod, finished, orphaned, faults>>

\* Mutant of Tick: the key of the bucket before.
TickPreviousBucket(p) ==
    /\ pod[p].pc = "idle"
    /\ open
    /\ HasRunHour => p \notin memo
    /\ pod' = [pod EXCEPT ![p] = [pc |-> "claiming", key |-> now - 1]]
    /\ Note(p, "before", now)
    /\ UNCHANGED <<now, open, runs, finished, orphaned, faults>>

\* The tick computes its period key; the clock may move on before the claim.
Tick(p) ==
    /\ pod[p].pc = "idle"
    /\ open
    /\ HasRunHour => p \notin memo
    /\ pod' = [pod EXCEPT ![p] = [pc |-> "claiming", key |-> now]]
    /\ Note(p, "before", now)
    /\ UNCHANGED <<now, open, runs, finished, orphaned, faults>>

\* INSERT ... ON CONFLICT DO NOTHING RETURNING
ClaimWins(p) ==
    /\ pod[p].pc = "claiming"
    /\ pod[p].key \notin runs
    /\ runs' = runs \union {pod[p].key}
    /\ Goto(p, "working")
    /\ UNCHANGED <<now, open, memo, finished, orphaned, faults>>

ClaimLoses(p) ==
    /\ pod[p].pc = "claiming"
    /\ pod[p].key \in runs
    /\ End(p)
    /\ Note(p, "after", pod[p].key)
    /\ UNCHANGED <<now, open, runs, finished, orphaned, faults>>

Fault == faults < MaxFaults /\ faults' = faults + 1

\* Mutant of ClaimThrows: the guarded workers written like the others.
ClaimThrowsReleases(p) ==
    /\ ClaimMayThrow
    /\ pod[p].pc = "claiming"
    /\ Fault
    /\ runs' \in {runs, runs \union {pod[p].key}}
    /\ Goto(p, "releasing")
    /\ UNCHANGED <<now, open, memo, finished, orphaned>>

\* The INSERT throws: it never ran, or it was committed and the answer lost.
ClaimThrows(p) ==
    /\ ClaimMayThrow
    /\ pod[p].pc = "claiming"
    /\ Fault
    /\ runs' \in {runs, runs \union {pod[p].key}}
    /\ IF ReleaseOnClaimError
       THEN Goto(p, "releasing") /\ UNCHANGED orphaned
       ELSE End(p) /\ orphaned' = orphaned \union (runs' \ runs)
    /\ UNCHANGED <<now, open, memo, finished>>

\* Mutant of WorkDone: the row released in a finally block.
WorkDoneReleases(p) ==
    /\ pod[p].pc = "working"
    /\ finished' = [finished EXCEPT ![pod[p].key] = @ \union {p}]
    /\ runs' = runs \ {pod[p].key}
    /\ End(p)
    /\ Note(p, "after", pod[p].key)
    /\ UNCHANGED <<now, open, orphaned, faults>>

WorkDone(p) ==
    /\ pod[p].pc = "working"
    /\ finished' = [finished EXCEPT ![pod[p].key] = @ \union {p}]
    /\ End(p)
    /\ Note(p, "after", pod[p].key)
    /\ UNCHANGED <<now, open, runs, orphaned, faults>>

\* Mutant of WorkThrows: nothing is released.
WorkThrowsKeepsRow(p) ==
    /\ pod[p].pc = "working"
    /\ Fault
    /\ End(p)
    /\ UNCHANGED <<now, open, runs, memo, finished, orphaned>>

WorkThrows(p) ==
    /\ pod[p].pc = "working"
    /\ Fault
    /\ Goto(p, "releasing")
    /\ UNCHANGED <<now, open, runs, memo, finished, orphaned>>

\* The DELETE names the worker and the period, not the holder.
Release(p) ==
    /\ pod[p].pc = "releasing"
    /\ runs' = runs \ {pod[p].key}
    /\ End(p)
    /\ UNCHANGED <<now, open, memo, finished, orphaned, faults>>

\* The error of the DELETE is swallowed.
ReleaseFails(p) ==
    /\ pod[p].pc = "releasing"
    /\ Fault
    /\ orphaned' = orphaned \union {pod[p].key}
    /\ End(p)
    /\ UNCHANGED <<now, open, runs, memo, finished>>

\* The instance dies; nobody releases its row.  The process that replaces it
\* remembers nothing.  weeklySummaryWorker ticks 5 s after startup, the timer of
\* aiBilling an hour later, which is after the run hour: as if it remembered.
Crash(p) ==
    /\ pod[p].pc # "idle" \/ Memory = "after"
    /\ Fault
    /\ orphaned' = IF pod[p].pc \in {"idle", "claiming"} THEN orphaned
                                                       ELSE orphaned \union {pod[p].key}
    /\ End(p)
    /\ memo' = IF Memory = "after" THEN memo \ {p} ELSE memo
    /\ UNCHANGED <<now, open, runs, finished>>

PodNext(p) ==
    \/ ClaimWins(p)
    \/ ClaimLoses(p)
    \/ WorkDone(p)
    \/ Release(p)

PodFault(p) ==
    \/ ClaimThrows(p)
    \/ WorkThrows(p)
    \/ ReleaseFails(p)
    \/ Crash(p)

Next ==
    \/ HourEnds
    \/ NextPeriod
    \/ \E p \in Pods : Tick(p) \/ PodNext(p) \/ PodFault(p)

Spec == Init /\ [][Next]_vars

-----------------------------------------------------------------------------
TypeOK ==
    /\ now \in Periods /\ open \in BOOLEAN
    /\ memo \subseteq Pods
    /\ runs \subseteq Periods
    /\ pod \in [Pods -> [pc : {"idle", "claiming", "working", "releasing"},
                         key : Periods \union {0}]]
    /\ \A p \in Pods : pod[p].pc # "idle" => pod[p].key \in Periods
    /\ finished \in [Periods -> SUBSET Pods]
    /\ orphaned \subseteq Periods
    /\ faults \in 0..MaxFaults

Working(k) == {p \in Pods : pod[p].pc = "working" /\ pod[p].key = k}

(* workerLease.js:25-26: "Returns true exactly once across all instances for a
   given key".  Once a pod works on a period or has finished it, nobody else
   works on it or has finished it: a period is run by one pod. *)
OnePodPerPeriod ==
    \A k \in Periods :
        /\ \A p, q \in Working(k) \union finished[k] : p = q
        /\ Working(k) \intersect finished[k] = {}

\* Pod p works on period k, or is about to release it.
Active(p, k) == pod[p].pc \in {"working", "releasing"} /\ pod[p].key = k

(* Why: the row of a period stands while a pod works on it and once the work is
   finished, a second claim needs the row gone, and the only pod that may
   delete the row is the one whose work just threw. *)
LeaseInv ==
    \A k \in Periods :
        /\ \A p \in Pods : Active(p, k) => k \in runs /\ finished[k] = {}
        /\ \A p, q \in Pods : Active(p, k) /\ Active(q, k) => p = q
        /\ finished[k] # {} => k \in runs
        /\ \A p, q \in finished[k] : p = q

\* What a release after a failed claim can do at worst, in any of the workers:
\* every run of a period beyond the first costs a fault.
RunsBounded ==
    \A k \in Periods : Cardinality(Working(k)) + Cardinality(finished[k]) <= 1 + faults

(* workerLease.js:11-13 and 41-45: whoever loses the claim skips the period for
   good, and work that threw can be retried.  A row turns every later tick away,
   so it may stand only for a period that is finished or has a pod at it, unless
   it lost its pod to a crash, a failed release or a claim whose answer was lost:
   nobody deletes such a row. *)
RowsAccounted ==
    \A k \in runs : finished[k] # {} \/ k \in orphaned \/ \E p \in Pods : Active(p, k)
=============================================================================
