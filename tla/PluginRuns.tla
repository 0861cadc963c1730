------------------------------ MODULE PluginRuns ------------------------------
(***************************************************************************)
(* Plugin executions of one organization: pluginRunner.run with its cap on *)
(* runs in flight and its monthly quota, and the dispatch of trigger       *)
(* events in pluginEvents.js around it: one delivery per event, and the    *)
(* streak of failures that pauses a plugin.                                *)
(*                                                                         *)
(* A call is a request to run one plugin, or a dispatch of one event to    *)
(* the plugins that listen.  Calls share a process (Host) and with it the  *)
(* in-memory counter concurrentRunsByOrg; plugins, plugin_runs and         *)
(* plugin_trigger_dedupe are in the database and shared by all processes.  *)
(* Between two awaits of a call any other call may go on.  The user code   *)
(* of a plugin is external: it succeeds or fails.                          *)
(***************************************************************************)
EXTENDS Naturals, FiniteSets

CONSTANTS
    Procs,        \* server processes
    Calls,        \* calls that may be under way at once
    Host,         \* the process of each call
    Plugins,      \* plugins of the organization, listening to every event
    Events,       \* dedupe keys of the events that may occur
    None,         \* no event, no plugin
    Cap,          \* MAX_CONCURRENT_RUNS_PER_ORG
    Threshold,    \* AUTO_PAUSE_THRESHOLD
    RunLimit,     \* plugin_runs_per_org_per_month of a tier without overage
    MaxRequests,  \* bound: events and requests of users
    MaxFaults     \* bound: failing statements and dying processes

ASSUME PluginAssumption ==
    /\ Host \in [Calls -> Procs]
    /\ {Cap, Threshold} \subseteq Nat \ {0}
    /\ {RunLimit, MaxRequests, MaxFaults} \subseteq Nat
    /\ None \notin Events \union Plugins
    /\ IsFiniteSet(Calls)

VARIABLES
    plugin,    \* rows of plugins: status and consecutive_trigger_failures
    inFlight,  \* concurrentRunsByOrg in each process; 0 is no entry
    rows,      \* number of plugin_runs rows of this month
    dedupe,    \* plugin_trigger_dedupe
    call,      \* each call: program counter, what is left to do, what was read
    ran,       \* history: how often each plugin's code ran for each event
    executed,  \* history: how often any plugin's code ran
    broken,    \* history: runs of each plugin in which its own code failed
    pardoned,  \* history: plugins whose streak is not the last word
    requests,  \* requests so far
    faults     \* faults so far

tables  == <<plugin, rows, dedupe>>
history == <<ran, executed, broken, pardoned>>
vars    == <<plugin, inFlight, rows, dedupe, call, ran, executed, broken, pardoned,
             requests, faults>>

Keys == Events \union {None}

\* FAILURE_STATUSES, taken as one.  The other outcomes of a run are "success"
\* and three that say nothing about the plugin: "concurrent_limit_exceeded",
\* "quota_exceeded" and "rejected".
Failure == "error"

Idle == [pc |-> "idle", event |-> None, todo |-> {}, plugin |-> None, read |-> 0,
         status |-> "none"]

Init ==
    /\ plugin = [p \in Plugins |-> [status |-> "active", streak |-> 0]]
    /\ inFlight = [h \in Procs |-> 0]
    /\ rows = 0
    /\ dedupe = {}
    /\ call = [c \in Calls |-> Idle]
    /\ ran = [p \in Plugins |-> [e \in Keys |-> 0]]
    /\ executed = 0
    /\ broken = [p \in Plugins |-> 0]
    /\ pardoned = {}
    /\ requests = 0
    /\ faults = 0

Request == requests < MaxRequests /\ requests' = requests + 1
Fault   == faults < MaxFaults /\ faults' = faults + 1

-----------------------------------------------------------------------------
(* Requests.                                                               *)

\* POST /api/plugins/:id/run: whatever the plugin's status.
RunByHand(c, p) ==
    /\ call[c].pc = "idle"
    /\ Request
    /\ call' = [call EXCEPT ![c] = [Idle EXCEPT !.pc = "start", !.plugin = p]]
    /\ UNCHANGED <<tables, inFlight, history, faults>>

\* emit and dispatch: the active listeners are listed once.  The same event may
\* be emitted more than once, on any instance.
Emit(c, e) ==
    /\ call[c].pc = "idle"
    /\ Request
    /\ LET listeners == {p \in Plugins : plugin[p].status = "active"}
       IN  /\ listeners # {}
           /\ call' = [call EXCEPT ![c] =
                [Idle EXCEPT !.pc = "next", !.event = e, !.todo = listeners]]
    /\ UNCHANGED <<tables, inFlight, history, faults>>

\* PUT /api/plugins/:id with a status; the streak keeps its value.  (Of the
\* statuses a user may write, "draft" does what "suspended" does, and "errored"
\* is left to the engine.)
SetStatus(p, status) ==
    /\ Request
    /\ plugin' = [plugin EXCEPT ![p].status = status]
    /\ pardoned' = pardoned \union {p}
    /\ UNCHANGED <<inFlight, rows, dedupe, call, ran, executed, broken, faults>>

-----------------------------------------------------------------------------
(* pluginEvents.js: the loop over the listeners.                           *)

Goto(c, pc) == call' = [call EXCEPT ![c].pc = pc]

\* On to the next listener.
NextListener(c) ==
    call' = [call EXCEPT ![c] =
        [@ EXCEPT !.pc = "next", !.plugin = None, !.read = 0, !.status = "none"]]

\* INSERT ... ON CONFLICT DO NOTHING RETURNING, before the run.
ClaimDedupe(c, p) ==
    /\ call[c].pc = "next"
    /\ p \in call[c].todo
    /\ <<p, call[c].event>> \notin dedupe
    /\ dedupe' = dedupe \union {<<p, call[c].event>>}
    /\ call' = [call EXCEPT ![c] =
        [@ EXCEPT !.pc = "start", !.plugin = p, !.todo = call[c].todo \ {p}]]
    /\ UNCHANGED <<plugin, rows, inFlight, history, requests, faults>>

SkipDuplicate(c, p) ==
    /\ call[c].pc = "next"
    /\ p \in call[c].todo
    /\ <<p, call[c].event>> \in dedupe
    /\ call' = [call EXCEPT ![c].todo = @ \ {p}]
    /\ UNCHANGED <<tables, inFlight, history, requests, faults>>

\* Mutant of ClaimFails: fail open.
ClaimFailsOpen(c, p) ==
    /\ call[c].pc = "next"
    /\ p \in call[c].todo
    /\ Fault
    /\ call' = [call EXCEPT ![c] =
        [@ EXCEPT !.pc = "start", !.plugin = p, !.todo = call[c].todo \ {p}]]
    /\ UNCHANGED <<tables, inFlight, history, requests>>

\* The INSERT throws, committed or not: fail closed, the plugin is skipped.
ClaimFails(c, p) ==
    /\ call[c].pc = "next"
    /\ p \in call[c].todo
    /\ Fault
    /\ dedupe' \in {dedupe, dedupe \union {<<p, call[c].event>>}}
    /\ call' = [call EXCEPT ![c].todo = @ \ {p}]
    /\ UNCHANGED <<plugin, rows, inFlight, history, requests>>

EndDispatch(c) ==
    /\ call[c].pc = "next"
    /\ call[c].todo = {}
    /\ call' = [call EXCEPT ![c] = Idle]
    /\ UNCHANGED <<tables, inFlight, history, requests, faults>>

-----------------------------------------------------------------------------
(* pluginRunner.run.                                                       *)

\* run() returned: a dispatch records the outcome.
Return(c, status) ==
    call' = [call EXCEPT ![c] = IF @.event = None THEN Idle
                                ELSE [@ EXCEPT !.pc = "outcome", !.status = status, !.read = 0]]

\* The counter is read, and not written before the row has been created.
CheckCap(c) ==
    /\ call[c].pc = "start"
    /\ LET count == inFlight[Host[c]]
       IN  IF count >= Cap THEN Goto(c, "refused")
           ELSE call' = [call EXCEPT ![c] = [@ EXCEPT !.pc = "admitted", !.read = count]]
    /\ UNCHANGED <<tables, inFlight, history, requests, faults>>

\* The refusal has a row of its own.
Refuse(c) ==
    /\ call[c].pc = "refused"
    /\ rows' = rows + 1
    /\ Return(c, "concurrent_limit_exceeded")
    /\ UNCHANGED <<plugin, dedupe, inFlight, history, requests, faults>>

CreateRunRow(c) ==
    /\ call[c].pc = "admitted"
    /\ rows' = rows + 1
    /\ Goto(c, "inserted")
    /\ UNCHANGED <<plugin, dedupe, inFlight, history, requests, faults>>

\* The INSERT throws, committed or not.  A refusal goes on without its row; an
\* admitted run() throws, and a dispatch goes on with the next listener.
CreateRunRowFails(c) ==
    /\ call[c].pc \in {"refused", "admitted"}
    /\ Fault
    /\ rows' \in {rows, rows + 1}
    /\ IF call[c].pc = "refused" THEN Return(c, "concurrent_limit_exceeded")
       ELSE IF call[c].event = None THEN call' = [call EXCEPT ![c] = Idle]
       ELSE NextListener(c)
    /\ UNCHANGED <<plugin, dedupe, inFlight, history, requests>>

\* The value read before, plus one.
TakeSlot(c) ==
    /\ call[c].pc = "inserted"
    /\ inFlight' = [inFlight EXCEPT ![Host[c]] = call[c].read + 1]
    /\ Goto(c, "quota")
    /\ UNCHANGED <<tables, history, requests, faults>>

Leaving(c, status) ==
    call' = [call EXCEPT ![c] = [@ EXCEPT !.pc = "leaving", !.status = status]]

\* Mutant of CheckQuota: counts the finished runs only.
CheckQuotaFinished(c) ==
    /\ call[c].pc = "quota"
    /\ IF rows >= RunLimit + Cardinality({d \in Calls : call[d].pc \in {"quota", "loading", "executing"}})
       THEN Leaving(c, "quota_exceeded") ELSE Goto(c, "loading")
    /\ UNCHANGED <<tables, inFlight, history, requests, faults>>

\* The rows of the month, this run's own and those of refused runs included.
CheckQuota(c) ==
    /\ call[c].pc = "quota"
    /\ IF rows >= RunLimit THEN Leaving(c, "quota_exceeded") ELSE Goto(c, "loading")
    /\ UNCHANGED <<tables, inFlight, history, requests, faults>>

LoadPlugin(c) ==
    /\ call[c].pc = "loading"
    /\ IF plugin[call[c].plugin].status = "active" THEN Goto(c, "executing")
       ELSE Leaving(c, "rejected")
    /\ UNCHANGED <<tables, inFlight, history, requests, faults>>

\* The user code in its isolate, however it ends.
Execute(c) ==
    /\ call[c].pc = "executing"
    /\ LET p == call[c].plugin
       IN  /\ ran' = [ran EXCEPT ![p][call[c].event] = @ + 1]
           /\ executed' = executed + 1
           /\ \/ Leaving(c, "success") /\ UNCHANGED broken
              \/ Leaving(c, Failure) /\ broken' = [broken EXCEPT ![p] = @ + 1]
    /\ UNCHANGED <<tables, inFlight, pardoned, requests, faults>>

\* A statement inside the try throws: the run ends as an error of the plugin.
RunnerFails(c) ==
    /\ call[c].pc \in {"quota", "loading"}
    /\ Fault
    /\ Leaving(c, Failure)
    /\ UNCHANGED <<tables, inFlight, history, requests>>

\* Mutants of LeaveSlot: without the floor at zero; not on an early return.
LeaveSlotUnfloored(c) ==
    /\ call[c].pc = "leaving"
    /\ inFlight' = [inFlight EXCEPT ![Host[c]] = @ - 1]
    /\ Return(c, call[c].status)
    /\ UNCHANGED <<tables, history, requests, faults>>

LeaveSlotUnlessEarly(c) ==
    /\ call[c].pc = "leaving"
    /\ inFlight' = [inFlight EXCEPT ![Host[c]] =
          IF call[c].status \in {"quota_exceeded", "rejected"} THEN @
          ELSE IF @ > 1 THEN @ - 1 ELSE 0]
    /\ Return(c, call[c].status)
    /\ UNCHANGED <<tables, history, requests, faults>>

\* The finally block; the entry is deleted when the count would not be positive.
LeaveSlot(c) ==
    /\ call[c].pc = "leaving"
    /\ inFlight' = [inFlight EXCEPT ![Host[c]] = IF @ > 1 THEN @ - 1 ELSE 0]
    /\ Return(c, call[c].status)
    /\ UNCHANGED <<tables, history, requests, faults>>

-----------------------------------------------------------------------------
(* pluginEvents.js: recordTriggerOutcome.                                  *)

\* consecutive_trigger_failures + 1
Streak(p) == plugin[p].streak + 1

\* Mutants of RecordOutcome: all that is not a success is a failure; the pause
\* only when the streak just reached the threshold.
RecordOutcomeAll(c) ==
    /\ call[c].pc = "outcome"
    /\ LET p == call[c].plugin
       IN  IF call[c].status # "success"
           THEN /\ plugin' = [plugin EXCEPT ![p].streak = Streak(p)]
                /\ pardoned' = pardoned \ {p}
                /\ IF Streak(p) >= Threshold THEN Goto(c, "pausing") ELSE NextListener(c)
           ELSE /\ plugin' = [plugin EXCEPT ![p].streak = 0]
                /\ NextListener(c) /\ UNCHANGED pardoned
    /\ UNCHANGED <<rows, dedupe, inFlight, ran, executed, broken, requests, faults>>

RecordOutcomeOnce(c) ==
    /\ call[c].pc = "outcome"
    /\ LET p == call[c].plugin
       IN  CASE call[c].status = "success" ->
                  /\ plugin' = [plugin EXCEPT ![p].streak = 0]
                  /\ NextListener(c) /\ UNCHANGED pardoned
             [] call[c].status = Failure ->
                  /\ plugin' = [plugin EXCEPT ![p].streak = Streak(p)]
                  /\ pardoned' = pardoned \ {p}
                  /\ IF Streak(p) = Threshold THEN Goto(c, "pausing") ELSE NextListener(c)
             [] OTHER -> NextListener(c) /\ UNCHANGED <<plugin, pardoned>>
    /\ UNCHANGED <<rows, dedupe, inFlight, ran, executed, broken, requests, faults>>

RecordOutcome(c) ==
    /\ call[c].pc = "outcome"
    /\ LET p == call[c].plugin
       IN  CASE call[c].status = "success" ->
                  /\ plugin' = [plugin EXCEPT ![p].streak = 0]
                  /\ NextListener(c) /\ UNCHANGED pardoned
             [] call[c].status = Failure ->
                  /\ plugin' = [plugin EXCEPT ![p].streak = Streak(p)]
                  /\ pardoned' = pardoned \ {p}
                  /\ IF Streak(p) >= Threshold THEN Goto(c, "pausing") ELSE NextListener(c)
             [] OTHER -> NextListener(c) /\ UNCHANGED <<plugin, pardoned>>
    /\ UNCHANGED <<rows, dedupe, inFlight, ran, executed, broken, requests, faults>>

\* The UPDATE throws, committed or not; the error is swallowed.
RecordOutcomeFails(c) ==
    /\ call[c].pc = "outcome"
    /\ Fault
    /\ LET p == call[c].plugin
       IN  IF call[c].status = Failure
           THEN /\ plugin' \in {plugin, [plugin EXCEPT ![p].streak = Streak(p)]}
                /\ pardoned' = pardoned \union {p}
           ELSE UNCHANGED <<plugin, pardoned>>
    /\ NextListener(c)
    /\ UNCHANGED <<rows, dedupe, inFlight, ran, executed, broken, requests>>

\* UPDATE ... AND status = 'active': a suspended plugin stays suspended.
AutoPause(c) ==
    /\ call[c].pc = "pausing"
    /\ plugin' = [plugin EXCEPT ![call[c].plugin].status = IF @ = "active" THEN "errored" ELSE @]
    /\ NextListener(c)
    /\ UNCHANGED <<rows, dedupe, inFlight, history, requests, faults>>

AutoPauseFails(c) ==
    /\ call[c].pc = "pausing"
    /\ Fault
    /\ pardoned' = pardoned \union {call[c].plugin}
    /\ NextListener(c)
    /\ UNCHANGED <<tables, inFlight, ran, executed, broken, requests>>

\* The process restarts: its calls are gone, and its counter with them.
Restart(h) ==
    /\ Fault
    /\ pardoned' = pardoned \union {call[c].plugin :
                        c \in {d \in Calls : Host[d] = h /\ call[d].pc = "pausing"}}
    /\ call' = [c \in Calls |-> IF Host[c] = h THEN Idle ELSE call[c]]
    /\ inFlight' = [inFlight EXCEPT ![h] = 0]
    /\ UNCHANGED <<tables, ran, executed, broken, requests>>

-----------------------------------------------------------------------------
RequestNext ==
    \/ \E c \in Calls, p \in Plugins : RunByHand(c, p)
    \/ \E c \in Calls, e \in Events : Emit(c, e)
    \/ \E p \in Plugins, status \in {"active", "suspended"} : SetStatus(p, status)

CallNext(c) ==
    \/ \E p \in Plugins : ClaimDedupe(c, p) \/ SkipDuplicate(c, p)
    \/ EndDispatch(c)
    \/ CheckCap(c)
    \/ Refuse(c)
    \/ CreateRunRow(c)
    \/ TakeSlot(c)
    \/ CheckQuota(c)
    \/ LoadPlugin(c)
    \/ Execute(c)
    \/ LeaveSlot(c)
    \/ RecordOutcome(c)
    \/ AutoPause(c)

CallFault(c) ==
    \/ \E p \in Plugins : ClaimFails(c, p)
    \/ CreateRunRowFails(c)
    \/ RunnerFails(c)
    \/ RecordOutcomeFails(c)
    \/ AutoPauseFails(c)

Next ==
    \/ RequestNext
    \/ \E c \in Calls : CallNext(c) \/ CallFault(c)
    \/ \E h \in Procs : Restart(h)

Spec == Init /\ [][Next]_vars
=============================================================================
