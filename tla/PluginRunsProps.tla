--------------------------- MODULE PluginRunsProps ---------------------------
(***************************************************************************)
(* What PluginRuns is supposed to guarantee, in spite of the updates of    *)
(* the counter that get lost.                                              *)
(***************************************************************************)
EXTENDS PluginRuns

Outcomes == {"success", "error", "concurrent_limit_exceeded", "quota_exceeded", "rejected"}

(* Tables, counters and calls keep their shape.  The counter in particular is
   never negative and never over the cap, whatever updates of it are lost. *)
TypeOK ==
    /\ plugin \in [Plugins -> [status : {"active", "suspended", "errored"}, streak : Nat]]
    /\ inFlight \in [Procs -> 0..Cap]
    /\ rows \in Nat
    /\ dedupe \subseteq Plugins \X Events
    /\ call \in [Calls ->
         [pc : {"idle", "next", "start", "refused", "admitted", "inserted", "quota", "loading",
                "executing", "leaving", "outcome", "pausing"},
          event : Keys, todo : SUBSET Plugins, plugin : Plugins \union {None},
          read : 0..(Cap - 1), status : Outcomes \union {"none"}]]
    /\ ran \in [Plugins -> [Keys -> Nat]]
    /\ executed \in Nat
    /\ broken \in [Plugins -> Nat]
    /\ pardoned \subseteq Plugins
    /\ requests \in 0..MaxRequests
    /\ faults \in 0..MaxFaults

\* Call c is in flight: it has taken its slot and not left it.
Running(c) == call[c].pc \in {"quota", "loading", "executing", "leaving"}
RunningOn(h) == {c \in Calls : Host[c] = h /\ Running(c)}

(* pluginRunner.js:566-571, "the counter can't leak and permanently lock the org
   out with concurrent_limit_exceeded": updates of the counter do get lost, and
   it may stay too high for ever, but never high enough for that: a process that
   refuses a run has one in flight. *)
NoLockOut == \A h \in Procs : inFlight[h] >= Cap => RunningOn(h) # {}

(* pluginEvents.js:204-206, "Returns true exactly once across all instances for
   a given key": however often and wherever an event is emitted, a plugin's code
   runs at most once for it. *)
OncePerEvent == \A p \in Plugins, e \in Events : ran[p][e] <= 1

(* pluginRunner.js:107-109, "the persistent per-month quota ... is the real cost
   ceiling": no more runs than the quota get to execute, although every run is
   counted and admitted in statements of its own. *)
QuotaHolds == executed <= RunLimit

(* pluginEvents.js:165-169, what counts toward the pause are outcomes where "the
   plugin's code (or its resource appetite) is broken", and the monthly cap, the
   concurrency cap or a plugin that is switched off are no reason.  What the
   code keeps of that is a little less, because a statement of the runner that
   throws counts, too: for each such error the plugin's own code may have failed
   one time less than Threshold, and no less than that. *)
HealthyStaysOn ==
    \A p \in Plugins : plugin[p].status = "errored" => broken[p] + faults >= Threshold

(* pluginEvents.js:276-283: a plugin whose streak has reached the threshold is
   about to be paused or was, by however many calls at once it failed.  An admin
   who switches it on again, or a process that could not carry the pause out,
   leaves it on until its next failure only. *)
StreakPauses ==
    \A p \in Plugins \ pardoned :
        plugin[p].status = "active" /\ plugin[p].streak >= Threshold =>
            \E c \in Calls : call[c].pc = "pausing" /\ call[c].plugin = p
=============================================================================
