--------------------------- MODULE AiBillingProps ---------------------------
(***************************************************************************)
(* What AiBilling is supposed to guarantee, and what the repository's      *)
(* comments claim of it that does not hold.                                *)
(***************************************************************************)
EXTENDS AiBilling, FiniteSets

Statuses == {"unconfigured", "trial", "active", "past_due", "halted", "comped"}

(* The row, the snapshots and the ledger keep their shape. *)
TypeOK ==
    /\ org \in [status : Statuses, sub : Subs \union {0}, trial : BOOLEAN,
                reason : {"none", "admin", "auto_threshold"},
                haltedFor : Months \union {0}, warned : Months \union {0},
                soft : SoftLimits, hard : HardLimits]
    /\ stripe \in [Subs -> {"none", "incomplete", "active", "past_due", "canceled"}]
    /\ sent \in Seq(Event) /\ Len(sent) <= MaxEvents
    /\ acked \subseteq 1..Len(sent) /\ ledger \subseteq 1..Len(sent)
    /\ applied \in [1..MaxEvents -> Nat]
    /\ last \in 0..Len(sent) /\ crossed \in BOOLEAN
    /\ handler \in [Handlers -> [pc : {"idle", "received", "recorded"}, id : 0..Len(sent)]]
    /\ \A d \in Handlers : handler[d].pc # "idle" => handler[d].id \in 1..Len(sent)
    /\ month \in Months /\ usage \in [Months -> 0..MaxUsage]
    /\ checker \in [Checkers ->
         [pc : {"idle", "stale", "resume", "scan", "cap", "halt", "soft", "claim", "warn"},
          period : Months \union {0}, spent : BOOLEAN, status : Statuses \union {"none"},
          warned : Months \union {0}, soft : SoftLimits \union {0},
          hard : HardLimits \union {0},
          restore : {"none", "active", "trial", "unconfigured"}]]
    /\ \A c \in Checkers : checker[c].pc # "idle" => checker[c].period \in Months
    /\ \A c \in Checkers : checker[c].pc = "resume" => checker[c].restore # "none"
    /\ resume \in [Resumers -> [pc : {"idle", "read"}, sub : Subs \union {0}]]
    /\ warned \in [Months -> Nat] /\ rearmed \in [Months -> Nat]
    /\ moves \in 0..AdminMoves /\ faults \in 0..MaxFaults

(* billingRoutes.js:98-101 and migration 101: Stripe delivers at least once, the
   same event possibly to two handlers at the same time; the event is processed
   at most once, also when a handler failed half way. *)
ProcessedOnce == \A i \in 1..MaxEvents : applied[i] <= 1

\* Handler d has recorded event i and not processed it.
Holds(d, i) == handler[d].pc = "recorded" /\ handler[d].id = i

(* Why: an event that was processed or is about to be is in the ledger, and only
   the handler whose INSERT returned a row gets to process it. *)
LedgerInv ==
    \A i \in 1..MaxEvents :
        /\ applied[i] \in {0, 1}
        /\ applied[i] = 1 => i \in ledger
        /\ \A d \in Handlers : Holds(d, i) =>
              /\ i \in ledger
              /\ applied[i] = 0
              /\ \A e \in Handlers \ {d} : ~Holds(e, i)

(* billingRoutes.js:177-282, the webhook is what keeps ai_billing_subscription_id
   in step with Stripe.  Its statements ask nothing of the row, and nothing orders
   the deliveries; so the row names the subscription of the event that wrote it
   last as long as that one is live, and none afterwards, unless a later event of
   the same subscription is still to come, was dropped or was overtaken.  What
   else was redelivered, failed, dropped or overtaken does not matter, nor do
   admins and resumes at any point.  (A second subscription that is live as well
   is not on the row, and one event of it takes the first off.) *)
SubFollowsStripe ==
    \A i \in 1..Len(sent) :
        /\ last = i
        /\ \A j \in (i + 1)..Len(sent) : sent[j].sub = sent[i].sub => Ignored(sent[j])
        => org.sub = IF Live(sent[i].sub) THEN sent[i].sub ELSE 0

(* billingRoutes.js:658-661: an org is charged as an active or overdue customer
   only with a subscription on record.  /ai/resume (and the worker's resume) read
   the subscription in one statement and write the status in another, so this can
   fail; but only if the subscription was cancelled in between.  No order of
   events, halts, comps, trials and runs makes an org without one a paying one
   otherwise, and the next event of a subscription mends it. *)
PayingMeansSub == org.status \in {"active", "past_due"} /\ org.sub = 0 => crossed

(* aiThresholdWorker.js:13-19: the worker acts on rows it has read earlier, and
   still it takes no org from the admins: one that was comped, halted by an
   admin, put past due or has no plan when its statement runs is left alone. *)
WorkerLeavesAdmins ==
    [][\A c \in Checkers :
         checker'[c] # checker[c] /\ org'.status # org.status =>
            \/ AutoHalted(org)
            \/ org.status \in Billable /\ AutoHalted(org')]_vars

(* aiThresholdWorker.js:10-12, "fire ONE admin warning per (org, YYYY-MM)", and
   one more for every time an admin changed the threshold, however many
   instances run.  It needs every run to end within its month: a run that is
   still under way when the month changes writes the old month back. *)
OneWarnPerMonth == \A m \in Months : warned[m] <= 1 + rearmed[m]

-----------------------------------------------------------------------------
(* Liveness: the hourly timer of every instance keeps firing and its run is
   carried out; the months go by. *)
Fairness ==
    /\ WF_vars(NextMonth)
    /\ \A c \in Checkers : WF_vars(CheckerNext(c))

FairSpec == Spec /\ Fairness

\* More was charged this month than the org may spend, and the gate is open.
OverCap ==
    /\ month = LastMonth
    /\ Allowed(org)
    /\ usage[month] >= EffectiveHardCap(org.status, org.hard)
    /\ usage[month] > 0

(* aiThresholdWorker.js:13-16, 140-142: an org over its hard cap does not stay
   open, whatever was read, warned, patched or lost before. *)
CapStops == ~ <>[]OverCap

\* Still halted for what was spent in an earlier month.
HaltedForThePast ==
    /\ month = LastMonth
    /\ AutoHalted(org)
    /\ org.haltedFor # LastMonth

(* aiThresholdWorker.js:19-20: "the cap is per-month, not a death sentence". *)
RolloverResumes == ~ <>[]HaltedForThePast

-----------------------------------------------------------------------------
(* What a comment says and the code does not do.                           *)

(* billingRoutes.js:351, of a handler that fails: "Return 500 so Stripe retries
   -- better to over-deliver than to silently drop": an event Stripe was told
   is received has been processed. *)
NothingDropped == \A i \in acked : applied[i] >= 1

(* How much it drops: an event whose id is in the ledger, which no handler holds
   and which was never processed stays so, for every retry is a duplicate.  Each
   such event costs a fault of its own; no interleaving of deliveries, admins,
   runs and resumes drops one without. *)
Dropped ==
    {i \in ledger : i \in 1..MaxEvents /\ applied[i] = 0 /\ \A d \in Handlers : ~Holds(d, i)}

DropsAreFaults == Cardinality(Dropped) <= faults

=============================================================================
