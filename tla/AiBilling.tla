------------------------------ MODULE AiBilling ------------------------------
(***************************************************************************)
(* The pay-as-you-go AI billing state of one organization: the columns     *)
(* ai_billing_* / ai_halted_* of its row, written by                       *)
(*   - the Stripe webhook of routes/billingRoutes.js, one handler per      *)
(*     delivery, which records an event id before it processes the event;  *)
(*   - the admin routes /ai/halt, /ai/resume, /ai/comp, /ai/start-trial    *)
(*     and /ai/threshold of the same file;                                 *)
(*   - the hourly runOnce of services/aiThresholdWorker.js, on every       *)
(*     instance and without a lease.                                       *)
(* Every statement touches the rows of one organization only, so one is    *)
(* enough.  Stripe itself is external: subscriptions that change state,    *)
(* and events that are delivered at least once.                            *)
(***************************************************************************)
EXTENDS Naturals, Sequences

CONSTANTS
    Handlers,      \* webhook deliveries that may be processed at once
    Checkers,      \* instances that run the threshold worker
    Resumers,      \* /ai/resume requests that may be in flight
    Starts,        \* how the organization is found: "new", on "trial", "subscribed"
    LastSub,       \* bound: subscriptions ever bought
    MaxEvents,     \* bound: events Stripe sends
    Resends,       \* bound: whether it sends an event again that it has a 2xx for
    LastMonth,     \* bound: the clock stops in this month
    RunsFitInMonth,\* no threshold run is under way when the month changes
    MaxUsage,      \* bound on a month's charged usage
    SoftLimits, HardLimits, TrialCap, \* the spending limits, as usage levels
    AdminMoves,    \* bound: how often admins act
    MaxFaults      \* bound: failing statements and dying instances

Subs   == 1..LastSub
Months == 1..LastMonth
Event  == {ev \in [type : {"created", "updated", "deleted"}, sub : Subs,
                   status : {"incomplete", "active", "past_due", "canceled"}] :
              /\ ev.type = "deleted" => ev.status = "canceled"
              /\ ev.type = "created" => ev.status \in {"incomplete", "active"}}

ASSUME BillingAssumption ==
    /\ {LastSub, MaxEvents, LastMonth, MaxUsage, TrialCap, AdminMoves, MaxFaults}
          \subseteq Nat
    /\ LastMonth > 0
    /\ SoftLimits \subseteq Nat /\ HardLimits \subseteq Nat
    /\ SoftLimits # {} /\ HardLimits # {}
    /\ {Resends, RunsFitInMonth} \subseteq BOOLEAN
    /\ Starts \subseteq {"new", "trial", "subscribed"}
    /\ "subscribed" \in Starts => LastSub > 0 /\ MaxEvents > 0

VARIABLES
    org,      \* the organization's row; month 0 is NULL, subscription 0 too
    stripe,   \* each subscription's state at Stripe
    sent,     \* the events Stripe sent; an event's id is its index
    acked,    \* ids Stripe got a 2xx for
    ledger,   \* stripe_webhook_events
    applied,  \* history: how often each event was processed
    last,     \* history: the event whose statement last wrote the row, or 0
    crossed,  \* history: by that statement the row lost its subscription while
              \* a resume decided before was still under way
    handler,  \* each delivery: the event it carries
    month,    \* the month the clock is in
    usage,    \* summarizeMonthForOrg, by month
    checker,  \* each threshold run: program counter and what it has read
    resume,   \* each /ai/resume request: what it has read
    warned,   \* history: warnings sent for each month
    rearmed,  \* history: how often an admin reset the warning in each month
    moves,    \* admin moves so far
    faults    \* faults so far

stripeVars == <<stripe, sent>>
rowHist    == <<last, crossed>>
hookVars   == <<acked, ledger, applied, handler, rowHist>>
timeVars   == <<month, usage>>
warnVars   == <<warned, rearmed>>
vars == <<org, stripe, sent, acked, ledger, applied, handler, rowHist, month, usage, checker,
          resume, warned, rearmed, moves, faults>>

IdleHandler == [pc |-> "idle", id |-> 0]
IdleResume  == [pc |-> "idle", sub |-> 0]
IdleChecker == [pc |-> "idle", period |-> 0, spent |-> FALSE, status |-> "none",
                warned |-> 0, soft |-> 0, hard |-> 0, restore |-> "none"]

\* A first subscription was bought, and its event processed.
Bought == [type |-> "created", sub |-> 1, status |-> "active"]

\* An org that is found subscribed has no trial under way.
Init ==
    /\ \E start \in Starts :
          /\ \E s \in SoftLimits, h \in HardLimits :
                org = [status |-> CASE start = "new"   -> "unconfigured"
                                    [] start = "trial" -> "trial"
                                    [] OTHER           -> "active",
                       sub |-> IF start = "subscribed" THEN 1 ELSE 0,
                       trial |-> start = "trial", reason |-> "none", haltedFor |-> 0,
                       warned |-> 0, soft |-> s, hard |-> h]
          /\ sent = IF start = "subscribed" THEN <<Bought>> ELSE <<>>
    /\ stripe = [s \in Subs |-> IF s <= Len(sent) THEN "active" ELSE "none"]
    /\ acked = 1..Len(sent) /\ ledger = 1..Len(sent)
    /\ applied = [i \in 1..MaxEvents |-> IF i <= Len(sent) THEN 1 ELSE 0]
    /\ last = Len(sent) /\ crossed = FALSE
    /\ handler = [d \in Handlers |-> IdleHandler]
    /\ month = 1
    /\ usage = [m \in Months |-> 0]
    /\ checker = [c \in Checkers |-> IdleChecker]
    /\ resume = [a \in Resumers |-> IdleResume]
    /\ warned = [m \in Months |-> 0] /\ rearmed = [m \in Months |-> 0]
    /\ moves = 0
    /\ faults = 0

Fault == faults < MaxFaults /\ faults' = faults + 1

-----------------------------------------------------------------------------
(* Stripe.                                                                 *)

Emit(type, s, status) ==
    /\ Len(sent) < MaxEvents
    /\ stripe' = [stripe EXCEPT ![s] = status]
    /\ sent' = Append(sent, [type |-> type, sub |-> s, status |-> status])
    /\ UNCHANGED <<org, hookVars, timeVars, checker, resume, warnVars, moves, faults>>

Live(s) == stripe[s] \in {"incomplete", "active", "past_due"}

\* Checkout started by /ai/start, which does not ask for an earlier one.  They
\* are numbered as they are bought.
Subscribe(s) ==
    /\ stripe[s] = "none"
    /\ \A r \in Subs : r < s => stripe[r] # "none"
    /\ \E status \in {"incomplete", "active"} : Emit("created", s, status)

\* A renewal, a failed payment or a payment made good; the first payment made
\* or, as "canceled", not made in time (incomplete_expired).
ChangeSub(s) ==
    /\ Live(s)
    /\ \E status \in IF stripe[s] = "incomplete" THEN {"incomplete", "active", "canceled"}
                      ELSE {"active", "past_due"} :
          Emit("updated", s, status)

CancelSub(s) ==
    /\ Live(s)
    /\ Emit("deleted", s, "canceled")

-----------------------------------------------------------------------------
(* POST /webhook.                                                          *)

\* Any event that was sent, in any order and as often as Stripe likes.
Deliver(d, i) ==
    /\ handler[d].pc = "idle"
    /\ Resends \/ i \notin acked
    /\ handler' = [handler EXCEPT ![d] = [pc |-> "received", id |-> i]]
    /\ UNCHANGED <<org, stripeVars, acked, ledger, applied, rowHist, timeVars, checker,
                   resume, warnVars, moves, faults>>

\* Mutant of RecordEvent: processed whether the id was new or not.
RecordEventAlways(d) ==
    /\ handler[d].pc = "received"
    /\ ledger' = ledger \union {handler[d].id}
    /\ handler' = [handler EXCEPT ![d].pc = "recorded"]
    /\ UNCHANGED <<org, stripeVars, acked, applied, rowHist, timeVars, checker, resume,
                   warnVars, moves, faults>>

\* INSERT ... ON CONFLICT DO NOTHING RETURNING, before any work.
RecordEvent(d) ==
    /\ handler[d].pc = "received"
    /\ handler[d].id \notin ledger
    /\ ledger' = ledger \union {handler[d].id}
    /\ handler' = [handler EXCEPT ![d].pc = "recorded"]
    /\ UNCHANGED <<org, stripeVars, acked, applied, rowHist, timeVars, checker, resume,
                   warnVars, moves, faults>>

\* The id is there already: 200 { duplicate: true }.
IgnoreDuplicate(d) ==
    /\ handler[d].pc = "received"
    /\ handler[d].id \in ledger
    /\ acked' = acked \union {handler[d].id}
    /\ handler' = [handler EXCEPT ![d] = IdleHandler]
    /\ UNCHANGED <<org, stripeVars, ledger, applied, rowHist, timeVars, checker, resume,
                   warnVars, moves, faults>>

\* Mutant of AfterEvent: a cancellation forgets the subscription only.
AfterEventKeepsStatus(ev) ==
    IF ev.status = "canceled"
    THEN [org EXCEPT !.sub = 0]
    ELSE [org EXCEPT !.status = IF ev.type = "created" THEN "active" ELSE ev.status,
                     !.sub = ev.sub]

\* Mutant of AfterEvent: Stripe's status taken over as it is.
AfterEventVerbatim(ev) == [org EXCEPT !.status = ev.status, !.sub = ev.sub]

\* The row after event ev, whatever it was before: the statement does not ask
\* whether the row is halted or comped, or which subscription it names.
AfterEvent(ev) ==
    IF ev.status = "canceled"
    THEN [org EXCEPT !.status = "unconfigured", !.sub = 0]
    ELSE [org EXCEPT !.status = IF ev.type = "created" THEN "active" ELSE ev.status,
                     !.sub = ev.sub]

\* An update to a Stripe status the handler has no status for: no statement.
Ignored(ev) == ev.type = "updated" /\ ev.status = "incomplete"

\* A resume that has decided, by the subscription it read, for "active".
Resuming ==
    \/ \E a \in Resumers : resume[a].pc = "read" /\ resume[a].sub # 0
    \/ \E c \in Checkers : checker[c].pc = "resume" /\ checker[c].restore = "active"

WriteRow(i) ==
    /\ org' = AfterEvent(sent[i])
    /\ last' = i
    /\ crossed' = (sent[i].status = "canceled" /\ Resuming)

Process(d) ==
    /\ IF Ignored(sent[handler[d].id]) THEN UNCHANGED <<org, rowHist>>
       ELSE WriteRow(handler[d].id)
    /\ applied' = [applied EXCEPT ![handler[d].id] = @ + 1]

ProcessEvent(d) ==
    /\ handler[d].pc = "recorded"
    /\ Process(d)
    /\ acked' = acked \union {handler[d].id}
    /\ handler' = [handler EXCEPT ![d] = IdleHandler]
    /\ UNCHANGED <<stripeVars, ledger, timeVars, checker, resume, warnVars, moves,
                   faults>>

\* A statement of the handler throws (500), or the instance dies: no 2xx.  The
\* statement that was under way may have been committed.
HandlerFails(d) ==
    /\ handler[d].pc # "idle"
    /\ Fault
    /\ \/ /\ handler[d].pc = "recorded"
          /\ Process(d)
          /\ UNCHANGED ledger
       \/ /\ handler[d].pc = "received"
          /\ ledger' = ledger \union {handler[d].id}
          /\ UNCHANGED <<org, applied, rowHist>>
       \/ UNCHANGED <<org, applied, ledger, rowHist>>
    /\ handler' = [handler EXCEPT ![d] = IdleHandler]
    /\ UNCHANGED <<stripeVars, acked, timeVars, checker, resume, warnVars, moves>>

-----------------------------------------------------------------------------
(* The admin routes.                                                       *)

AdminMove == moves < AdminMoves /\ moves' = moves + 1
AdminUnchanged == UNCHANGED <<stripeVars, hookVars, timeVars, checker, faults>>

Lifted(o) == [o EXCEPT !.reason = "none"]

\* The route stores the text the admin gave as the reason; it is taken to be
\* none of the worker's own.
Halt ==
    /\ AdminMove
    /\ org' = [org EXCEPT !.status = "halted", !.reason = "admin"]
    /\ AdminUnchanged /\ UNCHANGED <<resume, warnVars>>

Comp ==
    /\ AdminMove
    /\ org' = Lifted([org EXCEPT !.status = "comped"])
    /\ AdminUnchanged /\ UNCHANGED <<resume, warnVars>>

StartTrial ==
    /\ AdminMove
    /\ org' = Lifted([org EXCEPT !.status = "trial", !.trial = TRUE])
    /\ AdminUnchanged /\ UNCHANGED <<resume, warnVars>>

\* PATCH /ai/threshold with a new threshold, which arms this month's warning
\* again, and with a new hard cap or without.
SetThreshold(limit, cap) ==
    /\ AdminMove
    /\ org' = [org EXCEPT !.soft = limit, !.hard = cap, !.warned = 0]
    /\ rearmed' = [rearmed EXCEPT ![month] = @ + 1]
    /\ AdminUnchanged /\ UNCHANGED <<resume, warned>>

SetHardCap(limit) ==
    /\ AdminMove
    /\ org' = [org EXCEPT !.hard = limit]
    /\ AdminUnchanged /\ UNCHANGED <<resume, warnVars>>

ResumeRead(a) ==
    /\ AdminMove
    /\ resume[a].pc = "idle"
    /\ resume' = [resume EXCEPT ![a] = [pc |-> "read", sub |-> org.sub]]
    /\ AdminUnchanged /\ UNCHANGED <<org, warnVars>>

\* Decided by the subscription read before.
ResumeWrite(a) ==
    /\ resume[a].pc = "read"
    /\ org' = Lifted([org EXCEPT !.status = IF resume[a].sub # 0 THEN "active"
                                              ELSE "unconfigured"])
    /\ resume' = [resume EXCEPT ![a] = IdleResume]
    /\ AdminUnchanged /\ UNCHANGED <<warnVars, moves>>

-----------------------------------------------------------------------------
(* Time and usage.                                                         *)

TimeUnchanged ==
    UNCHANGED <<stripeVars, hookVars, checker, resume, warnVars, moves, faults>>

\* A call is charged.  Calls under way and super-admins pass the gate in any
\* state of the row.
Spend ==
    /\ usage[month] < MaxUsage
    /\ usage' = [usage EXCEPT ![month] = @ + 1]
    /\ TimeUnchanged /\ UNCHANGED <<org, month>>

NextMonth ==
    /\ month < LastMonth
    /\ RunsFitInMonth => \A c \in Checkers : checker[c].pc = "idle"
    /\ month' = month + 1
    /\ TimeUnchanged /\ UNCHANGED <<org, usage>>

TrialEnds ==
    /\ org.trial
    /\ org' = [org EXCEPT !.trial = FALSE]
    /\ TimeUnchanged /\ UNCHANGED timeVars

\* evaluateAiBilling, for an org without a key of its own, with the gate on and
\* of the statuses that have a hard cap.  (Comped orgs, and overdue ones for
\* seven days, are let through as well.)
Allowed(o) == o.status = "active" \/ (o.status = "trial" /\ o.trial)

-----------------------------------------------------------------------------
(* services/aiThresholdWorker.js: one run, statement by statement.         *)

CheckerUnchanged == UNCHANGED <<stripeVars, hookVars, timeVars, resume, rearmed, moves>>
RowUnchanged     == UNCHANGED <<org, warned, faults>>

\* What a run will not read again is forgotten.
Known(k, pc) ==
    [IdleChecker EXCEPT !.pc = pc, !.period = k.period,
                        !.spent = (pc = "scan" /\ k.spent),
                        !.warned = IF pc = "soft" THEN k.warned ELSE 0,
                        !.soft = IF pc = "soft" THEN k.soft ELSE 0]

Goto(c, pc) == checker' = [checker EXCEPT ![c] = Known(checker[c], pc)]
EndRun(c)   == checker' = [checker EXCEPT ![c] = IdleChecker]

\* The period is fixed here; orgs without usage in it are left out of the scan.
StartRun(c) ==
    /\ checker[c].pc = "idle"
    /\ checker' = [checker EXCEPT ![c] =
          [IdleChecker EXCEPT !.pc = "stale", !.period = month, !.spent = usage[month] > 0]]
    /\ CheckerUnchanged /\ RowUnchanged

\* What an org halted by the worker in an earlier month goes back to.
Restored(o) ==
    IF o.sub # 0 THEN "active" ELSE IF o.trial THEN "trial" ELSE "unconfigured"

AutoHalted(o) == o.status = "halted" /\ o.reason = "auto_threshold"

SelectStale(c) ==
    /\ checker[c].pc = "stale"
    /\ IF AutoHalted(org) /\ org.haltedFor \notin {0, checker[c].period}
       THEN checker' = [checker EXCEPT ![c].pc = "resume", ![c].restore = Restored(org)]
       ELSE Goto(c, "scan")
    /\ CheckerUnchanged /\ RowUnchanged

\* Mutant of AutoResume: the UPDATE names the org only.
AutoResumeUnguarded(c) ==
    /\ checker[c].pc = "resume"
    /\ org' = [Lifted(org) EXCEPT !.status = checker[c].restore, !.haltedFor = 0]
    /\ Goto(c, "scan")
    /\ CheckerUnchanged /\ UNCHANGED <<warned, faults>>

\* UPDATE ... WHERE status = 'halted' AND reason = 'auto_threshold'
AutoResume(c) ==
    /\ checker[c].pc = "resume"
    /\ IF AutoHalted(org)
       THEN org' = [Lifted(org) EXCEPT !.status = checker[c].restore, !.haltedFor = 0]
       ELSE UNCHANGED org
    /\ Goto(c, "scan")
    /\ CheckerUnchanged /\ UNCHANGED <<warned, faults>>

Billable == {"active", "trial"}

ReadOrg(c) ==
    /\ checker[c].pc = "scan"
    /\ IF checker[c].spent
       THEN LET row == [IdleChecker EXCEPT !.pc = "cap", !.period = checker[c].period,
                              !.status = org.status, !.hard = org.hard,
                              !.warned = org.warned, !.soft = org.soft]
            IN  checker' = [checker EXCEPT ![c] =
                    IF org.status \in Billable THEN row ELSE Known(row, "soft")]
       ELSE EndRun(c)
    /\ CheckerUnchanged /\ RowUnchanged

EffectiveHardCap(status, hard) ==
    IF status = "trial" /\ TrialCap < hard THEN TrialCap ELSE hard

\* Mutant of CheckCap: after the warning's short circuit.
CheckCapUnlessWarned(c) ==
    /\ checker[c].pc = "cap"
    /\ Goto(c, IF /\ checker[c].warned # checker[c].period
                  /\ usage[checker[c].period]
                        >= EffectiveHardCap(checker[c].status, checker[c].hard)
               THEN "halt" ELSE "soft")
    /\ CheckerUnchanged /\ RowUnchanged

CheckCap(c) ==
    /\ checker[c].pc = "cap"
    /\ Goto(c, IF usage[checker[c].period]
                    >= EffectiveHardCap(checker[c].status, checker[c].hard)
               THEN "halt" ELSE "soft")
    /\ CheckerUnchanged /\ RowUnchanged

\* Mutant of AutoHalt: the month of the halt is not recorded.
AutoHaltForgets(c) ==
    /\ checker[c].pc = "halt"
    /\ IF org.status \in Billable
       THEN org' = [org EXCEPT !.status = "halted", !.reason = "auto_threshold"]
       ELSE UNCHANGED org
    /\ EndRun(c)
    /\ CheckerUnchanged /\ UNCHANGED <<warned, faults>>

\* UPDATE ... WHERE status IN ('active', 'trial')
AutoHalt(c) ==
    /\ checker[c].pc = "halt"
    /\ IF org.status \in Billable
       THEN org' = [org EXCEPT !.status = "halted", !.reason = "auto_threshold",
                               !.haltedFor = checker[c].period]
       ELSE UNCHANGED org
    /\ EndRun(c)
    /\ CheckerUnchanged /\ UNCHANGED <<warned, faults>>

CheckSoft(c) ==
    /\ checker[c].pc = "soft"
    /\ IF /\ checker[c].warned # checker[c].period
          /\ usage[checker[c].period] >= checker[c].soft
       THEN Goto(c, "claim")
       ELSE EndRun(c)
    /\ CheckerUnchanged /\ RowUnchanged

\* Mutant of ClaimWarn: an UPDATE without IS DISTINCT FROM.
ClaimWarnAlways(c) ==
    /\ checker[c].pc = "claim"
    /\ org' = [org EXCEPT !.warned = checker[c].period]
    /\ Goto(c, "warn")
    /\ CheckerUnchanged /\ UNCHANGED <<warned, faults>>

\* UPDATE ... WHERE last_warned_period IS DISTINCT FROM period RETURNING
ClaimWarn(c) ==
    /\ checker[c].pc = "claim"
    /\ IF org.warned # checker[c].period
       THEN org' = [org EXCEPT !.warned = checker[c].period] /\ Goto(c, "warn")
       ELSE EndRun(c) /\ UNCHANGED org
    /\ CheckerUnchanged /\ UNCHANGED <<warned, faults>>

Warn(c) ==
    /\ checker[c].pc = "warn"
    /\ warned' = [warned EXCEPT ![checker[c].period] = @ + 1]
    /\ EndRun(c)
    /\ CheckerUnchanged /\ UNCHANGED <<org, faults>>

\* A statement throws: the first part of the run is skipped, or the org is.  Or
\* the instance dies.
CheckerFails(c) ==
    /\ checker[c].pc # "idle"
    /\ Fault
    /\ \/ EndRun(c)
       \/ checker[c].pc \in {"stale", "resume"} /\ Goto(c, "scan")
    /\ CheckerUnchanged /\ UNCHANGED <<org, warned>>

-----------------------------------------------------------------------------
StripeNext == \E s \in Subs : Subscribe(s) \/ ChangeSub(s) \/ CancelSub(s)

HandlerNext(d) ==
    \/ RecordEvent(d)
    \/ IgnoreDuplicate(d)
    \/ ProcessEvent(d)

AdminNext ==
    \/ Halt \/ Comp \/ StartTrial
    \/ \E limit \in SoftLimits, cap \in HardLimits : SetThreshold(limit, cap)
    \/ \E limit \in HardLimits : SetHardCap(limit)
    \/ \E a \in Resumers : ResumeRead(a) \/ ResumeWrite(a)

TimeNext == Spend \/ NextMonth \/ TrialEnds

CheckerNext(c) ==
    \/ StartRun(c)
    \/ SelectStale(c)
    \/ AutoResume(c)
    \/ ReadOrg(c)
    \/ CheckCap(c)
    \/ AutoHalt(c)
    \/ CheckSoft(c)
    \/ ClaimWarn(c)
    \/ Warn(c)

Next ==
    \/ StripeNext
    \/ \E d \in Handlers :
          \/ \E i \in 1..Len(sent) : Deliver(d, i)
          \/ HandlerNext(d)
          \/ HandlerFails(d)
    \/ AdminNext
    \/ TimeNext
    \/ \E c \in Checkers : CheckerNext(c) \/ CheckerFails(c)

Spec == Init /\ [][Next]_vars
=============================================================================
