------------------------------ MODULE MeterPush ------------------------------
(***************************************************************************)
(* The monthly push of AI usage to Stripe (services/aiBilling.js).         *)
(*                                                                         *)
(* On the first of a month, in the run hour, every instance's hourly timer *)
(* notes the month in its memory, claims the lease of the month and, if it *)
(* won, walks over the organizations with usage in the month before: read  *)
(* the billing status, ask for a recorded post, send a meter event under   *)
(* an idempotency key, record the post.  Somebody may also start the same  *)
(* push by hand at any time, which takes no lease.                         *)
(*                                                                         *)
(* Stripe forgets an idempotency key after a day.  One thing about time is *)
(* assumed: a push takes less than a day.  An instance's timer may miss    *)
(* the run hour, and that of a process that restarts does: it first fires  *)
(* an hour later.  All rows are those of the month being billed, since no  *)
(* statement reads another one.                                            *)
(***************************************************************************)
EXTENDS Naturals

CONSTANTS
    Pods,        \* instances of the scheduler
    Manual,      \* pushes started by hand that may run at the same time
    NumOrgs,     \* organizations with usage in the month being billed
    LastPeriod,  \* bound: the clock stops in this month
    MaxFaults,   \* bound: faults of the lease and of whole pushes
    MaxMishaps   \* bound: statements about one organization that fail

ASSUME PushAssumption ==
    /\ NumOrgs \in Nat /\ LastPeriod \in Nat \ {0}
    /\ MaxFaults \in Nat /\ MaxMishaps \in Nat
    /\ Pods \intersect Manual = {}

Orgs    == 1..NumOrgs
Runners == Pods \union Manual

VARIABLES
    now, open, runs, pod, memo, finished, orphaned, faults,   \* as in WorkerLease
    push,      \* each runner's pushMonthlyUsageToStripe
    post,      \* rows of ai_billing_posts
    live,      \* organizations whose idempotency key Stripe remembers
    charge,    \* Stripe: meter events it has accepted, by organization
    lost,      \* history: charged, and the record of it failed
    spared,    \* history: passed over as exempt
    failed,    \* history: the push met an error about it and went on
    abandoned, \* history: a push of this month threw
    mishaps    \* failures about one organization so far

leaseVars == <<now, open, runs, pod, memo, finished, orphaned, faults>>
billVars  == <<post, live, charge, lost, spared, failed, abandoned, mishaps>>
vars      == <<leaseVars, push, billVars>>

Lease == INSTANCE WorkerLease
             WITH Memory <- "before", ReleaseOnClaimError <- FALSE, ClaimMayThrow <- TRUE

NoPush == [pc |-> "idle", org |-> 0]

FreshMonth ==
    /\ post' = {} /\ live' = {} /\ lost' = {} /\ spared' = {} /\ failed' = {}
    /\ charge' = [o \in Orgs |-> 0]
    /\ abandoned' = FALSE

Init ==
    /\ Lease!Init
    /\ push = [r \in Runners |-> NoPush]
    /\ post = {} /\ live = {} /\ lost = {} /\ spared = {} /\ failed = {}
    /\ charge = [o \in Orgs |-> 0]
    /\ abandoned = FALSE
    /\ mishaps = 0

Be(r, pc, o) == push' = [push EXCEPT ![r] = [pc |-> pc, org |-> o]]
Goto(r, pc)  == Be(r, pc, push[r].org)
Stop(r)      == Be(r, "idle", 0)
Start(r)     == Be(r, "read", 1)   \* the organizations are read in one SELECT
NextOrg(r)   == Be(r, "read", push[r].org + 1)

-----------------------------------------------------------------------------
(* Time, administrators, Stripe.                                           *)

HourEnds ==
    /\ Lease!HourEnds
    /\ UNCHANGED <<push, billVars>>

NextMonth ==
    /\ \A p \in Pods : pod[p].pc = "idle"
    /\ \A r \in Runners : push[r].pc = "idle"
    /\ Lease!NextPeriod
    /\ FreshMonth
    /\ UNCHANGED <<push, mishaps>>

\* A day after the event: the run hour is over, and so is any push of then.
KeyExpires(o) ==
    /\ ~open
    /\ o \in live
    /\ \A r \in Runners : push[r].org = o => push[r].pc \notin {"send", "record"}
    /\ live' = live \ {o}
    /\ UNCHANGED <<leaseVars, push, post, charge, lost, spared, failed, abandoned, mishaps>>

-----------------------------------------------------------------------------
(* The scheduler.                                                          *)

\* lastRunYM is set before the claim and never taken back.
Tick(p) ==
    /\ Lease!Tick(p)
    /\ UNCHANGED <<push, billVars>>

Claim(p) ==
    /\ \/ Lease!ClaimWins(p) /\ Start(p)
       \/ (Lease!ClaimLoses(p) \/ Lease!ClaimThrows(p)) /\ UNCHANGED push
    /\ UNCHANGED <<billVars>>

Release(p) ==
    /\ Lease!Release(p) \/ Lease!ReleaseFails(p)
    /\ UNCHANGED <<push, billVars>>

RunByHand(m) ==
    /\ push[m].pc = "idle"
    /\ Start(m)
    /\ UNCHANGED <<leaseVars, billVars>>

-----------------------------------------------------------------------------
(* pushMonthlyUsageToStripe.                                               *)

\* The next organization's billing status, which administrators and Stripe set:
\* comped, in a trial or without a Stripe customer, or to be billed.
ReadOrg(r) ==
    /\ push[r].pc = "read"
    /\ push[r].org \in Orgs
    /\ \/ NextOrg(r) /\ spared' = spared \union {push[r].org}
       \/ Goto(r, "check") /\ UNCHANGED spared
    /\ UNCHANGED <<leaseVars, post, live, charge, lost, failed, abandoned, mishaps>>

\* Mutant of CheckPosted: only Stripe's key protects from a second charge.
CheckNothing(r) ==
    /\ push[r].pc = "check"
    /\ Goto(r, "send")
    /\ UNCHANGED <<leaseVars, billVars>>

CheckPosted(r) ==
    /\ push[r].pc = "check"
    /\ IF push[r].org \in post THEN NextOrg(r) ELSE Goto(r, "send")
    /\ UNCHANGED <<leaseVars, billVars>>

\* Stripe: an event with a key it remembers charges nothing.
Accept(o) ==
    /\ charge' = IF o \in live THEN charge ELSE [charge EXCEPT ![o] = @ + 1]
    /\ live' = live \union {o}

\* Mutant of Send: the post recorded before the event is sent.
RecordThenSend(r) ==
    /\ push[r].pc = "send"
    /\ post' = post \union {push[r].org}
    /\ Goto(r, "record")
    /\ UNCHANGED <<leaseVars, charge, live, lost, spared, failed, abandoned, mishaps>>

Send(r) ==
    /\ push[r].pc = "send"
    /\ Accept(push[r].org)
    /\ Goto(r, "record")
    /\ UNCHANGED <<leaseVars, post, lost, spared, failed, abandoned, mishaps>>

Record(r) ==
    /\ push[r].pc = "record"
    /\ post' = post \union {push[r].org}
    /\ NextOrg(r)
    /\ UNCHANGED <<leaseVars, live, charge, lost, spared, failed, abandoned, mishaps>>

\* Mutant of EndPush: the lease released in a finally block.
EndPushReleases(r) ==
    /\ push[r].pc = "read"
    /\ push[r].org > NumOrgs
    /\ IF r \in Pods THEN Lease!WorkDoneReleases(r) ELSE UNCHANGED leaseVars
    /\ Stop(r)
    /\ UNCHANGED <<billVars>>

EndPush(r) ==
    /\ push[r].pc = "read"
    /\ push[r].org > NumOrgs
    /\ IF r \in Pods THEN Lease!WorkDone(r) ELSE UNCHANGED leaseVars
    /\ Stop(r)
    /\ UNCHANGED <<billVars>>

-----------------------------------------------------------------------------
(* Failures.                                                               *)

Mishap == mishaps < MaxMishaps /\ mishaps' = mishaps + 1

\* Mutant of SkipOrg: the first error ends the loop.
SkipAllOrgs(r) ==
    /\ Be(r, "read", NumOrgs + 1)
    /\ failed' = failed \union {push[r].org}

\* The catch of the loop counts the error and goes on.
SkipOrg(r) ==
    /\ NextOrg(r)
    /\ failed' = failed \union {push[r].org}

\* Stripe refuses the event, or accepts it and the answer is lost.
SendFails(r) ==
    /\ push[r].pc = "send"
    /\ Mishap
    /\ \/ UNCHANGED <<charge, live, lost>>
       \/ /\ Accept(push[r].org)
          /\ lost' = IF push[r].org \in live THEN lost ELSE lost \union {push[r].org}
    /\ SkipOrg(r)
    /\ UNCHANGED <<leaseVars, post, spared, abandoned>>

\* The INSERT fails, with or without effect.
RecordFails(r) ==
    /\ push[r].pc = "record"
    /\ Mishap
    /\ post' \in {post, post \union {push[r].org}}
    /\ lost' = lost \union ({push[r].org} \ post')
    /\ SkipOrg(r)
    /\ UNCHANGED <<leaseVars, live, charge, spared, abandoned>>

\* The reads stand outside the try: one that throws ends the push.
PushThrows(r) ==
    /\ push[r].pc \in {"read", "check"}
    /\ IF r \in Pods THEN Lease!WorkThrows(r) /\ UNCHANGED mishaps
                     ELSE Mishap /\ UNCHANGED leaseVars
    /\ abandoned' = TRUE
    /\ Stop(r)
    /\ UNCHANGED <<post, live, charge, lost, spared, failed>>

\* The process dies, perhaps between the event and its record.
Crash(r) ==
    /\ IF r \in Pods THEN Lease!Crash(r) /\ UNCHANGED mishaps
                     ELSE push[r].pc # "idle" /\ Mishap /\ UNCHANGED leaseVars
    /\ lost' = IF push[r].pc = "record" THEN lost \union ({push[r].org} \ post) ELSE lost
    /\ Stop(r)
    /\ UNCHANGED <<post, live, charge, spared, failed, abandoned>>

-----------------------------------------------------------------------------
Step(r) ==
    \/ ReadOrg(r)
    \/ CheckPosted(r)
    \/ Send(r)
    \/ Record(r)
    \/ EndPush(r)

Failure(r) ==
    \/ SendFails(r)
    \/ RecordFails(r)
    \/ PushThrows(r)
    \/ Crash(r)

Schedule(p) == Tick(p) \/ Claim(p) \/ Release(p)

Next ==
    \/ HourEnds
    \/ NextMonth
    \/ \E o \in Orgs : KeyExpires(o)
    \/ \E p \in Pods : Schedule(p)
    \/ \E m \in Manual : RunByHand(m)
    \/ \E r \in Runners : Step(r) \/ Failure(r)

Spec == Init /\ [][Next]_vars

\* Promise chains run to their end; no timer has to hit the run hour.
Fairness == \A p \in Pods : WF_vars(Claim(p) \/ Release(p)) /\ WF_vars(Step(p))

FairSpec == Spec /\ Fairness
=============================================================================
