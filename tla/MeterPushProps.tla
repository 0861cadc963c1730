--------------------------- MODULE MeterPushProps ---------------------------
(***************************************************************************)
(* What the monthly meter push promises, and what it does not.             *)
(***************************************************************************)
EXTENDS MeterPush

TypeOK ==
    /\ Lease!TypeOK
    /\ push \in [Runners -> [pc : {"idle", "read", "check", "send", "record"},
                             org : 0..(NumOrgs + 1)]]
    /\ \A r \in Runners : push[r].pc = "read" => push[r].org # 0
    /\ \A r \in Runners : push[r].pc \in {"check", "send", "record"} => push[r].org \in Orgs
    /\ {post, live, lost, spared, failed} \subseteq SUBSET Orgs
    /\ charge \in [Orgs -> Nat]
    /\ abandoned \in BOOLEAN
    /\ mishaps \in 0..MaxMishaps

(* aiBilling.js:119-122: a backfill or a retry days later is safe, for only
   organizations that never succeeded are posted again.  An organization is
   charged twice for a month only if the record of a charge was lost to a
   failing statement or a crash: pushes at the same time, pushes by hand and
   expired idempotency keys do not do it. *)
ChargedOnce == \A o \in Orgs : charge[o] > 1 => o \in lost

(* Why: a push about to send for an organization that was recorded meanwhile
   still has the key of the push that recorded it, and a charge nobody has
   recorded is about to be, by a push whose key is still good, or lost.  And an
   instance pushes only while it works under the lease, so that a new claim
   does not cut off a push of its own. *)
ChargeInv ==
    /\ \A p \in Pods : push[p].pc # "idle" => pod[p].pc = "working"
    /\ \A o \in live : charge[o] > 0
    /\ \A r \in Runners :
          /\ push[r].pc = "record" => push[r].org \in live /\ charge[push[r].org] > 0
          /\ push[r].pc = "send" /\ push[r].org \in post => push[r].org \in live
    /\ \A o \in Orgs : charge[o] > 0 =>
          \/ o \in post \union lost
          \/ \E r \in Runners : push[r].pc = "record" /\ push[r].org = o

(* A row of ai_billing_posts stops every later push, so it may only stand for
   an organization that was charged: otherwise its month is never billed. *)
RecordMeansCharged == \A o \in post : charge[o] > 0

(* Migration 152: once a post is recorded, no push charges that organization
   for that month again, however stale what it has read. *)
RecordedIsFinal ==
    [][\A o \in post : now' = now => charge'[o] = charge[o]]_vars

(* The push, with everything it does between claim and release, is a use of the
   lease as WorkerLease has it. *)
KeepsLease == Lease!Spec

(* Consequently one instance bills a month. *)
OnePushPerMonth == Lease!OnePodPerPeriod

(* aiBilling.js:209-211: the instance that claims the month bills it, and nobody
   else will.  One organization's error does not cost the others their bill: a
   month some instance has claimed ends with each organization charged, passed
   over as exempt or met by an error of its own, unless the push as a whole
   threw or its instance died. *)
Settled(o) == charge[o] > 0 \/ o \in spared \union failed

EveryMonthBilled ==
    \A k \in 1..LastPeriod :
        now = k /\ k \in runs ~> (\A o \in Orgs : Settled(o)) \/ abandoned \/ k \in orphaned

(* The safe half of it, without regard to throws and deaths: when an instance
   finishes the push of a month, no organization was forgotten.  Those the loop
   skipped had been charged by another push, recorded and never charged again. *)
FinishedMeansBilled == finished[now] # {} => \A o \in Orgs : Settled(o)

(* What double billing costs at worst: an organization is charged at most once
   more than statements, pushes and processes have failed so far, however many
   pushes run and however long after each other. *)
ChargesBounded == \A o \in Orgs : charge[o] <= 1 + mishaps + faults
=============================================================================
