--------------------------- MODULE AiBillingProofs ---------------------------
(***************************************************************************)
(* Proofs about AiBilling: the types, that a delivered event is processed  *)
(* at most once and dropped by a fault only, that the threshold worker     *)
(* takes no org from an admin and warns once a month, that whoever pays    *)
(* has a subscription on record, and that the row follows the subscription *)
(* that is live at Stripe.                                                 *)
(***************************************************************************)
EXTENDS AiBillingProps, FiniteSetTheorems, TLAPS

(* Counting one more keeps a function to the naturals one. *)
LEMMA CountUp ==
  ASSUME NEW S, NEW f \in [S -> Nat], NEW k
  PROVE  [f EXCEPT ![k] = @ + 1] \in [S -> Nat]
<1> DEFINE g == [f EXCEPT ![k] = @ + 1]
<1>1. \A x \in S : g[x] = IF x = k THEN f[k] + 1 ELSE f[x]
  OBVIOUS
<1>2. \A x \in S : g[x] \in Nat
  BY <1>1
<1>3. g = [x \in S |-> g[x]]
  OBVIOUS
<1> QED BY <1>2, <1>3

(* An org is found without a subscription, or with the first one bought. *)
LEMMA FoundAs ==
  ASSUME Init
  PROVE  \/ /\ sent = <<>> /\ Len(sent) = 0 /\ 1..Len(sent) = {} /\ last = 0
            /\ org.sub = 0 /\ org.status \in {"unconfigured", "trial"}
         \/ /\ sent = <<Bought>> /\ Len(sent) = 1 /\ 1..Len(sent) = {1} /\ last = 1
            /\ org.sub = 1 /\ org.status = "active"
            /\ LastSub \in Nat /\ LastSub > 0 /\ MaxEvents \in Nat /\ MaxEvents > 0
<1>1. PICK start \in Starts :
         /\ \E so \in SoftLimits, h \in HardLimits :
               org = [status |-> CASE start = "new"   -> "unconfigured"
                                   [] start = "trial" -> "trial"
                                   [] OTHER           -> "active",
                      sub |-> IF start = "subscribed" THEN 1 ELSE 0,
                      trial |-> start = "trial", reason |-> "none", haltedFor |-> 0,
                      warned |-> 0, soft |-> so, hard |-> h]
         /\ sent = IF start = "subscribed" THEN <<Bought>> ELSE <<>>
  BY DEF Init
<1>2. start \in {"new", "trial", "subscribed"} /\ last = Len(sent)
  BY BillingAssumption DEF Init
<1>3. CASE start = "subscribed"
  <2>1. sent = <<Bought>> /\ Len(sent) = 1 /\ 1..1 = {1}
    BY <1>1, <1>3
  <2> QED BY <1>1, <1>2, <1>3, <2>1, BillingAssumption
<1>4. CASE start # "subscribed"
  <2>1. sent = <<>> /\ Len(sent) = 0 /\ 1..0 = {}
    BY <1>1, <1>4
  <2> QED BY <1>1, <1>2, <1>4, <2>1
<1> QED BY <1>3, <1>4

-----------------------------------------------------------------------------
(* The ledger.  Only the webhook writes it, so it has an invariant of its  *)
(* own that needs no more types than these.                                *)

HookTypes ==
    /\ applied \in [1..MaxEvents -> Nat]
    /\ handler \in [Handlers -> [pc : {"idle", "received", "recorded"}, id : Nat]]

HookInv == HookTypes /\ LedgerInv

(* Initially nothing is recorded or processed. *)
LEMMA HookInit == Init => HookInv
  BY FoundAs DEF Init, HookInv, HookTypes, LedgerInv, Holds, IdleHandler

(* No step of a run, an admin, Stripe or the clock touches the ledger. *)
LEMMA HookElsewhere ==
  ASSUME StripeNext \/ AdminNext \/ TimeNext
         \/ (\E c \in Checkers : CheckerNext(c) \/ CheckerFails(c))
         \/ UNCHANGED vars
  PROVE  UNCHANGED hookVars
  BY DEF StripeNext, Subscribe, ChangeSub, CancelSub, Emit,
         AdminNext, Halt, Comp, StartTrial, SetThreshold, SetHardCap, ResumeRead,
         ResumeWrite, AdminUnchanged, TimeNext, Spend, NextMonth, TrialEnds,
         TimeUnchanged, CheckerNext, CheckerFails, StartRun, SelectStale, AutoResume,
         ReadOrg, CheckCap, AutoHalt, CheckSoft, ClaimWarn, Warn, CheckerUnchanged,
         hookVars, rowHist, vars

(* A handler's step keeps every processed or recorded event in the ledger. *)
LEMMA HookStep ==
  ASSUME HookInv, NEW d \in Handlers,
         (\E i \in 1..Len(sent) : Deliver(d, i)) \/ HandlerNext(d) \/ HandlerFails(d)
  PROVE  HookInv'
<1> USE DEF HookInv, HookTypes, LedgerInv, Holds, IdleHandler
<1>1. ASSUME NEW i \in 1..Len(sent), Deliver(d, i) PROVE HookInv'
  <2>1. i \in Nat OBVIOUS
  <2> QED BY <1>1, <2>1 DEF Deliver
<1>2. CASE RecordEvent(d)
  BY <1>2 DEF RecordEvent
<1>3. CASE IgnoreDuplicate(d)
  BY <1>3 DEF IgnoreDuplicate
<1>4. ASSUME handler[d].pc = "recorded", Process(d), UNCHANGED ledger,
             handler' = [handler EXCEPT ![d] = IdleHandler]
      PROVE  HookInv'
  <2> DEFINE k == handler[d].id
  <2>1. applied' = [applied EXCEPT ![k] = @ + 1]
    BY <1>4 DEF Process
  <2>2. HookTypes'
    <3>1. applied' \in [1..MaxEvents -> Nat]
      BY ONLY <2>1, HookInv, CountUp DEF HookInv, HookTypes
    <3>2. handler' \in [Handlers -> [pc : {"idle", "received", "recorded"}, id : Nat]]
      BY <1>4
    <3> QED BY ONLY <3>1, <3>2 DEF HookTypes
  <2>3. \A e \in Handlers, i \in 1..MaxEvents : Holds(e, i)' => e # d /\ i # k /\ Holds(e, i)
    BY <1>4
  <2>4. \A i \in 1..MaxEvents : i # k => applied'[i] = applied[i]
    BY <2>1
  <2>5. k \in 1..MaxEvents => applied[k] = 0 /\ applied'[k] = 1 /\ k \in ledger
    BY <1>4, <2>1
  <2> QED BY ONLY HookInv, <1>4, <2>2, <2>3, <2>4, <2>5 DEF HookInv, LedgerInv
<1>5. CASE ProcessEvent(d)
  BY <1>4, <1>5 DEF ProcessEvent
<1>6. CASE HandlerFails(d)
  <2>1. CASE handler[d].pc = "recorded" /\ Process(d) /\ UNCHANGED ledger
    BY <1>4, <1>6, <2>1 DEF HandlerFails
  <2>2. CASE /\ ledger' \in {ledger, ledger \union {handler[d].id}}
             /\ UNCHANGED applied
    BY <1>6, <2>2 DEF HandlerFails
  <2> QED BY <1>6, <2>1, <2>2 DEF HandlerFails
<1>7. CASE HandlerNext(d)
  BY <1>2, <1>3, <1>5, <1>7 DEF HandlerNext
<1>8. CASE \E i \in 1..Len(sent) : Deliver(d, i)
  <2>1. PICK i \in 1..Len(sent) : Deliver(d, i)
    BY <1>8
  <2> QED BY ONLY <2>1, <1>1
<1> QED BY ONLY <1>6, <1>7, <1>8,
       (\E i \in 1..Len(sent) : Deliver(d, i)) \/ HandlerNext(d) \/ HandlerFails(d)

(* Migration 101 and billingRoutes.js:98-118: whatever is redelivered, fails or
   dies half way, the ledger holds every event that was processed or is about to
   be, and one handler at most has the right to process it. *)
THEOREM LedgerHolds == Spec => []LedgerInv
<1>1. Init => HookInv
  BY HookInit
<1>2. HookInv /\ [Next]_vars => HookInv'
  <2> SUFFICES ASSUME HookInv, [Next]_vars PROVE HookInv'
    OBVIOUS
  <2>1. ASSUME UNCHANGED hookVars PROVE HookInv'
    BY <2>1 DEF hookVars, HookInv, HookTypes, LedgerInv, Holds
  <2> QED BY <2>1, HookElsewhere, HookStep DEF Next
<1>3. HookInv => LedgerInv
  BY DEF HookInv
<1> QED BY <1>1, <1>2, <1>3, PTL DEF Spec

(* So an event is processed at most once. *)
THEOREM EventsProcessedOnce == Spec => []ProcessedOnce
<1>1. LedgerInv => ProcessedOnce
  BY DEF LedgerInv, ProcessedOnce
<1> QED BY <1>1, LedgerHolds, PTL

-----------------------------------------------------------------------------
(* The types.                                                              *)

OrgType == [status : Statuses, sub : Subs \union {0}, trial : BOOLEAN,
            reason : {"none", "admin", "auto_threshold"},
            haltedFor : Months \union {0}, warned : Months \union {0},
            soft : SoftLimits, hard : HardLimits]

CheckerType ==
    [pc : {"idle", "stale", "resume", "scan", "cap", "halt", "soft", "claim", "warn"},
     period : Months \union {0}, spent : BOOLEAN, status : Statuses \union {"none"},
     warned : Months \union {0}, soft : SoftLimits \union {0},
     hard : HardLimits \union {0},
     restore : {"none", "active", "trial", "unconfigured"}]

(* Initially all is typed. *)
LEMMA TypeInit == Init => TypeOK
<1> SUFFICES ASSUME Init PROVE TypeOK
  OBVIOUS
<1>0. PICK start \in Starts, so \in SoftLimits, h \in HardLimits :
         org = [status |-> CASE start = "new"   -> "unconfigured"
                             [] start = "trial" -> "trial"
                             [] OTHER           -> "active",
                sub |-> IF start = "subscribed" THEN 1 ELSE 0,
                trial |-> start = "trial", reason |-> "none", haltedFor |-> 0,
                warned |-> 0, soft |-> so, hard |-> h]
  BY DEF Init
<1>1. org \in OrgType
  <2>1. start \in {"new", "trial", "subscribed"}
    BY BillingAssumption
  <2>2. org.status \in Statuses
    BY <1>0, <2>1 DEF Statuses
  <2>3. org.sub \in Subs \union {0}
    BY <1>0, FoundAs DEF Subs
  <2>4. (start = "trial") \in BOOLEAN
    OBVIOUS
  <2>5. org.trial \in BOOLEAN
    BY <1>0, <2>4
  <2>6. /\ org = [status |-> org.status, sub |-> org.sub, trial |-> org.trial,
                 reason |-> "none", haltedFor |-> 0, warned |-> 0, soft |-> so, hard |-> h]
    BY <1>0
  <2> QED BY ONLY <2>2, <2>3, <2>5, <2>6 DEF OrgType
<1>2. sent \in Seq(Event) /\ Len(sent) \in Nat /\ Len(sent) <= MaxEvents
  <2>1. MaxEvents \in Nat
    BY BillingAssumption
  <2>2. CASE sent = <<>>
    BY <2>1, <2>2
  <2>3. CASE sent = <<Bought>> /\ LastSub \in Nat /\ LastSub > 0 /\ MaxEvents > 0
    <3>1. Bought \in Event
      BY <2>3 DEF Bought, Event, Subs
    <3> HIDE DEF Bought
    <3> QED BY <2>1, <2>3, <3>1
  <2> QED BY <2>2, <2>3, FoundAs
<1>3. last \in 0..Len(sent) /\ crossed \in BOOLEAN
  <2>1. last = Len(sent)
    BY DEF Init
  <2>2. crossed = FALSE
    BY DEF Init
  <2>3. last \in 0..Len(sent)
    BY ONLY <1>2, <2>1
  <2> QED BY ONLY <2>2, <2>3
<1>4. stripe \in [Subs -> {"none", "incomplete", "active", "past_due", "canceled"}]
  BY DEF Init
<1>5. acked \subseteq 1..Len(sent) /\ ledger \subseteq 1..Len(sent)
  BY DEF Init
<1>6. applied \in [1..MaxEvents -> Nat]
  BY DEF Init
<1>7. handler \in [Handlers -> [pc : {"idle", "received", "recorded"}, id : 0..Len(sent)]]
      /\ \A d \in Handlers : handler[d].pc = "idle"
  BY <1>2 DEF Init, IdleHandler
<1>8. /\ month \in Months /\ usage \in [Months -> 0..MaxUsage]
      /\ warned \in [Months -> Nat] /\ rearmed \in [Months -> Nat]
      /\ moves \in 0..AdminMoves /\ faults \in 0..MaxFaults
  BY BillingAssumption DEF Init, Months
<1>9. checker \in [Checkers -> CheckerType] /\ \A c \in Checkers : checker[c].pc = "idle"
  BY DEF Init, IdleChecker, CheckerType
<1>10. resume \in [Resumers -> [pc : {"idle", "read"}, sub : Subs \union {0}]]
  BY DEF Init, IdleResume
<1> QED BY ONLY <1>1, <1>2, <1>3, <1>4, <1>5, <1>6, <1>7, <1>8, <1>9, <1>10
        DEF TypeOK, OrgType, CheckerType

(* Stripe's steps. *)
LEMMA TypeStripe == ASSUME TypeOK, StripeNext PROVE TypeOK'
<1> SUFFICES ASSUME NEW ev \in Event, Emit(ev.type, ev.sub, ev.status)
             PROVE  TypeOK'
  <2>1. \A s \in Subs : \A type, status :
           [type |-> type, sub |-> s, status |-> status] \in Event
           /\ Emit(type, s, status) => TypeOK'
    OBVIOUS
  <2> QED BY <2>1 DEF StripeNext, Subscribe, ChangeSub, CancelSub, Event
<1>1. sent \in Seq(Event) /\ Len(sent) < MaxEvents
      /\ sent' = Append(sent, [type |-> ev.type, sub |-> ev.sub, status |-> ev.status])
  BY DEF TypeOK, Emit
<1>2. [type |-> ev.type, sub |-> ev.sub, status |-> ev.status] \in Event
  BY DEF Event
<1>3. sent' \in Seq(Event) /\ Len(sent') = Len(sent) + 1 /\ Len(sent') <= MaxEvents
  BY <1>1, <1>2, BillingAssumption
<1>4. \A i : i \in 0..Len(sent) => i \in 0..Len(sent')
  BY <1>1, <1>3
<1>5. \A i : i \in 1..Len(sent) => i \in 1..Len(sent')
  BY <1>1, <1>3
<1>6. stripe' \in [Subs -> {"none", "incomplete", "active", "past_due", "canceled"}]
  BY DEF TypeOK, Emit, Event
<1>7. UNCHANGED <<org, acked, ledger, applied, handler, last, crossed, month, usage, checker,
                  resume, warned, rearmed, moves, faults>>
  BY DEF Emit, hookVars, rowHist, timeVars, warnVars
<1> QED BY <1>3, <1>4, <1>5, <1>6, <1>7 DEF TypeOK

(* Processing an event leaves a typed row. *)
LEMMA ProcessType ==
  ASSUME TypeOK, NEW d \in Handlers, handler[d].pc # "idle", Process(d)
  PROVE  /\ org' \in OrgType /\ applied' \in [1..MaxEvents -> Nat]
         /\ last' \in 0..Len(sent) /\ crossed' \in BOOLEAN
<1> DEFINE ev == sent[handler[d].id]
<1>1. handler[d].id \in 1..Len(sent) /\ ev \in Event
  BY DEF TypeOK
<1>2. org \in OrgType
  BY DEF TypeOK, OrgType
<1>3. ~Ignored(ev) => AfterEvent(ev) \in OrgType
  BY <1>1, <1>2 DEF AfterEvent, Ignored, OrgType, Event, Statuses
<1>4. applied \in [1..MaxEvents -> Nat]
  BY DEF TypeOK
<1>5. org' \in OrgType
  BY ONLY <1>2, <1>3, <1>4, Process(d) DEF Process, WriteRow
<1>6. applied' \in [1..MaxEvents -> Nat]
  BY <1>4, CountUp DEF Process
<1>7. last' \in 0..Len(sent) /\ crossed' \in BOOLEAN
  <2>1. CASE UNCHANGED rowHist
    BY <2>1 DEF TypeOK, rowHist
  <2>2. CASE WriteRow(handler[d].id)
    <3>1. (ev.status = "canceled" /\ Resuming) \in BOOLEAN
      OBVIOUS
    <3> QED BY <1>1, <2>2, <3>1 DEF TypeOK, WriteRow
  <2> QED BY <2>1, <2>2 DEF Process
<1> QED BY <1>5, <1>6, <1>7

\* What a handler may hold.
HandlerType ==
    /\ handler \in [Handlers -> [pc : {"idle", "received", "recorded"}, id : 0..Len(sent)]]
    /\ \A d \in Handlers : handler[d].pc # "idle" => handler[d].id \in 1..Len(sent)

(* The webhook's steps. *)
LEMMA TypeHandler ==
  ASSUME TypeOK, NEW d \in Handlers,
         (\E i \in 1..Len(sent) : Deliver(d, i)) \/ HandlerNext(d) \/ HandlerFails(d)
  PROVE  TypeOK'
<1>1. UNCHANGED <<stripe, sent, month, usage, checker, resume, warned, rearmed, moves>>
  BY DEF HandlerNext, Deliver, RecordEvent, IgnoreDuplicate, ProcessEvent, HandlerFails,
         stripeVars, timeVars, warnVars
<1>2. HandlerType'
  <2>1. HandlerType /\ Len(sent) \in Nat
    BY DEF TypeOK, HandlerType
  <2>2. \/ \E i \in 1..Len(sent) : handler' = [handler EXCEPT ![d] = [pc |-> "received", id |-> i]]
        \/ handler[d].pc = "received" /\ handler' = [handler EXCEPT ![d].pc = "recorded"]
        \/ handler' = [handler EXCEPT ![d] = [pc |-> "idle", id |-> 0]]
    BY DEF HandlerNext, Deliver, RecordEvent, IgnoreDuplicate, ProcessEvent, HandlerFails,
           IdleHandler
  <2>3. sent' = sent
    BY <1>1
  <2> QED BY ONLY <2>1, <2>2, <2>3 DEF HandlerType
<1>3. /\ org' \in OrgType /\ applied' \in [1..MaxEvents -> Nat]
      /\ last' \in 0..Len(sent) /\ crossed' \in BOOLEAN
  <2>1. CASE Process(d) /\ handler[d].pc # "idle"
    BY ONLY TypeOK, d \in Handlers, <2>1, ProcessType
  <2>2. CASE UNCHANGED <<org, applied, last, crossed>>
    BY <2>2 DEF TypeOK, OrgType
  <2> QED BY <2>1, <2>2 DEF rowHist, HandlerNext, Deliver, RecordEvent, IgnoreDuplicate, ProcessEvent,
                           HandlerFails, timeVars
<1>4. acked' \subseteq 1..Len(sent) /\ ledger' \subseteq 1..Len(sent)
  <2>1. /\ acked' \subseteq acked \union {handler[d].id}
        /\ ledger' \subseteq ledger \union {handler[d].id}
        /\ (acked' = acked /\ ledger' = ledger) \/ handler[d].pc # "idle"
    BY DEF HandlerNext, Deliver, RecordEvent, IgnoreDuplicate, ProcessEvent, HandlerFails
  <2> QED BY <2>1 DEF TypeOK
<1>5. faults' \in 0..MaxFaults
  BY BillingAssumption
     DEF TypeOK, HandlerNext, Deliver, RecordEvent, IgnoreDuplicate, ProcessEvent,
         HandlerFails, Fault
<1> QED BY <1>1, <1>2, <1>3, <1>4, <1>5 DEF TypeOK, OrgType, HandlerType

(* What the steps outside the webhook and Stripe leave alone. *)
LEMMA TypeKept ==
  ASSUME TypeOK, UNCHANGED <<stripe, sent, acked, ledger, applied, handler, last, crossed>>,
         org' \in OrgType,
         month' \in Months, usage' \in [Months -> 0..MaxUsage],
         checker' \in [Checkers -> CheckerType],
         \A c \in Checkers : checker'[c].pc # "idle" => checker'[c].period \in Months,
         \A c \in Checkers : checker'[c].pc = "resume" => checker'[c].restore # "none",
         resume' \in [Resumers -> [pc : {"idle", "read"}, sub : Subs \union {0}]],
         warned' \in [Months -> Nat], rearmed' \in [Months -> Nat],
         moves' \in 0..AdminMoves, faults' \in 0..MaxFaults
  PROVE  TypeOK'
  BY DEF TypeOK, OrgType, CheckerType

(* The admins' steps. *)
LEMMA TypeAdmin == ASSUME TypeOK, AdminNext PROVE TypeOK'
<1>1. UNCHANGED <<stripe, sent, acked, ledger, applied, handler, last, crossed, month, usage,
                  checker, faults>>
  BY DEF AdminNext, Halt, Comp, StartTrial, SetThreshold, SetHardCap, ResumeRead, ResumeWrite,
         AdminUnchanged, stripeVars, hookVars, rowHist, timeVars
<1>2. moves' \in 0..AdminMoves
  <2>1. moves \in 0..AdminMoves /\ AdminMoves \in Nat
    BY BillingAssumption DEF TypeOK
  <2>2. moves' = moves \/ AdminMove
    BY DEF AdminNext, Halt, Comp, StartTrial, SetThreshold, SetHardCap, ResumeRead, ResumeWrite
  <2> QED BY ONLY <2>1, <2>2 DEF AdminMove
<1>3. resume' \in [Resumers -> [pc : {"idle", "read"}, sub : Subs \union {0}]]
  <2>1. /\ resume \in [Resumers -> [pc : {"idle", "read"}, sub : Subs \union {0}]]
        /\ org.sub \in Subs \union {0}
    BY DEF TypeOK
  <2>2. \/ resume' = resume
        \/ \E a \in Resumers : resume' = [resume EXCEPT ![a] = [pc |-> "read", sub |-> org.sub]]
        \/ \E a \in Resumers : resume' = [resume EXCEPT ![a] = [pc |-> "idle", sub |-> 0]]
    BY DEF AdminNext, Halt, Comp, StartTrial, SetThreshold, SetHardCap, ResumeRead,
           ResumeWrite, IdleResume
  <2> QED BY ONLY <2>1, <2>2
<1>4. warned' \in [Months -> Nat] /\ rearmed' \in [Months -> Nat]
  <2>1. warned \in [Months -> Nat] /\ rearmed \in [Months -> Nat]
    BY DEF TypeOK
  <2>2. warned' = warned /\ (rearmed' = rearmed \/ rearmed' = [rearmed EXCEPT ![month] = @ + 1])
    BY DEF AdminNext, Halt, Comp, StartTrial, SetThreshold, SetHardCap, ResumeRead,
           ResumeWrite, warnVars
  <2> QED BY <2>1, <2>2, CountUp
<1>5. org' \in OrgType
  <2>1. org \in OrgType
    BY DEF TypeOK, OrgType
  <2>2. org' \in OrgType
    BY <2>1
       DEF AdminNext, Halt, Comp, StartTrial, SetThreshold, SetHardCap, ResumeRead,
           ResumeWrite, Lifted, OrgType, Statuses
  <2> QED BY <2>2
<1> QED BY <1>1, <1>2, <1>3, <1>4, <1>5, TypeKept DEF TypeOK, CheckerType

(* Time and usage. *)
LEMMA TypeTime == ASSUME TypeOK, TimeNext PROVE TypeOK'
<1>1. UNCHANGED <<stripe, sent, acked, ledger, applied, handler, last, crossed, checker, resume,
                  warned, rearmed, moves, faults>>
  BY DEF TimeNext, Spend, NextMonth, TrialEnds, TimeUnchanged, stripeVars,
         hookVars, rowHist, warnVars
<1>2. month' \in Months /\ usage' \in [Months -> 0..MaxUsage]
  <2>1. month \in Months /\ usage \in [Months -> 0..MaxUsage]
        /\ MaxUsage \in Nat /\ LastMonth \in Nat
    BY BillingAssumption DEF TypeOK
  <2>2. CASE Spend
    BY ONLY <2>1, <2>2 DEF Spend, Months
  <2>3. CASE NextMonth
    BY ONLY <2>1, <2>3 DEF NextMonth, Months
  <2>4. CASE TrialEnds
    BY ONLY <2>1, <2>4 DEF TrialEnds, timeVars
  <2> QED BY <2>2, <2>3, <2>4 DEF TimeNext
<1>3. org' \in OrgType
  <2>1. org \in OrgType
    BY BillingAssumption DEF TypeOK, OrgType
  <2>2. CASE Spend \/ NextMonth
    BY ONLY <2>1, <2>2 DEF Spend, NextMonth
  <2>3. CASE TrialEnds
    BY ONLY <2>1, <2>3 DEF TrialEnds, OrgType, timeVars
  <2> QED BY <2>2, <2>3 DEF TimeNext
<1> QED BY <1>1, <1>2, <1>3, TypeKept DEF TypeOK, CheckerType
\* One run's snapshot as the next step may use it.
Ready(k) ==
    /\ k \in CheckerType
    /\ k.pc # "idle" => k.period \in Months
    /\ k.pc = "resume" => k.restore # "none"

(* A run's steps. *)
LEMMA TypeChecker ==
  ASSUME TypeOK, NEW c \in Checkers, CheckerNext(c) \/ CheckerFails(c)
  PROVE  TypeOK'
<1> USE DEF RowUnchanged, CheckerUnchanged
<1> DEFINE Moved(k) == checker' = [checker EXCEPT ![c] = k]
<1>1. UNCHANGED <<stripe, sent, acked, ledger, applied, handler, last, crossed, month, usage,
                  resume, rearmed, moves>>
  BY DEF CheckerNext, CheckerFails, StartRun, SelectStale, AutoResume, ReadOrg, CheckCap,
         AutoHalt, CheckSoft, ClaimWarn, Warn, stripeVars, hookVars, rowHist, timeVars
<1>2. /\ org \in OrgType /\ month \in Months
      /\ warned \in [Months -> Nat] /\ faults \in 0..MaxFaults /\ MaxFaults \in Nat
      /\ checker \in [Checkers -> CheckerType]
      /\ \A d \in Checkers : Ready(checker[d])
  BY BillingAssumption DEF TypeOK, OrgType, CheckerType, Ready
<1>3. faults' \in 0..MaxFaults
  <2>1. faults' = faults \/ Fault
    BY DEF CheckerNext, CheckerFails, StartRun, SelectStale, AutoResume, ReadOrg, CheckCap,
           AutoHalt, CheckSoft, ClaimWarn, Warn
  <2> QED BY ONLY <1>2, <2>1 DEF Fault
<1>4. warned' \in [Months -> Nat]
  <2>1. warned' = warned \/ \E m : warned' = [warned EXCEPT ![m] = @ + 1]
    BY DEF CheckerNext, CheckerFails, StartRun, SelectStale, AutoResume, ReadOrg, CheckCap,
           AutoHalt, CheckSoft, ClaimWarn, Warn
  <2> QED BY <1>2, <2>1, CountUp
<1>5. org' \in OrgType
  <2>1. checker[c] \in CheckerType /\ Ready(checker[c])
    BY <1>2
  <2>2. CASE AutoResume(c)
    <3>1. [Lifted(org) EXCEPT !.status = checker[c].restore, !.haltedFor = 0] \in OrgType
      BY <1>2, <2>1, <2>2 DEF AutoResume, Ready, CheckerType, OrgType, Lifted, Statuses
    <3> QED BY <1>2, <2>2, <3>1 DEF AutoResume
  <2>3. CASE AutoHalt(c)
    <3>1. [org EXCEPT !.status = "halted", !.reason = "auto_threshold",
                      !.haltedFor = checker[c].period] \in OrgType
      BY <1>2, <2>1 DEF CheckerType, OrgType, Statuses
    <3> QED BY <1>2, <2>3, <3>1 DEF AutoHalt
  <2>4. CASE ClaimWarn(c)
    <3>1. [org EXCEPT !.warned = checker[c].period] \in OrgType
      BY <1>2, <2>1 DEF CheckerType, OrgType
    <3> QED BY <1>2, <2>4, <3>1 DEF ClaimWarn
  <2>5. CASE UNCHANGED org
    BY <1>2, <2>5
  <2> QED BY <2>2, <2>3, <2>4, <2>5
          DEF CheckerNext, CheckerFails, StartRun, SelectStale, ReadOrg, CheckCap, CheckSoft, Warn
<1>6. \E k : Ready(k) /\ Moved(k)
  <2> USE DEF Ready, CheckerType
  <2>1. checker[c] \in CheckerType /\ Ready(checker[c])
    BY <1>2
  <2>2. IdleChecker \in CheckerType /\ Ready(IdleChecker)
    BY DEF IdleChecker
  <2>3. ASSUME NEW pc \in {"scan", "cap", "halt", "soft", "claim", "warn"},
               checker[c].pc # "idle"
        PROVE  Ready(Known(checker[c], pc))
    <3>1. checker[c].period \in Months
      BY <2>1, <2>3
    <3>2. (pc = "scan" /\ checker[c].spent) \in BOOLEAN
      OBVIOUS
    <3>3. ASSUME NEW b \in BOOLEAN, NEW w \in Months \union {0}, NEW s \in SoftLimits \union {0}
          PROVE  Ready([IdleChecker EXCEPT !.pc = pc, !.period = checker[c].period, !.spent = b,
                                           !.warned = w, !.soft = s])
      BY ONLY <3>1 DEF IdleChecker, Ready, CheckerType
    <3> HIDE DEF Ready
    <3>4. /\ (IF pc = "soft" THEN checker[c].warned ELSE 0) \in Months \union {0}
          /\ (IF pc = "soft" THEN checker[c].soft ELSE 0) \in SoftLimits \union {0}
      BY ONLY <2>1 DEF CheckerType
    <3> QED BY ONLY <3>2, <3>3, <3>4 DEF Known
  <2>4. CASE StartRun(c)
    <3>1. \A b \in BOOLEAN :
             Ready([IdleChecker EXCEPT !.pc = "stale", !.period = month, !.spent = b])
      BY <1>2, <2>2 DEF IdleChecker
    <3>2. (usage[month] > 0) \in BOOLEAN
      OBVIOUS
    <3>3. Ready([IdleChecker EXCEPT !.pc = "stale", !.period = month, !.spent = usage[month] > 0])
      BY ONLY <3>1, <3>2
    <3> QED BY ONLY <2>4, <3>3 DEF StartRun
  <2>5. CASE SelectStale(c)
    <3>1. Ready([checker[c] EXCEPT !.pc = "resume", !.restore = Restored(org)])
      <4>1. Restored(org) \in {"active", "trial", "unconfigured"}
        BY DEF Restored
      <4>2. checker[c].period \in Months
        BY <2>1, <2>5 DEF SelectStale
      <4> QED BY ONLY <2>1, <4>1, <4>2 DEF Ready, CheckerType
    <3>2. Ready(Known(checker[c], "scan"))
      BY <2>3, <2>5 DEF SelectStale
    <3>3. Moved([checker[c] EXCEPT !.pc = "resume", !.restore = Restored(org)])
          \/ Moved(Known(checker[c], "scan"))
      BY <2>5 DEF SelectStale, Goto
    <3> HIDE DEF Ready, Moved
    <3> QED BY <3>1, <3>2, <3>3
  <2>6. CASE ReadOrg(c)
    <3> DEFINE k == [IdleChecker EXCEPT !.pc = "cap", !.period = checker[c].period,
                         !.status = org.status, !.hard = org.hard,
                         !.warned = org.warned, !.soft = org.soft]
    <3>1. /\ org.status \in Statuses /\ org.warned \in Months \union {0}
          /\ org.soft \in SoftLimits /\ org.hard \in HardLimits
      BY <1>2 DEF OrgType
    <3>2. checker[c].period \in Months
      BY <2>1, <2>6 DEF ReadOrg
    <3>3. Ready(k)
      BY ONLY <3>1, <3>2 DEF IdleChecker, Ready, CheckerType
    <3>4. Ready(Known(k, "soft"))
      BY ONLY <3>1, <3>2 DEF IdleChecker, Known, Ready, CheckerType
    <3>5. Moved(k) \/ Moved(Known(k, "soft")) \/ Moved(IdleChecker)
      BY <2>6 DEF ReadOrg, EndRun
    <3> HIDE DEF k, Moved, Ready
    <3> QED BY <2>2, <3>3, <3>4, <3>5
  <2>7. CASE AutoResume(c) \/ CheckCap(c) \/ CheckSoft(c)
    BY <2>2, <2>3, <2>7 DEF AutoResume, CheckCap, CheckSoft, Goto, EndRun
  <2>8. CASE AutoHalt(c) \/ ClaimWarn(c) \/ Warn(c) \/ CheckerFails(c)
    BY <2>2, <2>3, <2>8 DEF AutoHalt, ClaimWarn, Warn, CheckerFails, Goto, EndRun
  <2> QED BY <2>4, <2>5, <2>6, <2>7, <2>8 DEF CheckerNext
<1>7. \A d \in Checkers : Ready(checker'[d])
  BY <1>2, <1>6
<1>8. checker' \in [Checkers -> CheckerType]
  BY <1>2, <1>6 DEF Ready
<1> QED BY <1>1, <1>3, <1>4, <1>5, <1>7, <1>8, TypeKept DEF TypeOK, Ready

(* Every column, snapshot and ledger entry keeps its type. *)
THEOREM BillingTypes == Spec => []TypeOK
<1>1. Init => TypeOK
  BY TypeInit
<1>2. TypeOK /\ [Next]_vars => TypeOK'
  <2> SUFFICES ASSUME TypeOK, [Next]_vars PROVE TypeOK'
    OBVIOUS
  <2>1. CASE UNCHANGED vars
    BY <2>1 DEF TypeOK, vars, rowHist
  <2> QED BY <2>1, TypeStripe, TypeHandler, TypeAdmin, TypeTime, TypeChecker DEF Next
<1> QED BY <1>1, <1>2, PTL DEF Spec

-----------------------------------------------------------------------------
(* The worker and the admins.                                              *)

(* aiThresholdWorker.js:101-111, 163-172: the guards of the two UPDATEs are
   evaluated on the row as it is then, so what a run has read before may be stale
   and still the worker lifts none but its own halts and halts none but the
   billable. *)
THEOREM AdminsKeepTheirOrgs == Spec => WorkerLeavesAdmins
<1> DEFINE Fine == \A c \in Checkers :
                      checker'[c] # checker[c] /\ org'.status # org.status =>
                         \/ AutoHalted(org)
                         \/ org.status \in Billable /\ AutoHalted(org')
<1>1. TypeOK /\ [Next]_vars => [Fine]_vars
  <2> SUFFICES ASSUME TypeOK, Next PROVE Fine
    OBVIOUS
  <2>1. CASE StripeNext \/ AdminNext \/ TimeNext
    BY <2>1 DEF StripeNext, Subscribe, ChangeSub, CancelSub, Emit, AdminNext, Halt, Comp,
       StartTrial, SetThreshold, SetHardCap, ResumeRead, ResumeWrite, AdminUnchanged,
       TimeNext, Spend, NextMonth, TrialEnds, TimeUnchanged
  <2>2. ASSUME NEW d \in Handlers,
               (\E i \in 1..Len(sent) : Deliver(d, i)) \/ HandlerNext(d) \/ HandlerFails(d)
        PROVE  Fine
    BY <2>2 DEF Deliver, HandlerNext, RecordEvent, IgnoreDuplicate, ProcessEvent, HandlerFails
  <2>3. ASSUME NEW c \in Checkers, CheckerNext(c) \/ CheckerFails(c)
        PROVE  Fine
    <3>1. CASE AutoResume(c)
      BY <3>1 DEF AutoResume
    <3>2. CASE AutoHalt(c)
      BY <3>2 DEF AutoHalt, AutoHalted, TypeOK
    <3>3. CASE ClaimWarn(c)
      BY <3>3 DEF ClaimWarn, TypeOK
    <3>4. CASE UNCHANGED org
      BY <3>4
    <3> QED BY <2>3, <3>1, <3>2, <3>3, <3>4
            DEF CheckerNext, CheckerFails, StartRun, SelectStale, ReadOrg, CheckCap, CheckSoft,
                Warn, RowUnchanged
  <2> QED BY <2>1, <2>2, <2>3 DEF Next
<1> QED BY <1>1, BillingTypes, PTL DEF Spec, WorkerLeavesAdmins

-----------------------------------------------------------------------------
(* One warning per month.                                                  *)

\* Instances that claimed the warning of month m and have not sent it yet.
Warners(m) == {c \in Checkers : checker[c].pc = "warn" /\ checker[c].period = m}

\* A warning sent, a claimed one and one that may still be claimed each take one
\* of those the month allows.
Budget(m) ==
    warned[m] + Cardinality(Warners(m)) + (IF org.warned = m THEN 0 ELSE 1) <= 1 + rearmed[m]

WarnInv ==
    /\ Budget(month)
    /\ org.warned <= month
    /\ \A c \in Checkers : checker[c].pc # "idle" => checker[c].period = month
    /\ \A m \in Months : m > month => warned[m] = 0
    /\ \A m \in Months : m < month => warned[m] <= 1 + rearmed[m]

(* A run that stays in its month moves among the warners by claim and warning. *)
LEMMA WarnersCount ==
  ASSUME IsFiniteSet(Checkers), NEW c \in Checkers, NEW m,
         \A d \in Checkers \ {c} : checker'[d] = checker[d]
  PROVE  /\ Cardinality(Warners(m)) \in Nat /\ Cardinality(Warners(m)') \in Nat
         /\ Cardinality(Warners(m)') <= Cardinality(Warners(m)) + 1
         /\ (c \in Warners(m)' => c \in Warners(m))
               => Cardinality(Warners(m)') <= Cardinality(Warners(m))
         /\ c \notin Warners(m)' /\ c \in Warners(m)
               => Cardinality(Warners(m)') + 1 <= Cardinality(Warners(m))
<1> DEFINE F == Warners(m)
           G == Warners(m)'
<1>1. IsFiniteSet(Checkers) /\ F \subseteq Checkers /\ G \subseteq Checkers
  BY DEF Warners
<1>2. \A d \in Checkers \ {c} : d \in G <=> d \in F
  BY DEF Warners
<1> HIDE DEF F, G
<1>3. IsFiniteSet(F) /\ IsFiniteSet(G) /\ IsFiniteSet(F \union {c})
  BY <1>1, FS_Subset, FS_AddElement
<1>4. Cardinality(F) \in Nat /\ Cardinality(G) \in Nat
  BY <1>3, FS_CardinalityType
<1>5. Cardinality(G) <= Cardinality(F) + 1
  <2>1. G \subseteq F \union {c}
    BY <1>1, <1>2
  <2>2. Cardinality(G) <= Cardinality(F \union {c})
    BY <1>3, <2>1, FS_Subset
  <2>3. Cardinality(F \union {c}) <= Cardinality(F) + 1
    BY <1>3, <1>4, FS_AddElement
  <2>4. Cardinality(F \union {c}) \in Nat
    BY <1>3, FS_CardinalityType
  <2> QED BY <1>4, <2>2, <2>3, <2>4
<1>6. ASSUME c \in G => c \in F PROVE Cardinality(G) <= Cardinality(F)
  <2>1. G \subseteq F
    BY <1>1, <1>2, <1>6
  <2> QED BY <1>3, <2>1, FS_Subset
<1>7. ASSUME c \notin G, c \in F PROVE Cardinality(G) + 1 <= Cardinality(F)
  <2>1. G \subseteq F /\ G # F
    BY <1>1, <1>2, <1>7
  <2>2. Cardinality(G) <= Cardinality(F) /\ Cardinality(F) # Cardinality(G)
    BY <1>3, <2>1, FS_Subset
  <2> QED BY <1>4, <2>2
<1> QED BY <1>4, <1>5, <1>6, <1>7 DEF F, G

(* A run that goes on stays in its month. *)
LEMMA RunGoesOn ==
  ASSUME TypeOK, NEW c \in Checkers
  PROVE  /\ \A pc : Goto(c, pc) => checker'[c].pc = pc /\ checker'[c].period = checker[c].period
         /\ EndRun(c) => checker'[c].pc = "idle"
<1>1. checker \in [Checkers -> CheckerType]
  BY DEF TypeOK, CheckerType
<1>2. \A pc : Known(checker[c], pc).pc = pc /\ Known(checker[c], pc).period = checker[c].period
  BY DEF Known, IdleChecker
<1> QED BY <1>1, <1>2 DEF Goto, EndRun, IdleChecker

(* Reading the row leads to the cap or to the threshold. *)
LEMMA ReadOrgMoves ==
  ASSUME TypeOK, NEW c \in Checkers, ReadOrg(c)
  PROVE  \/ EndRun(c)
         \/ checker'[c].period = checker[c].period /\ checker'[c].pc \in {"cap", "soft"}
<1>1. checker \in [Checkers -> CheckerType]
  BY DEF TypeOK, CheckerType
<1> DEFINE k == [IdleChecker EXCEPT !.pc = "cap", !.period = checker[c].period,
                     !.status = org.status, !.hard = org.hard,
                     !.warned = org.warned, !.soft = org.soft]
<1>2. k.pc = "cap" /\ k.period = checker[c].period
  BY DEF IdleChecker
<1>3. Known(k, "soft").pc = "soft" /\ Known(k, "soft").period = k.period
  BY DEF Known, IdleChecker
<1>4. \/ checker' = [checker EXCEPT ![c] = k]
      \/ checker' = [checker EXCEPT ![c] = Known(k, "soft")]
      \/ EndRun(c)
  BY DEF ReadOrg
<1> HIDE DEF k
<1> QED BY <1>1, <1>2, <1>3, <1>4

(* The runs of the worker keep the budget. *)
LEMMA WarnChecker ==
  ASSUME IsFiniteSet(Checkers), TypeOK, WarnInv, NEW c \in Checkers,
         CheckerNext(c) \/ CheckerFails(c)
  PROVE  WarnInv'
<1> USE DEF RowUnchanged, CheckerUnchanged
<1> DEFINE n == Cardinality(Warners(month))
           k == Cardinality(Warners(month)')
<1>1. UNCHANGED <<month, rearmed>>
  BY DEF CheckerNext, CheckerFails, StartRun, SelectStale, AutoResume, ReadOrg, CheckCap,
         AutoHalt, CheckSoft, ClaimWarn, Warn, timeVars
<1>2. /\ checker \in [Checkers -> CheckerType] /\ org \in OrgType
      /\ warned \in [Months -> Nat] /\ rearmed \in [Months -> Nat] /\ month \in Months
      /\ month \in Nat /\ warned[month] \in Nat /\ rearmed[month] \in Nat
  <2>1. /\ checker \in [Checkers -> CheckerType] /\ org \in OrgType
        /\ warned \in [Months -> Nat] /\ rearmed \in [Months -> Nat] /\ month \in Months
    BY DEF TypeOK, OrgType, CheckerType
  <2>2. month \in Nat
    BY <2>1 DEF Months
  <2> QED BY <2>1, <2>2
<1>3. \A d \in Checkers \ {c} : checker'[d] = checker[d]
  BY <1>2 DEF CheckerNext, CheckerFails, StartRun, SelectStale, AutoResume, ReadOrg, CheckCap,
         AutoHalt, CheckSoft, ClaimWarn, Warn, Goto, EndRun
<1>4. checker'[c].pc = "idle" \/ checker'[c].period = month
  <2>1. checker[c].pc # "idle" => checker[c].period = month
    BY DEF WarnInv
  <2>2. \A pc : Goto(c, pc) => checker'[c].period = checker[c].period
    BY RunGoesOn
  <2>3. EndRun(c) => checker'[c].pc = "idle"
    BY RunGoesOn
  <2>4. CASE StartRun(c)
    BY <1>2, <2>4 DEF StartRun, IdleChecker
  <2>5. CASE SelectStale(c)
    BY <1>2, <2>1, <2>2, <2>5 DEF SelectStale, CheckerType
  <2>6. CASE ReadOrg(c)
    <3>1. checker[c].pc # "idle"
      BY <2>6 DEF ReadOrg
    <3> QED BY <2>1, <2>3, <2>6, <3>1, ReadOrgMoves
  <2>7. ASSUME checker[c].pc # "idle", EndRun(c) \/ \E pc : Goto(c, pc)
        PROVE  checker'[c].pc = "idle" \/ checker'[c].period = month
    BY <2>1, <2>2, <2>3, <2>7
  <2>8. CASE AutoResume(c) \/ CheckCap(c) \/ CheckSoft(c) \/ ClaimWarn(c) \/ AutoHalt(c)
             \/ Warn(c) \/ CheckerFails(c)
    <3>1. checker[c].pc # "idle" /\ (EndRun(c) \/ \E pc : Goto(c, pc))
      BY <2>8 DEF AutoResume, CheckCap, CheckSoft, ClaimWarn, AutoHalt, Warn, CheckerFails
    <3> QED BY <2>7, <3>1
  <2> QED BY <2>4, <2>5, <2>6, <2>8 DEF CheckerNext
<1>5. \A d \in Checkers : checker'[d].pc # "idle" => checker'[d].period = month'
  BY <1>1, <1>3, <1>4 DEF WarnInv
<1>6. /\ n \in Nat /\ k \in Nat /\ k <= n + 1
      /\ (c \in Warners(month)' => c \in Warners(month)) => k <= n
      /\ c \notin Warners(month)' /\ c \in Warners(month) => k + 1 <= n
  <2>1. /\ Cardinality(Warners(month)) \in Nat
        /\ \A m \in Months : Warners(m)' = {d \in Checkers : checker'[d].pc = "warn" /\ checker'[d].period = m}
    BY <1>3, WarnersCount DEF Warners
  <2> QED BY <1>1, <1>3, WarnersCount DEF Warners
<1>7. /\ warned[month] + n + (IF org.warned = month THEN 0 ELSE 1) <= 1 + rearmed[month]
      /\ org.warned <= month
      /\ \A m \in Months : m > month => warned[m] = 0
      /\ \A m \in Months : m < month => warned[m] <= 1 + rearmed[m]
      /\ checker[c].pc # "idle" => checker[c].period = month
  BY DEF WarnInv, Budget
<1>8. SUFFICES /\ warned'[month] + k + (IF org'.warned = month THEN 0 ELSE 1) <= 1 + rearmed[month]
               /\ org'.warned <= month
               /\ \A m \in Months : m > month => warned'[m] = 0
               /\ \A m \in Months : m < month => warned'[m] <= 1 + rearmed[m]
  BY <1>1, <1>5 DEF WarnInv, Budget
<1> HIDE DEF n, k
<1>9. CASE ClaimWarn(c) /\ org.warned # month
  <2>1. org'.warned = month /\ UNCHANGED warned
    BY <1>2, <1>7, <1>9 DEF ClaimWarn, OrgType
  <2> QED BY <1>2, <1>6, <1>7, <1>9, <2>1
<1>10. CASE Warn(c)
  <2>1. c \in Warners(month)
    BY <1>7, <1>10 DEF Warn, Warners
  <2>2. c \notin Warners(month)'
    BY <1>2, <1>10 DEF Warn, EndRun, IdleChecker, Warners
  <2>3. k + 1 <= n
    BY <1>6, <2>1, <2>2
  <2>4. warned' = [warned EXCEPT ![month] = @ + 1] /\ UNCHANGED org
    BY <1>7, <1>10 DEF Warn
  <2>5. \A m \in Months : warned'[m] = IF m = month THEN warned[m] + 1 ELSE warned[m]
    BY <1>2, <2>4
  <2> QED BY <1>2, <1>6, <1>7, <2>3, <2>4, <2>5
<1>11. ASSUME c \notin Warners(month)', UNCHANGED warned, org'.warned = org.warned
       PROVE  /\ warned'[month] + k + (IF org'.warned = month THEN 0 ELSE 1) <= 1 + rearmed[month]
              /\ org'.warned <= month
              /\ \A m \in Months : m > month => warned'[m] = 0
              /\ \A m \in Months : m < month => warned'[m] <= 1 + rearmed[m]
  <2>1. k <= n
    BY <1>6, <1>11
  <2> QED BY <1>2, <1>6, <1>7, <1>11, <2>1
<1>12. ASSUME checker'[c].pc # "warn" PROVE c \notin Warners(month)'
  BY <1>12 DEF Warners
<1>13. CASE ~(ClaimWarn(c) /\ org.warned # month) /\ ~Warn(c)
  <2>1. UNCHANGED warned
    BY <1>13 DEF CheckerNext, CheckerFails, StartRun, SelectStale, AutoResume, ReadOrg, CheckCap,
       AutoHalt, CheckSoft, ClaimWarn
  <2>2. org'.warned = org.warned
    <3>1. CASE AutoResume(c)
      BY <1>2, <3>1 DEF AutoResume, Lifted, OrgType
    <3>2. CASE AutoHalt(c)
      BY <1>2, <3>2 DEF AutoHalt, OrgType
    <3>3. CASE UNCHANGED org
      BY <3>3
    <3> QED BY <1>7, <1>13, <3>1, <3>2, <3>3
            DEF CheckerNext, CheckerFails, StartRun, SelectStale, ReadOrg, CheckCap, CheckSoft,
                ClaimWarn
  <2>3. checker'[c].pc # "warn"
    <3>1. \A pc : Goto(c, pc) => checker'[c].pc = pc
      BY RunGoesOn
    <3>2. EndRun(c) => checker'[c].pc = "idle"
      BY RunGoesOn
    <3>3. CASE StartRun(c)
      BY <1>2, <3>3 DEF StartRun, IdleChecker
    <3>4. CASE SelectStale(c)
      BY <1>2, <3>1, <3>4 DEF SelectStale, CheckerType
    <3>5. CASE ReadOrg(c)
      <4>1. EndRun(c) \/ checker'[c].pc \in {"cap", "soft"}
        BY <3>5, ReadOrgMoves
      <4> QED BY <3>2, <4>1
    <3>6. CASE AutoResume(c) \/ CheckCap(c) \/ CheckSoft(c) \/ AutoHalt(c) \/ CheckerFails(c)
      <4>1. EndRun(c) \/ \E pc \in {"scan", "halt", "soft", "claim"} : Goto(c, pc)
        BY <3>6 DEF AutoResume, CheckCap, CheckSoft, AutoHalt, CheckerFails
      <4> QED BY <3>1, <3>2, <4>1
    <3>7. CASE ClaimWarn(c)
      BY <1>7, <1>13, <3>2, <3>7 DEF ClaimWarn
    <3> QED BY <1>13, <3>3, <3>4, <3>5, <3>6, <3>7 DEF CheckerNext
  <2> QED BY <1>11, <1>12, <2>1, <2>2, <2>3
<1> QED BY <1>9, <1>10, <1>13

(* The rest of the system: an admin who arms the warning again adds to the
   budget, and the clock moves on only when no run is under way. *)
LEMMA WarnElsewhere ==
  ASSUME IsFiniteSet(Checkers), RunsFitInMonth, TypeOK, WarnInv,
         \/ StripeNext \/ AdminNext \/ TimeNext \/ UNCHANGED vars
         \/ \E d \in Handlers : \/ \E i \in 1..Len(sent) : Deliver(d, i)
                                \/ HandlerNext(d) \/ HandlerFails(d)
  PROVE  WarnInv'
<1>1. UNCHANGED <<checker, warned>>
  BY DEF StripeNext, Subscribe, ChangeSub, CancelSub, Emit, AdminNext, Halt, Comp, StartTrial,
         SetThreshold, SetHardCap, ResumeRead, ResumeWrite, AdminUnchanged, TimeNext, Spend,
         NextMonth, TrialEnds, TimeUnchanged, Deliver, HandlerNext, RecordEvent,
         IgnoreDuplicate, ProcessEvent, HandlerFails, warnVars, vars
<1>2. /\ org \in OrgType /\ month \in Months /\ month \in Nat /\ org.warned \in Nat
      /\ warned \in [Months -> Nat] /\ rearmed \in [Months -> Nat] /\ checker \in [Checkers -> CheckerType]
      /\ warned[month] \in Nat /\ rearmed[month] \in Nat
  <2>1. /\ org \in OrgType /\ month \in Months
        /\ warned \in [Months -> Nat] /\ rearmed \in [Months -> Nat] /\ checker \in [Checkers -> CheckerType]
    BY DEF TypeOK, OrgType, CheckerType
  <2>2. month \in Nat /\ org.warned \in Nat
    BY <2>1 DEF Months, OrgType
  <2> QED BY <2>1, <2>2
<1>3. Cardinality(Warners(month)) \in Nat
  <2>1. Warners(month) \subseteq Checkers
    BY DEF Warners
  <2> QED BY <2>1, FS_Subset, FS_CardinalityType
<1>4. CASE SetThreshold(org'.soft, org'.hard)
  <2>1. org'.warned = 0 /\ month' = month /\ rearmed' = [rearmed EXCEPT ![month] = @ + 1]
    BY <1>2, <1>4 DEF SetThreshold, AdminUnchanged, timeVars, OrgType
  <2>2. \A m \in Months : rearmed'[m] = IF m = month THEN rearmed[m] + 1 ELSE rearmed[m]
    BY <1>2, <2>1
  <2>3. Warners(month)' = Warners(month)
    BY <1>1, <2>1 DEF Warners
  <2>4. Budget(month)'
    BY <1>1, <1>2, <1>3, <2>1, <2>2, <2>3 DEF WarnInv, Budget
  <2> QED BY <1>1, <1>2, <2>1, <2>2, <2>4 DEF WarnInv
<1>5. CASE org'.warned = org.warned /\ UNCHANGED <<month, rearmed>>
  <2>1. Warners(month)' = Warners(month)
    BY <1>1, <1>5 DEF Warners
  <2> QED BY <1>1, <1>5, <2>1 DEF WarnInv, Budget
<1>6. CASE NextMonth
  <2>1. /\ month' = month + 1 /\ UNCHANGED <<org, rearmed>>
        /\ \A c \in Checkers : checker[c].pc = "idle"
    BY <1>6 DEF NextMonth, TimeUnchanged, warnVars
  <2>2. Warners(month)' = {}
    BY <1>1, <2>1 DEF Warners
  <2>3. month' \in Months
    <3>1. month < LastMonth /\ LastMonth \in Nat
      BY <1>6, BillingAssumption DEF NextMonth
    <3> QED BY <1>2, <2>1, <3>1 DEF Months
  <2>4. warned[month'] = 0 /\ rearmed[month'] \in Nat
    BY <1>2, <2>1, <2>3 DEF WarnInv
  <2>5. Budget(month)'
    <3>1. Cardinality(Warners(month)') = 0
      BY <2>2, FS_EmptySet
    <3>2. warned'[month'] = 0 /\ rearmed'[month'] \in Nat
      BY <1>1, <2>1, <2>4
    <3> DEFINE one == IF org'.warned = month' THEN 0 ELSE 1
    <3>3. one \in {0, 1} /\ warned'[month'] + 0 + one <= 1 + rearmed'[month']
      BY <3>2
    <3> QED BY <3>1, <3>3 DEF Budget
  <2>6. warned[month] <= 1 + rearmed[month]
    BY <1>2, <1>3 DEF WarnInv, Budget
  <2>7. \A m \in Months : m < month + 1 => m < month \/ m = month
    BY <1>2 DEF Months
  <2>8. \A m \in Months : m > month + 1 => m > month
    BY <1>2 DEF Months
  <2> QED BY <1>1, <1>2, <2>1, <2>5, <2>6, <2>7, <2>8 DEF WarnInv
<1>7. ASSUME ~NextMonth, \A s \in SoftLimits, h \in HardLimits : ~SetThreshold(s, h)
      PROVE  org'.warned = org.warned /\ UNCHANGED <<month, rearmed>>
  <2>1. CASE StripeNext \/ AdminNext \/ TimeNext \/ UNCHANGED vars
    BY <1>2, <1>7, <2>1
       DEF StripeNext, Subscribe, ChangeSub, CancelSub, Emit, AdminNext, Halt, Comp, StartTrial,
           SetHardCap, ResumeRead, ResumeWrite, AdminUnchanged, TimeNext, Spend, TrialEnds,
           TimeUnchanged, warnVars, timeVars, vars, Lifted, OrgType
  <2>2. ASSUME NEW d \in Handlers,
               (\E i \in 1..Len(sent) : Deliver(d, i)) \/ HandlerNext(d) \/ HandlerFails(d)
        PROVE  org'.warned = org.warned /\ UNCHANGED <<month, rearmed>>
    <3>1. UNCHANGED <<month, rearmed>>
      BY <2>2 DEF Deliver, HandlerNext, RecordEvent, IgnoreDuplicate, ProcessEvent, HandlerFails,
                  timeVars, warnVars
    <3>2. Process(d) \/ UNCHANGED org
      BY <2>2 DEF Deliver, HandlerNext, RecordEvent, IgnoreDuplicate, ProcessEvent, HandlerFails
    <3>3. \A ev : AfterEvent(ev).warned = org.warned
      BY <1>2 DEF AfterEvent, OrgType
    <3> QED BY <3>1, <3>2, <3>3 DEF Process, WriteRow
  <2> QED BY <2>1, <2>2
<1>8. ASSUME NEW s \in SoftLimits, NEW h \in HardLimits, SetThreshold(s, h)
      PROVE  WarnInv'
  <2>1. org'.soft = s /\ org'.hard = h
    BY <1>2, <1>8 DEF SetThreshold, OrgType
  <2> QED BY <1>4, <1>8, <2>1
<1> QED BY <1>5, <1>6, <1>7, <1>8

(* aiThresholdWorker.js:10-12: one warning per month and re-arming, on however
   many instances, as long as runs end within their month. *)
THEOREM OneWarning ==
  ASSUME IsFiniteSet(Checkers), RunsFitInMonth
  PROVE  Spec => []OneWarnPerMonth
<1>1. Init => WarnInv
  <2> SUFFICES ASSUME Init PROVE WarnInv
    OBVIOUS
  <2>1. /\ month = 1 /\ org.warned = 0 /\ 1 \in Months
        /\ \A m \in Months : warned[m] = 0 /\ rearmed[m] = 0
        /\ \A c \in Checkers : checker[c].pc = "idle"
    BY BillingAssumption DEF Init, IdleChecker, Months
  <2>2. Warners(month) = {}
    BY <2>1 DEF Warners
  <2>3. Budget(month)
    BY <2>1, <2>2, FS_EmptySet DEF Budget
  <2> QED BY <2>1, <2>3 DEF WarnInv
<1>2. TypeOK /\ WarnInv /\ [Next]_vars => WarnInv'
  BY WarnChecker, WarnElsewhere DEF Next
<1>3. TypeOK /\ WarnInv => OneWarnPerMonth
  <2> SUFFICES ASSUME TypeOK, WarnInv, NEW m \in Months
               PROVE  warned[m] <= 1 + rearmed[m]
    BY DEF OneWarnPerMonth
  <2>1. /\ month \in Nat /\ m \in Nat /\ warned[m] \in Nat /\ rearmed[m] \in Nat
    BY DEF TypeOK, Months
  <2>2. CASE m = month
    <3>1. Warners(month) \subseteq Checkers
      BY DEF Warners
    <3>2. Cardinality(Warners(month)) \in Nat
      BY <3>1, FS_Subset, FS_CardinalityType
    <3> QED BY <2>1, <2>2, <3>2 DEF WarnInv, Budget
  <2>3. CASE m < month
    BY <2>3 DEF WarnInv
  <2>4. CASE m > month
    <3>1. warned[m] = 0
      BY <2>4 DEF WarnInv
    <3> QED BY <2>1, <3>1
  <2> QED BY <2>1, <2>2, <2>3, <2>4
<1> QED BY <1>1, <1>2, <1>3, BillingTypes, PTL DEF Spec

-----------------------------------------------------------------------------
(* Paying with a subscription.                                             *)

(* Admins, the clock and the threshold worker leave the subscription alone. *)
LEMMA SubElsewhere ==
  ASSUME TypeOK,
         AdminNext \/ TimeNext \/ (\E c \in Checkers : CheckerNext(c)) \/ UNCHANGED vars
  PROVE  org'.sub = org.sub
<1>1. org \in OrgType
  BY DEF TypeOK, OrgType
<1>2. CASE UNCHANGED org
  BY <1>2
<1>3. CASE AdminNext
  BY <1>1, <1>3 DEF AdminNext, Halt, Comp, StartTrial, SetThreshold, SetHardCap, ResumeRead,
                    ResumeWrite, Lifted, OrgType
<1>4. CASE TimeNext
  BY <1>1, <1>4 DEF TimeNext, Spend, NextMonth, TrialEnds, TimeUnchanged, OrgType
<1>5. ASSUME NEW c \in Checkers, CheckerNext(c)
      PROVE  org'.sub = org.sub
  <2>1. CASE AutoResume(c)
    BY <1>1, <2>1 DEF AutoResume, Lifted, OrgType
  <2>2. CASE AutoHalt(c)
    BY <1>1, <2>2 DEF AutoHalt, OrgType
  <2>3. CASE ClaimWarn(c)
    BY <1>1, <2>3 DEF ClaimWarn, OrgType
  <2> QED BY <1>2, <1>5, <2>1, <2>2, <2>3
             DEF CheckerNext, StartRun, SelectStale, ReadOrg, CheckCap, CheckSoft, Warn,
                 RowUnchanged
<1> QED BY <1>2, <1>3, <1>4, <1>5 DEF vars

(* What a handler writes. *)
LEMMA EventWritten ==
  ASSUME TypeOK, NEW d \in Handlers,
         (\E i \in 1..Len(sent) : Deliver(d, i)) \/ HandlerNext(d) \/ HandlerFails(d)
  PROVE  /\ UNCHANGED <<stripe, sent, checker, resume>>
         /\ \/ UNCHANGED <<org, last, crossed>>
            \/ /\ handler[d].id \in 1..Len(sent) /\ sent[handler[d].id] \in Event
               /\ ~Ignored(sent[handler[d].id]) /\ WriteRow(handler[d].id)
<1>1. UNCHANGED <<stripe, sent, checker, resume>>
  BY DEF Deliver, HandlerNext, RecordEvent, IgnoreDuplicate, ProcessEvent, HandlerFails, stripeVars
<1>2. UNCHANGED <<org, last, crossed>> \/ (handler[d].pc = "recorded" /\ Process(d))
  <2>1. CASE \E i \in 1..Len(sent) : Deliver(d, i)
    BY <2>1 DEF Deliver, rowHist
  <2>2. CASE RecordEvent(d) \/ IgnoreDuplicate(d)
    BY <2>2 DEF RecordEvent, IgnoreDuplicate, rowHist
  <2>3. CASE ProcessEvent(d)
    BY <2>3 DEF ProcessEvent
  <2>4. CASE HandlerFails(d)
    BY <2>4 DEF HandlerFails, rowHist
  <2> QED BY <2>1, <2>2, <2>3, <2>4 DEF HandlerNext
<1>3. CASE handler[d].pc = "recorded" /\ Process(d)
  <2>1. handler[d].id \in 1..Len(sent) /\ sent \in Seq(Event)
    BY <1>3 DEF TypeOK
  <2>2. sent[handler[d].id] \in Event
    BY ONLY <2>1
  <2> QED BY <1>1, <1>3, <2>1, <2>2 DEF Process, rowHist
<1> QED BY <1>1, <1>2, <1>3

(* Whoever is paying, or is about to be, without a subscription on record was
   under way when it was cancelled. *)
PayInv == org.sub = 0 /\ (org.status \in {"active", "past_due"} \/ Resuming) => crossed

(* The worker: where it is going is what it has read. *)
LEMMA PayingChecker ==
  ASSUME TypeOK, PayInv, NEW c \in Checkers, CheckerNext(c) \/ CheckerFails(c)
  PROVE  PayInv'
<1>1. org \in OrgType /\ checker \in [Checkers -> CheckerType]
  BY DEF TypeOK, OrgType, CheckerType
<1>2. UNCHANGED <<resume, crossed>> /\ \A d \in Checkers \ {c} : checker'[d] = checker[d]
  BY <1>1 DEF CheckerNext, CheckerFails, StartRun, SelectStale, AutoResume, ReadOrg, CheckCap,
     AutoHalt, CheckSoft, ClaimWarn, Warn, CheckerUnchanged, hookVars, rowHist, Goto, EndRun
<1>3. org'.sub = org.sub
  <2>1. CASE CheckerFails(c)
    BY <2>1 DEF CheckerFails
  <2> QED BY <2>1, SubElsewhere
<1>4. org.sub = 0 /\ checker'[c].pc = "resume" /\ checker'[c].restore = "active" => Resuming
  <2>1. CASE SelectStale(c)
    <3>1. \/ checker'[c].restore = Restored(org)
          \/ checker'[c].pc = "scan"
      BY <1>1, <2>1, RunGoesOn DEF SelectStale, CheckerType
    <3> QED BY <3>1 DEF Restored
  <2>2. CASE StartRun(c)
    BY <1>1, <2>2 DEF StartRun, IdleChecker
  <2>3. CASE ReadOrg(c)
    BY <2>3, ReadOrgMoves, RunGoesOn
  <2>4. CASE AutoResume(c) \/ CheckCap(c) \/ AutoHalt(c) \/ CheckSoft(c) \/ ClaimWarn(c)
             \/ Warn(c) \/ CheckerFails(c)
    <3>1. EndRun(c) \/ \E pc \in {"scan", "halt", "soft", "claim", "warn"} : Goto(c, pc)
      BY <2>4 DEF AutoResume, CheckCap, AutoHalt, CheckSoft, ClaimWarn, Warn, CheckerFails
    <3> QED BY <3>1, RunGoesOn
  <2> QED BY <2>1, <2>2, <2>3, <2>4 DEF CheckerNext
<1>5. org.sub = 0 /\ Resuming' => Resuming
  BY <1>2, <1>4 DEF Resuming
<1>6. org'.status \in {"active", "past_due"} => org.status \in {"active", "past_due"} \/ Resuming
  <2>1. CASE AutoResume(c)
    <3>1. org' = org \/ org'.status = checker[c].restore
      BY <1>1, <2>1 DEF AutoResume, Lifted, OrgType
    <3>2. checker[c].restore # "past_due"
      BY <1>1 DEF CheckerType
    <3> QED BY <2>1, <3>1, <3>2 DEF AutoResume, Resuming
  <2>2. CASE AutoHalt(c)
    BY <1>1, <2>2 DEF AutoHalt, OrgType
  <2>3. CASE ClaimWarn(c)
    BY <1>1, <2>3 DEF ClaimWarn, OrgType
  <2>4. CASE UNCHANGED org
    BY <2>4
  <2> QED BY <2>1, <2>2, <2>3, <2>4
          DEF CheckerNext, CheckerFails, StartRun, SelectStale, ReadOrg, CheckCap, CheckSoft,
              Warn, RowUnchanged
<1> QED BY <1>2, <1>3, <1>5, <1>6 DEF PayInv

(* Everyone else: /ai/resume reads and writes in two statements, and an event that
   takes the subscription off the row tells whether one of them is under way. *)
LEMMA PayingElsewhere ==
  ASSUME TypeOK, PayInv,
         \/ StripeNext \/ AdminNext \/ TimeNext \/ UNCHANGED vars
         \/ \E d \in Handlers : \/ \E i \in 1..Len(sent) : Deliver(d, i)
                                \/ HandlerNext(d) \/ HandlerFails(d)
  PROVE  PayInv'
<1>1. org \in OrgType
  BY DEF TypeOK, OrgType
<1>2. CASE StripeNext \/ TimeNext \/ UNCHANGED vars
  <2>1. UNCHANGED <<checker, resume, crossed>>
    BY <1>2 DEF StripeNext, Subscribe, ChangeSub, CancelSub, Emit, TimeNext, Spend, NextMonth,
       TrialEnds, TimeUnchanged, hookVars, rowHist, vars
  <2>2. org'.status = org.status /\ org'.sub = org.sub
    BY <1>1, <1>2 DEF StripeNext, Subscribe, ChangeSub, CancelSub, Emit, TimeNext, Spend, NextMonth,
       TrialEnds, vars, OrgType
  <2> QED BY <2>1, <2>2 DEF PayInv, Resuming
<1>3. CASE AdminNext
  <2>1. UNCHANGED <<checker, crossed>> /\ org'.sub = org.sub
    BY <1>3, SubElsewhere DEF AdminNext, Halt, Comp, StartTrial, SetThreshold, SetHardCap,
       ResumeRead, ResumeWrite, AdminUnchanged, hookVars, rowHist
  <2>2. resume \in [Resumers -> [pc : {"idle", "read"}, sub : Subs \union {0}]]
    BY DEF TypeOK
  <2>3. ASSUME NEW a \in Resumers, ResumeRead(a) PROVE PayInv'
    <3>1. resume' = [resume EXCEPT ![a] = [pc |-> "read", sub |-> org.sub]] /\ org' = org
      BY <2>3 DEF ResumeRead
    <3>2. org.sub = 0 /\ Resuming' => Resuming
      BY <2>1, <2>2, <3>1 DEF Resuming
    <3> QED BY <2>1, <3>1, <3>2 DEF PayInv
  <2>4. ASSUME NEW a \in Resumers, ResumeWrite(a) PROVE PayInv'
    <3>1. resume' = [resume EXCEPT ![a] = IdleResume] /\ resume[a].pc = "read"
          /\ org'.status = IF resume[a].sub # 0 THEN "active" ELSE "unconfigured"
      BY <1>1, <2>4 DEF ResumeWrite, Lifted, OrgType
    <3>2. Resuming' => Resuming
      BY <2>1, <2>2, <3>1 DEF Resuming, IdleResume
    <3>3. org'.status \in {"active", "past_due"} => Resuming
      BY <3>1 DEF Resuming
    <3> QED BY <2>1, <3>2, <3>3 DEF PayInv
  <2>5. ASSUME UNCHANGED resume, org'.status \in {org.status, "halted", "comped", "trial"}
        PROVE  PayInv'
    BY <2>1, <2>5 DEF PayInv, Resuming
  <2>6. CASE Halt \/ Comp \/ StartTrial
    BY <1>1, <2>5, <2>6 DEF Halt, Comp, StartTrial, Lifted, OrgType
  <2>7. ASSUME NEW s \in SoftLimits, NEW h \in HardLimits, SetThreshold(s, h)
        PROVE  PayInv'
    BY <1>1, <2>5, <2>7 DEF SetThreshold, OrgType
  <2>8. ASSUME NEW h \in HardLimits, SetHardCap(h)
        PROVE  PayInv'
    BY <1>1, <2>5, <2>8 DEF SetHardCap, OrgType
  <2> QED BY <1>3, <2>3, <2>4, <2>6, <2>7, <2>8 DEF AdminNext
<1>4. ASSUME NEW d \in Handlers,
             (\E i \in 1..Len(sent) : Deliver(d, i)) \/ HandlerNext(d) \/ HandlerFails(d)
      PROVE  PayInv'
  <2> DEFINE ev == sent[handler[d].id]
  <2>1. UNCHANGED <<checker, resume>>
    BY <1>4, EventWritten
  <2>2. CASE UNCHANGED <<org, last, crossed>>
    BY <2>1, <2>2 DEF PayInv, Resuming
  <2>3. CASE ev \in Event /\ WriteRow(handler[d].id)
    <3> HIDE DEF ev
    <3>1. org' = AfterEvent(ev) /\ crossed' = (ev.status = "canceled" /\ Resuming)
      BY <2>3 DEF WriteRow, ev
    <3>2. CASE ev.status = "canceled"
      BY <1>1, <2>1, <3>1, <3>2 DEF AfterEvent, PayInv, Resuming, OrgType
    <3>3. CASE ev.status # "canceled"
      <4>1. org'.sub = ev.sub /\ ev.sub # 0
        BY <1>1, <2>3, <3>1, <3>3 DEF AfterEvent, Event, Subs, OrgType
      <4> QED BY <4>1 DEF PayInv
    <3> QED BY <3>2, <3>3
  <2> QED BY <1>4, <2>2, <2>3, EventWritten
<1> QED BY <1>2, <1>3, <1>4

(* billingRoutes.js:658-661, on any number of instances and with any number of
   /ai/resume requests: an org is only set paying without a subscription on record
   by a resume, an admin's or the worker's, that read the subscription before the
   event that cancelled it was processed. *)
THEOREM PayersHaveSubs == Spec => []PayingMeansSub
<1>1. Init => PayInv
  <2> SUFFICES ASSUME Init PROVE PayInv
    OBVIOUS
  <2>1. ~Resuming
    BY DEF Init, Resuming, IdleChecker, IdleResume
  <2> QED BY <2>1, FoundAs DEF PayInv
<1>2. TypeOK /\ PayInv /\ [Next]_vars => PayInv'
  BY PayingChecker, PayingElsewhere DEF Next
<1>3. PayInv => PayingMeansSub
  BY DEF PayInv, PayingMeansSub
<1> QED BY <1>1, <1>2, <1>3, BillingTypes, PTL DEF Spec

-----------------------------------------------------------------------------
(* The row follows the subscription.                                       *)

\* The newest event of a subscription that the webhook acts on tells whether it
\* is live.
StripeInv ==
    \A i \in 1..Len(sent) :
        /\ ~Ignored(sent[i])
        /\ \A j \in (i + 1)..Len(sent) : sent[j].sub = sent[i].sub => Ignored(sent[j])
        => (Live(sent[i].sub) <=> sent[i].status # "canceled")

\* The row is what the last event written says, whoever wrote it in between.
RowInv ==
    /\ last = 0 => org.sub = 0
    /\ last # 0 =>
          /\ ~Ignored(sent[last])
          /\ org.sub = IF sent[last].status = "canceled" THEN 0 ELSE sent[last].sub

(* Of a new event this holds by itself; and one that is ignored comes from a
   subscription that was live before and still is. *)
LEMMA EmitKeepsStripe ==
  ASSUME TypeOK, StripeInv, NEW s \in Subs, NEW type, NEW status,
         [type |-> type, sub |-> s, status |-> status] \in Event,
         type = "updated" => Live(s), Emit(type, s, status)
  PROVE  StripeInv'
<1> DEFINE ev == [type |-> type, sub |-> s, status |-> status]
           n  == Len(sent)
           LiveNext(t) == stripe'[t] \in {"incomplete", "active", "past_due"}
<1>1. sent \in Seq(Event) /\ n \in Nat /\ sent' = Append(sent, ev) /\ ev \in Event
      /\ stripe \in [Subs -> {"none", "incomplete", "active", "past_due", "canceled"}]
      /\ stripe' = [stripe EXCEPT ![s] = status]
  BY DEF TypeOK, Emit
<1>2. Len(sent') = n + 1 /\ sent'[n + 1] = ev /\ \A i \in 1..n : sent'[i] = sent[i]
  BY ONLY <1>1
<1>3. ev.type = type /\ ev.sub = s /\ ev.status = status
      /\ status \in {"incomplete", "active", "past_due", "canceled"}
  BY <1>1 DEF Event
<1>4. LiveNext(s) <=> status # "canceled"
  BY <1>1, <1>3 DEF Live
<1>5. \A t \in Subs \ {s} : LiveNext(t) <=> Live(t)
  BY <1>1 DEF Live
<1>6. \A i \in 1..n : sent[i].sub \in Subs
  <2> SUFFICES ASSUME NEW i \in 1..n PROVE sent[i].sub \in Subs
    OBVIOUS
  <2>1. sent[i] \in Event
    BY <1>1
  <2> QED BY <2>1 DEF Event
<1> HIDE DEF ev, n, LiveNext
<1>7. ASSUME NEW i \in 1..n, ~Ignored(sent[i]),
             \A j \in (i + 1)..(n + 1) : sent'[j].sub = sent[i].sub => Ignored(sent'[j])
      PROVE  LiveNext(sent[i].sub) <=> sent[i].status # "canceled"
  <2>1. \A j \in (i + 1)..n : j \in (i + 1)..(n + 1) /\ sent'[j] = sent[j]
    BY <1>1, <1>2
  <2>2. Live(sent[i].sub) <=> sent[i].status # "canceled"
    BY <1>7, <2>1 DEF StripeInv, n
  <2>3. CASE sent[i].sub # s
    BY <1>5, <1>6, <2>2, <2>3
  <2>4. CASE sent[i].sub = s
    <3>1. n + 1 \in (i + 1)..(n + 1)
      BY <1>1
    <3>2. Ignored(ev)
      BY <1>2, <1>3, <1>7, <2>4, <3>1
    <3>3. type = "updated" /\ status = "incomplete"
      BY <1>3, <3>2 DEF Ignored
    <3> QED BY <1>4, <2>2, <2>4, <3>3
  <2> QED BY <2>3, <2>4
<1>8. ASSUME NEW i \in 1..(n + 1), ~Ignored(sent'[i]),
             \A j \in (i + 1)..(n + 1) : sent'[j].sub = sent'[i].sub => Ignored(sent'[j])
      PROVE  LiveNext(sent'[i].sub) <=> sent'[i].status # "canceled"
  <2>1. CASE i = n + 1
    BY <1>2, <1>3, <1>4, <2>1
  <2>2. CASE i \in 1..n
    BY <1>2, <1>7, <1>8, <2>2
  <2>3. n \in Nat
    BY <1>1
  <2>4. i = n + 1 \/ i \in 1..n
    BY ONLY <2>3, i \in 1..(n + 1)
  <2> QED BY ONLY <2>1, <2>2, <2>4
<1>9. \A t : LiveNext(t) <=> stripe'[t] \in {"incomplete", "active", "past_due"}
  BY DEF LiveNext
<1> QED BY ONLY <1>2, <1>8, <1>9 DEF StripeInv, Live, Ignored

LEMMA StripeKeeps ==
  ASSUME TypeOK, StripeInv, StripeNext
  PROVE  StripeInv'
<1>1. PICK s \in Subs : Subscribe(s) \/ ChangeSub(s) \/ CancelSub(s)
  BY DEF StripeNext
<1>2. CASE Subscribe(s)
  <2>1. PICK status \in {"incomplete", "active"} : Emit("created", s, status)
    BY <1>2 DEF Subscribe
  <2>2. [type |-> "created", sub |-> s, status |-> status] \in Event
    BY DEF Event
  <2> QED BY <2>1, <2>2, EmitKeepsStripe
<1>3. CASE ChangeSub(s)
  <2>1. PICK status \in {"incomplete", "active", "past_due", "canceled"} : Emit("updated", s, status)
    BY <1>3 DEF ChangeSub
  <2>2. [type |-> "updated", sub |-> s, status |-> status] \in Event
    BY DEF Event
  <2>3. Live(s)
    BY <1>3 DEF ChangeSub
  <2> QED BY <2>1, <2>2, <2>3, EmitKeepsStripe
<1>4. CASE CancelSub(s)
  <2>1. [type |-> "deleted", sub |-> s, status |-> "canceled"] \in Event
    BY DEF Event
  <2> QED BY <1>4, <2>1, EmitKeepsStripe DEF CancelSub
<1> QED BY <1>1, <1>2, <1>3, <1>4

(* A step leaves the row to the event that wrote it last. *)
LEMMA RowKeeps ==
  ASSUME TypeOK, RowInv, [Next]_vars
  PROVE  RowInv'
<1>0. sent \in Seq(Event) /\ last \in 0..Len(sent) /\ Len(sent) \in Nat /\ org \in OrgType
  BY DEF TypeOK, OrgType
<1>1. ASSUME last' = last, org'.sub = org.sub, last # 0 => sent'[last] = sent[last]
      PROVE  RowInv'
  BY <1>1 DEF RowInv, Ignored
<1>2. CASE StripeNext
  <2>1. PICK s \in Subs, status \in {"incomplete", "active", "past_due", "canceled"},
             type \in {"created", "updated", "deleted"} : Emit(type, s, status)
    BY <1>2 DEF StripeNext, Subscribe, ChangeSub, CancelSub
  <2>2. \A i \in 1..Len(sent) : sent'[i] = sent[i]
    BY <1>0, <2>1 DEF Emit
  <2> QED BY <1>0, <1>1, <2>1, <2>2 DEF Emit, hookVars, rowHist
<1>3. CASE AdminNext \/ TimeNext \/ UNCHANGED vars
           \/ \E c \in Checkers : CheckerNext(c) \/ CheckerFails(c)
  <2>1. UNCHANGED <<last, sent>>
    <3>1. UNCHANGED hookVars
      BY <1>3, HookElsewhere
    <3>2. UNCHANGED sent
      BY <1>3 DEF AdminNext, Halt, Comp, StartTrial, SetThreshold, SetHardCap, ResumeRead,
         ResumeWrite, AdminUnchanged, TimeNext, Spend, NextMonth, TrialEnds, TimeUnchanged,
         CheckerNext, CheckerFails, StartRun, SelectStale, AutoResume, ReadOrg, CheckCap,
         AutoHalt, CheckSoft, ClaimWarn, Warn, CheckerUnchanged, stripeVars, vars
    <3> QED BY <3>1, <3>2 DEF hookVars, rowHist
  <2>2. org'.sub = org.sub
    <3>1. CASE \E c \in Checkers : CheckerFails(c)
      BY <3>1 DEF CheckerFails
    <3> QED BY <1>3, <3>1, SubElsewhere
  <2> QED BY <1>1, <2>1, <2>2
<1>4. ASSUME NEW d \in Handlers,
             (\E i \in 1..Len(sent) : Deliver(d, i)) \/ HandlerNext(d) \/ HandlerFails(d)
      PROVE  RowInv'
  <2> DEFINE i == handler[d].id
  <2>1. UNCHANGED sent
    BY <1>4, EventWritten
  <2>2. CASE UNCHANGED <<org, last, crossed>>
    BY <1>1, <2>1, <2>2
  <2>3. CASE i \in 1..Len(sent) /\ ~Ignored(sent[i]) /\ WriteRow(i)
    <3>1. last' = i /\ i # 0 /\ sent' = sent
      BY <1>0, <2>1, <2>3 DEF WriteRow
    <3>2. org'.sub = IF sent[i].status = "canceled" THEN 0 ELSE sent[i].sub
      BY <1>0, <2>3 DEF WriteRow, AfterEvent, OrgType
    <3> HIDE DEF i
    <3>3. ~Ignored(sent'[i])
      BY <2>3, <3>1 DEF Ignored
    <3> QED BY <3>1, <3>2, <3>3 DEF RowInv, Ignored
  <2> QED BY <1>4, <2>2, <2>3, EventWritten
<1> QED BY <1>2, <1>3, <1>4 DEF Next

(* billingRoutes.js:177-282: on any number of instances, in any order of events,
   with any redeliveries, failures, admins and runs, the row names the subscription
   of the event that wrote it last if and only if that one is live, as long as no
   later event of the same one is missing. *)
THEOREM RowFollowsStripe == Spec => []SubFollowsStripe
<1>1. Init => StripeInv /\ RowInv
  <2> SUFFICES ASSUME Init PROVE StripeInv /\ RowInv
    OBVIOUS
  <2>1. CASE sent = <<>> /\ 1..Len(sent) = {} /\ last = 0 /\ org.sub = 0
    BY <2>1 DEF StripeInv, RowInv
  <2>2. CASE /\ sent = <<Bought>> /\ Len(sent) = 1 /\ 1..Len(sent) = {1} /\ last = 1
             /\ org.sub = 1 /\ LastSub \in Nat /\ LastSub > 0
    <3>1. sent[1] = Bought /\ stripe[1] = "active"
      BY <2>2 DEF Init, Subs
    <3> QED BY <2>2, <3>1 DEF StripeInv, RowInv, Bought, Live, Ignored
  <2> QED BY <2>1, <2>2, FoundAs
<1>2. TypeOK /\ StripeInv /\ RowInv /\ [Next]_vars => StripeInv' /\ RowInv'
  <2> SUFFICES ASSUME TypeOK, StripeInv, RowInv, [Next]_vars PROVE StripeInv'
    BY RowKeeps
  <2>1. CASE UNCHANGED <<stripe, sent>>
    BY <2>1 DEF StripeInv, Live, Ignored
  <2>2. ASSUME NEW d \in Handlers,
               (\E i \in 1..Len(sent) : Deliver(d, i)) \/ HandlerNext(d) \/ HandlerFails(d)
        PROVE  UNCHANGED <<stripe, sent>>
    BY <2>2, EventWritten
  <2>3. ~StripeNext => UNCHANGED <<stripe, sent>>
    BY <2>2 DEF Next, AdminNext, Halt, Comp, StartTrial, SetThreshold, SetHardCap, ResumeRead,
       ResumeWrite, AdminUnchanged, TimeNext, Spend, NextMonth, TrialEnds, TimeUnchanged,
       CheckerNext, CheckerFails, StartRun, SelectStale, AutoResume, ReadOrg, CheckCap,
       AutoHalt, CheckSoft, ClaimWarn, Warn, CheckerUnchanged, stripeVars, vars
  <2> QED BY <2>1, <2>3, StripeKeeps
<1>3. TypeOK /\ StripeInv /\ RowInv => SubFollowsStripe
  <2> SUFFICES ASSUME TypeOK, StripeInv, RowInv, NEW i \in 1..Len(sent), last = i,
                      \A j \in (i + 1)..Len(sent) : sent[j].sub = sent[i].sub => Ignored(sent[j])
               PROVE  org.sub = IF Live(sent[i].sub) THEN sent[i].sub ELSE 0
    BY DEF SubFollowsStripe
  <2>1. ~Ignored(sent[i]) /\ org.sub = IF sent[i].status = "canceled" THEN 0 ELSE sent[i].sub
    BY DEF RowInv
  <2>2. Live(sent[i].sub) <=> sent[i].status # "canceled"
    BY <2>1 DEF StripeInv
  <2> QED BY <2>1, <2>2
<1> QED BY <1>1, <1>2, <1>3, BillingTypes, PTL DEF Spec

-----------------------------------------------------------------------------
(* What is dropped.                                                        *)

(* One step drops at most one event, and that costs a fault. *)
LEMMA DropStep ==
  ASSUME TypeOK, HookInv, [Next]_vars
  PROVE  \/ Dropped' \subseteq Dropped /\ faults' \in {faults, faults + 1}
         \/ \E i : Dropped' \subseteq Dropped \union {i} /\ faults' = faults + 1
<1>0. /\ applied \in [1..MaxEvents -> Nat]
      /\ handler \in [Handlers -> [pc : {"idle", "received", "recorded"}, id : Nat]]
  BY DEF HookInv, HookTypes
<1>1. CASE UNCHANGED hookVars
  <2>1. faults' \in {faults, faults + 1}
    <3>1. CASE StripeNext
      BY <3>1 DEF StripeNext, Subscribe, ChangeSub, CancelSub, Emit
    <3>2. CASE AdminNext
      BY <3>2 DEF AdminNext, Halt, Comp, StartTrial, SetThreshold, SetHardCap, ResumeRead,
         ResumeWrite, AdminUnchanged
    <3>3. CASE TimeNext
      BY <3>3 DEF TimeNext, Spend, NextMonth, TrialEnds, TimeUnchanged
    <3>4. ASSUME NEW c \in Checkers, CheckerNext(c) \/ CheckerFails(c)
          PROVE  faults' \in {faults, faults + 1}
      BY <3>4 DEF CheckerNext, CheckerFails, StartRun, SelectStale, AutoResume, ReadOrg, CheckCap,
         AutoHalt, CheckSoft, ClaimWarn, Warn, RowUnchanged, CheckerUnchanged, Fault
    <3>5. ASSUME NEW d \in Handlers,
                 (\E i \in 1..Len(sent) : Deliver(d, i)) \/ HandlerNext(d) \/ HandlerFails(d)
          PROVE  faults' \in {faults, faults + 1}
      BY <3>5 DEF Deliver, HandlerNext, RecordEvent, IgnoreDuplicate, ProcessEvent, HandlerFails, Fault
    <3>6. CASE UNCHANGED vars
      BY <3>6 DEF vars
    <3> QED BY <3>1, <3>2, <3>3, <3>4, <3>5, <3>6 DEF Next
  <2>2. Dropped' = Dropped
    BY <1>1 DEF hookVars, Dropped, Holds
  <2> QED BY <2>1, <2>2
<1>2. ASSUME NEW d \in Handlers, NEW i \in 1..Len(sent), Deliver(d, i)
      PROVE  Dropped' \subseteq Dropped /\ faults' = faults
  <2>1. \A e \in Handlers, j \in ledger : Holds(e, j) => Holds(e, j)'
    BY <1>0, <1>2 DEF Deliver, Holds
  <2> QED BY <1>2, <2>1 DEF Deliver, Dropped
<1>3. ASSUME NEW d \in Handlers, RecordEvent(d)
      PROVE  Dropped' \subseteq Dropped /\ faults' = faults
  <2>1. Holds(d, handler[d].id)'
    BY <1>0, <1>3 DEF RecordEvent, Holds
  <2>2. \A e \in Handlers, j \in ledger : Holds(e, j) => Holds(e, j)'
    BY <1>0, <1>3 DEF RecordEvent, Holds
  <2> QED BY <1>3, <2>1, <2>2 DEF RecordEvent, Dropped
<1>4. ASSUME NEW d \in Handlers, IgnoreDuplicate(d)
      PROVE  Dropped' \subseteq Dropped /\ faults' = faults
  <2>1. \A e \in Handlers, j \in ledger : Holds(e, j) => Holds(e, j)'
    BY <1>0, <1>4 DEF IgnoreDuplicate, Holds
  <2> QED BY <1>4, <2>1 DEF IgnoreDuplicate, Dropped
<1>5. ASSUME NEW d \in Handlers, ProcessEvent(d)
      PROVE  Dropped' \subseteq Dropped /\ faults' = faults
  <2> DEFINE k == handler[d].id
  <2>1. \A j \in 1..MaxEvents : applied'[j] = IF j = k THEN applied[j] + 1 ELSE applied[j]
    BY <1>0, <1>5 DEF ProcessEvent, Process
  <2>2. \A e \in Handlers, j \in ledger : Holds(e, j) => Holds(e, j)' \/ j = k
    BY <1>0, <1>5 DEF ProcessEvent, Holds
  <2>3. \A j \in Dropped' : j \in Dropped
    BY <1>0, <1>5, <2>1, <2>2 DEF ProcessEvent, Dropped
  <2> QED BY <1>5, <2>3 DEF ProcessEvent
<1>6. ASSUME NEW d \in Handlers, HandlerFails(d)
      PROVE  Dropped' \subseteq Dropped \union {handler[d].id} /\ faults' = faults + 1
  <2> DEFINE k == handler[d].id
  <2>1. ledger' \subseteq ledger \union {k} /\ faults' = faults + 1
    BY <1>6 DEF HandlerFails, Fault
  <2>2. \A j \in 1..MaxEvents : applied'[j] = 0 => applied[j] = 0
    <3>1. CASE applied' = applied
      BY <3>1
    <3>2. CASE Process(d)
      BY <1>0, <3>2 DEF Process
    <3> QED BY <1>6, <3>1, <3>2 DEF HandlerFails
  <2>3. \A e \in Handlers, j \in ledger : Holds(e, j) => Holds(e, j)' \/ j = k
    BY <1>0, <1>6 DEF HandlerFails, Holds
  <2>4. \A j \in Dropped' : j \in Dropped \/ j = k
    BY <2>1, <2>2, <2>3 DEF Dropped
  <2> QED BY <2>1, <2>4
<1> QED BY <1>1, <1>2, <1>3, <1>4, <1>5, <1>6, HookElsewhere DEF Next, HandlerNext

(* billingRoutes.js:350-352, the half of "better to over-deliver than to silently
   drop" that holds: an event is dropped only by a fault that hit its handler
   after the id was recorded. *)
THEOREM DropsCostFaults == Spec => []DropsAreFaults
<1> DEFINE DropInv == IsFiniteSet(Dropped) /\ Cardinality(Dropped) <= faults
<1>1. Init => DropInv
  <2> SUFFICES ASSUME Init PROVE DropInv
    OBVIOUS
  <2>1. Dropped = {}
    BY FoundAs DEF Init, Dropped
  <2> QED BY <2>1, FS_EmptySet DEF Init
<1>2. TypeOK /\ HookInv /\ DropInv /\ [Next]_vars => DropInv'
  <2> SUFFICES ASSUME TypeOK, HookInv, DropInv, [Next]_vars PROVE DropInv'
    OBVIOUS
  <2>1. \/ Dropped' \subseteq Dropped /\ faults' \in {faults, faults + 1}
        \/ \E i : Dropped' \subseteq Dropped \union {i} /\ faults' = faults + 1
    BY DropStep
  <2>2. faults \in Nat /\ Cardinality(Dropped) \in Nat
    BY BillingAssumption, FS_CardinalityType DEF TypeOK
  <2>3. CASE Dropped' \subseteq Dropped /\ faults' \in {faults, faults + 1}
    <3>1. /\ IsFiniteSet(Dropped') /\ Cardinality(Dropped') <= Cardinality(Dropped)
          /\ Cardinality(Dropped') \in Nat
      BY <2>3, FS_Subset, FS_CardinalityType
    <3> QED BY <2>2, <2>3, <3>1
  <2>4. ASSUME NEW i, Dropped' \subseteq Dropped \union {i}, faults' = faults + 1
        PROVE  DropInv'
    <3>1. /\ IsFiniteSet(Dropped \union {i})
          /\ Cardinality(Dropped \union {i}) \in {Cardinality(Dropped), Cardinality(Dropped) + 1}
      BY FS_AddElement
    <3>2. /\ IsFiniteSet(Dropped') /\ Cardinality(Dropped') <= Cardinality(Dropped \union {i})
          /\ Cardinality(Dropped') \in Nat
      BY <2>4, <3>1, FS_Subset, FS_CardinalityType
    <3> QED BY <2>2, <2>4, <3>1, <3>2
  <2> QED BY <2>1, <2>3, <2>4
<1>3. DropInv => DropsAreFaults
  BY DEF DropsAreFaults
<1>4. Init => HookInv
  BY HookInit
<1>5. HookInv /\ [Next]_vars => HookInv'
  <2> SUFFICES ASSUME HookInv, [Next]_vars PROVE HookInv'
    OBVIOUS
  <2>1. ASSUME UNCHANGED hookVars PROVE HookInv'
    BY <2>1 DEF hookVars, HookInv, HookTypes, LedgerInv, Holds
  <2> QED BY <2>1, HookElsewhere, HookStep DEF Next
<1> QED BY <1>1, <1>2, <1>3, <1>4, <1>5, BillingTypes, PTL DEF Spec
=============================================================================
