--------------------------- MODULE MeterPushProofs ---------------------------
(***************************************************************************)
(* Proofs about the meter push, for any number of instances, pushes by     *)
(* hand, organizations, months and failures.                               *)
(***************************************************************************)
EXTENDS MeterPushProps, TLAPS

LeaseFacts == INSTANCE WorkerLeaseProofs
                  WITH Memory <- "before", ReleaseOnClaimError <- FALSE, ClaimMayThrow <- TRUE

USE DEF leaseVars, billVars

(* Every step of the push and of the scheduler is a step of the lease, or
   leaves it alone. *)
LEMMA LeaseSteps == [Next]_vars => [Lease!Next]_leaseVars
<1> SUFFICES ASSUME [Next]_vars
             PROVE  [Lease!Next]_leaseVars
  OBVIOUS
<1> USE DEF Lease!Next, Lease!PodNext, Lease!PodFault
<1>1. CASE HourEnds \/ NextMonth
  BY <1>1 DEF HourEnds, NextMonth
<1>2. ASSUME NEW o \in Orgs, KeyExpires(o)
      PROVE  UNCHANGED leaseVars
  BY <1>2 DEF KeyExpires
<1>3. ASSUME NEW p \in Pods, Schedule(p)
      PROVE  Lease!Next
  BY <1>3 DEF Schedule, Tick, Claim, Release
<1>4. ASSUME NEW m \in Manual, RunByHand(m)
      PROVE  UNCHANGED leaseVars
  BY <1>4 DEF RunByHand
<1>5. ASSUME NEW r \in Runners, Step(r)
      PROVE  [Lease!Next]_leaseVars
  <2>1. CASE EndPush(r)
    BY <2>1 DEF EndPush
  <2> QED
    BY <1>5, <2>1 DEF Step, ReadOrg, CheckPosted, Send, Record
<1>6. ASSUME NEW r \in Runners, Failure(r)
      PROVE  [Lease!Next]_leaseVars
  <2>1. CASE PushThrows(r)
    BY <2>1 DEF PushThrows
  <2>2. CASE Crash(r)
    BY <2>2 DEF Crash
  <2> QED
    BY <1>6, <2>1, <2>2 DEF Failure, SendFails, RecordFails
<1>7. CASE UNCHANGED vars
  BY <1>7 DEF vars
<1> QED
  BY <1>1, <1>2, <1>3, <1>4, <1>5, <1>6, <1>7 DEF Next

(* The push implements the lease. *)
THEOREM PushKeepsLease == Spec => KeepsLease
<1>1. Init => Lease!Init
  BY DEF Init
<1>2. [Next]_vars => [Lease!Next]_(Lease!vars)
  BY LeaseSteps DEF Lease!vars
<1> QED
  BY <1>1, <1>2, PTL DEF Spec, KeepsLease, Lease!Spec

(* One instance bills a month: the theorem about the lease, carried over. *)
THEOREM OneInstanceBills == Spec => []OnePushPerMonth
<1>1. Init => LeaseFacts!Init
  BY DEF Init, Lease!Init, LeaseFacts!Init, Lease!Periods, LeaseFacts!Periods,
         Lease!IdlePod, LeaseFacts!IdlePod
<1>2. [Next]_vars => [LeaseFacts!Next]_(LeaseFacts!vars)
  <2>1. Lease!Next => LeaseFacts!Next
    BY DEF Lease!Next, Lease!PodNext, Lease!PodFault, Lease!HourEnds, Lease!NextPeriod, Lease!Tick,
           Lease!ClaimWins, Lease!ClaimLoses, Lease!ClaimThrows, Lease!WorkDone,
           Lease!WorkThrows, Lease!Release, Lease!ReleaseFails, Lease!Crash,
           Lease!Goto, Lease!End, Lease!Fault, Lease!IdlePod,
           LeaseFacts!Next, LeaseFacts!PodNext, LeaseFacts!PodFault, LeaseFacts!HourEnds, LeaseFacts!NextPeriod,
           LeaseFacts!HasRunHour, LeaseFacts!Note, Lease!HasRunHour, Lease!Note,
           LeaseFacts!Tick, LeaseFacts!ClaimWins, LeaseFacts!ClaimLoses,
           LeaseFacts!ClaimThrows, LeaseFacts!WorkDone, LeaseFacts!WorkThrows,
           LeaseFacts!Release, LeaseFacts!ReleaseFails, LeaseFacts!Crash,
           LeaseFacts!Goto, LeaseFacts!End, LeaseFacts!Fault, LeaseFacts!IdlePod
  <2> QED
    BY <2>1, LeaseSteps DEF LeaseFacts!vars
<1>3. LeaseFacts!OnePodPerPeriod => OnePushPerMonth
  BY DEF OnePushPerMonth, Lease!OnePodPerPeriod, LeaseFacts!OnePodPerPeriod,
         Lease!Periods, LeaseFacts!Periods, Lease!Working, LeaseFacts!Working
<1>4. LeaseFacts!LeaseAssumption
  BY PushAssumption DEF PushAssumption, LeaseFacts!LeaseAssumption
<1>5. LeaseFacts!Spec => []LeaseFacts!OnePodPerPeriod
  BY <1>4, LeaseFacts!OnePod
<1> QED
  BY <1>1, <1>2, <1>3, <1>5, PTL DEF Spec, LeaseFacts!Spec

-----------------------------------------------------------------------------
(* The types of the lease, carried over. *)
LEMMA LeaseTyped == Spec => []Lease!TypeOK
<1>1. Init /\ PushAssumption => Lease!TypeOK
  BY DEF Init, Lease!Init, Lease!TypeOK, Lease!Periods, Lease!IdlePod, PushAssumption
<1>2. Lease!TypeOK /\ [Next]_vars => Lease!TypeOK'
  <2> SUFFICES ASSUME Lease!TypeOK, [Lease!Next]_leaseVars
               PROVE  Lease!TypeOK'
    BY LeaseSteps
  <2> USE DEF Lease!TypeOK, Lease!Goto, Lease!End, Lease!IdlePod, Lease!Note
  <2>1. CASE Lease!NextPeriod
    BY <2>1, PushAssumption DEF Lease!NextPeriod, Lease!Periods, PushAssumption
  <2>5. CASE Lease!HourEnds
    BY <2>5 DEF Lease!HourEnds
  <2>2. ASSUME NEW p \in Pods, Lease!Tick(p) \/ Lease!PodNext(p)
        PROVE  Lease!TypeOK'
    BY <2>2 DEF Lease!Tick, Lease!PodNext, Lease!ClaimWins, Lease!ClaimLoses,
                Lease!WorkDone, Lease!Release
  <2>3. ASSUME NEW p \in Pods, Lease!PodFault(p)
        PROVE  Lease!TypeOK'
    <3>1. faults' \in 0..MaxFaults
      BY <2>3, PushAssumption
         DEF Lease!PodFault, Lease!ClaimThrows, Lease!WorkThrows, Lease!ReleaseFails,
             Lease!Crash, Lease!Fault, PushAssumption
    <3> QED
      BY <2>3, <3>1 DEF Lease!PodFault, Lease!ClaimThrows, Lease!WorkThrows,
                        Lease!ReleaseFails, Lease!Crash
  <2>4. CASE UNCHANGED leaseVars
    BY <2>4
  <2> QED
    BY <2>1, <2>2, <2>3, <2>4, <2>5 DEF Lease!Next
<1> QED
  BY <1>1, <1>2, PushAssumption, PTL DEF Spec

PushOK ==
    /\ push \in [Runners -> [pc : {"idle", "read", "check", "send", "record"},
                             org : 0..(NumOrgs + 1)]]
    /\ \A r \in Runners : push[r].pc = "read" => push[r].org # 0
    /\ \A r \in Runners : push[r].pc \in {"check", "send", "record"} => push[r].org \in Orgs

PushTypes ==
    /\ PushOK
    /\ {post, live, lost, spared, failed} \subseteq SUBSET Orgs
    /\ charge \in [Orgs -> Nat]
    /\ abandoned \in BOOLEAN
    /\ mishaps \in 0..MaxMishaps

LEMMA BeTyped ==
    ASSUME PushOK, NEW r \in Runners,
           NEW pc \in {"idle", "read", "check", "send", "record"},
           NEW o \in 0..(NumOrgs + 1),
           pc = "read" => o # 0,
           pc \in {"check", "send", "record"} => o \in Orgs,
           Be(r, pc, o)
    PROVE  PushOK'
BY DEF PushOK, Be

(* Where a runner may go from where it is. *)
LEMMA MoveTyped ==
    ASSUME PushOK, NEW r \in Runners
    PROVE  /\ Stop(r) => PushOK'
           /\ Start(r) => PushOK'
           /\ push[r].org \in Orgs /\ NextOrg(r) => PushOK'
           /\ \A pc \in {"check", "send", "record"} :
                 push[r].org \in Orgs /\ Goto(r, pc) => PushOK'
<1>1. push[r].org \in 0..(NumOrgs + 1)
  BY DEF PushOK
<1>2. push[r].org \in Orgs => push[r].org + 1 \in 0..(NumOrgs + 1) /\ push[r].org + 1 # 0
  BY PushAssumption DEF PushAssumption, Orgs
<1>4. {0, 1} \subseteq 0..(NumOrgs + 1)
  BY PushAssumption DEF PushAssumption
<1>5. Stop(r) \/ Start(r) => PushOK'
  BY <1>4, BeTyped DEF Stop, Start
<1>6. push[r].org \in Orgs /\ NextOrg(r) => PushOK'
  BY <1>2, BeTyped DEF NextOrg
<1>7. ASSUME NEW pc \in {"check", "send", "record"}, push[r].org \in Orgs, Goto(r, pc)
      PROVE  PushOK'
  BY <1>1, <1>7, BeTyped DEF Goto
<1> QED
  BY <1>5, <1>6, <1>7

LEMMA TypesStep ==
    ASSUME Lease!TypeOK, PushTypes, [Next]_vars
    PROVE  PushTypes'
<1> USE DEF PushTypes
<1>1. CASE NextMonth
  BY <1>1 DEF NextMonth, FreshMonth, PushOK
<1>9. CASE HourEnds
  BY <1>9 DEF HourEnds, PushOK
<1>2. ASSUME NEW o \in Orgs, KeyExpires(o)
      PROVE  PushTypes'
  BY <1>2 DEF KeyExpires, PushOK
<1>3. ASSUME NEW p \in Pods, Tick(p)
      PROVE  PushTypes'
  <2>1. now \in 0..LastPeriod
    BY PushAssumption DEF PushAssumption, Lease!TypeOK, Lease!Periods
  <2> QED
    BY <1>3, <2>1 DEF Tick, PushOK
<1>4. ASSUME NEW p \in Pods, Claim(p) \/ Release(p)
      PROVE  PushTypes'
  <2>1. PushOK'
    BY <1>4, MoveTyped DEF Claim, Release, Runners, PushOK
  <2> QED
    BY <1>4, <2>1 DEF Claim, Release
<1>5. ASSUME NEW m \in Manual, RunByHand(m)
      PROVE  PushTypes'
  BY <1>5, MoveTyped DEF RunByHand, Runners
<1>6. ASSUME NEW r \in Runners, Step(r)
      PROVE  PushTypes'
  <2>1. CASE ReadOrg(r) \/ CheckPosted(r)
    <3>1. push[r].pc = "check" => push[r].org \in Orgs
      BY DEF PushOK
    <3>2. PushOK'
      BY <2>1, <3>1, MoveTyped DEF ReadOrg, CheckPosted
    <3> QED
      BY <2>1, <3>2 DEF ReadOrg, CheckPosted
  <2>2. CASE Send(r)
    <3>1. push[r].org \in Orgs
      BY <2>2 DEF Send, PushOK
    <3>2. PushOK'
      BY <2>2, <3>1, MoveTyped DEF Send
    <3> QED
      BY <2>2, <3>1, <3>2 DEF Send, Accept
  <2>3. CASE Record(r)
    <3>1. push[r].org \in Orgs
      BY <2>3 DEF Record, PushOK
    <3> QED
      BY <2>3, <3>1, MoveTyped DEF Record
  <2>4. CASE EndPush(r)
    BY <2>4, MoveTyped DEF EndPush
  <2> QED
    BY <1>6, <2>1, <2>2, <2>3, <2>4 DEF Step
<1>7. ASSUME NEW r \in Runners, Failure(r)
      PROVE  PushTypes'
  <2>1. Mishap \/ UNCHANGED mishaps => mishaps' \in 0..MaxMishaps
    BY PushAssumption DEF PushAssumption, Mishap
  <2>2. CASE SendFails(r)
    <3>1. push[r].org \in Orgs
      BY <2>2 DEF SendFails, PushOK
    <3>2. PushOK'
      BY <2>2, <3>1, MoveTyped DEF SendFails, SkipOrg
    <3> QED
      BY <2>1, <2>2, <3>1, <3>2 DEF SendFails, Accept, SkipOrg
  <2>3. CASE RecordFails(r)
    <3>1. push[r].org \in Orgs
      BY <2>3 DEF RecordFails, PushOK
    <3>2. PushOK'
      BY <2>3, <3>1, MoveTyped DEF RecordFails, SkipOrg
    <3> QED
      BY <2>1, <2>3, <3>1, <3>2 DEF RecordFails, SkipOrg
  <2>4. CASE PushThrows(r)
    BY <2>1, <2>4, MoveTyped DEF PushThrows
  <2>5. CASE Crash(r)
    <3>1. push[r].pc = "record" => push[r].org \in Orgs
      BY DEF PushOK
    <3> QED
      BY <2>1, <2>5, <3>1, MoveTyped DEF Crash
  <2> QED
    BY <1>7, <2>2, <2>3, <2>4, <2>5 DEF Failure
<1>8. CASE UNCHANGED vars
  BY <1>8 DEF vars, PushOK
<1> QED
  BY <1>1, <1>2, <1>3, <1>4, <1>5, <1>6, <1>7, <1>8, <1>9 DEF Next, Schedule

LEMMA TypesHold == Spec => [](Lease!TypeOK /\ PushTypes)
<1>1. Init => PushTypes
  <2> SUFFICES ASSUME Init
               PROVE  PushTypes
    OBVIOUS
  <2>1. 0 \in 0..(NumOrgs + 1) /\ 0 \in 0..LastPeriod /\ 0 \in 0..MaxMishaps
    BY PushAssumption DEF PushAssumption
  <2>2. PushOK
    BY <2>1 DEF Init, PushOK, NoPush
  <2> QED
    BY <2>1, <2>2 DEF Init, PushTypes
<1> QED
  BY <1>1, LeaseTyped, TypesStep, PTL DEF Spec

(* The rows, the pushes and Stripe's side keep their shape. *)
THEOREM PushTypeCorrect == Spec => []TypeOK
<1>1. Lease!TypeOK /\ PushTypes => TypeOK
  BY DEF TypeOK, PushTypes, PushOK
<1> QED
  BY <1>1, TypesHold, PTL

-----------------------------------------------------------------------------
(* The charge of an organization, the key Stripe holds for it and its record
   cannot get apart: a push that is about to send has either the key of
   whoever sent before it, or nobody has charged yet. *)
ChargeIInv == ChargeInv /\ ChargedOnce /\ RecordMeansCharged

LEMMA UnderLease ==
    ASSUME Lease!TypeOK, PushTypes, ChargeIInv, [Next]_vars
    PROVE  (\A p \in Pods : push[p].pc # "idle" => pod[p].pc = "working")'
<1> USE DEF PushTypes, PushOK, ChargeIInv, ChargeInv, Be, Goto, Stop, Start, NextOrg,
            Lease!TypeOK, Lease!Goto, Lease!End, Lease!IdlePod
<1>1. CASE NextMonth
  BY <1>1 DEF NextMonth, Lease!NextPeriod
<1>2. ASSUME HourEnds \/ \E o \in Orgs : KeyExpires(o)
      PROVE  UNCHANGED <<push, pod>>
  BY <1>2 DEF HourEnds, Lease!HourEnds, KeyExpires
<1>3. ASSUME NEW p \in Pods, Schedule(p)
      PROVE  (\A q \in Pods : push[q].pc # "idle" => pod[q].pc = "working")'
  <2>1. CASE Tick(p)
    BY <2>1 DEF Tick, Lease!Tick
  <2>2. CASE Claim(p)
    <3>1. push[p].pc = "idle"
      BY <2>2 DEF Claim, Lease!ClaimWins, Lease!ClaimLoses, Lease!ClaimThrows
    <3>2. \A q \in Pods \ {p} : push'[q] = push[q] /\ pod'[q] = pod[q]
      BY <2>2 DEF Claim, Lease!ClaimWins, Lease!ClaimLoses, Lease!ClaimThrows, Runners
    <3>3. push' = push \/ pod'[p].pc = "working"
      BY <2>2 DEF Claim, Lease!ClaimWins
    <3> QED BY ONLY <3>1, <3>2, <3>3, \A q \in Pods : push[q].pc # "idle" => pod[q].pc = "working"
  <2>3. CASE Release(p)
    BY <2>3 DEF Release, Lease!Release, Lease!ReleaseFails
  <2> QED
    BY <1>3, <2>1, <2>2, <2>3 DEF Schedule
<1>4. ASSUME NEW m \in Manual, RunByHand(m)
      PROVE  (\A q \in Pods : push[q].pc # "idle" => pod[q].pc = "working")'
  BY <1>4, PushAssumption DEF RunByHand, Runners, PushAssumption
<1>5. ASSUME NEW r \in Runners, Step(r)
      PROVE  (\A q \in Pods : push[q].pc # "idle" => pod[q].pc = "working")'
  <2>1. CASE EndPush(r)
    BY <2>1, PushAssumption DEF EndPush, Lease!WorkDone, PushAssumption, Runners
  <2>2. CASE ~EndPush(r)
    <3>1. push[r].pc # "idle" /\ pod' = pod
      BY <1>5, <2>2 DEF Step, ReadOrg, CheckPosted, Send, Record
    <3>2. \A q \in Pods : q # r => push'[q] = push[q]
      BY <1>5, <2>2 DEF Step, ReadOrg, CheckPosted, Send, Record, Runners
    <3> QED
      BY <3>1, <3>2
  <2> QED
    BY <2>1, <2>2
<1>6. ASSUME NEW r \in Runners, Failure(r)
      PROVE  (\A q \in Pods : push[q].pc # "idle" => pod[q].pc = "working")'
  <2>1. CASE SendFails(r) \/ RecordFails(r)
    <3>1. push[r].pc # "idle" /\ pod' = pod
      BY <2>1 DEF SendFails, RecordFails
    <3>2. \A q \in Pods : q # r => push'[q] = push[q]
      BY <2>1 DEF SendFails, RecordFails, SkipOrg, Runners
    <3> QED
      BY <3>1, <3>2
  <2>2. CASE PushThrows(r)
    BY <2>2 DEF PushThrows, Lease!WorkThrows
  <2>3. CASE Crash(r)
    BY <2>3 DEF Crash, Lease!Crash
  <2> QED
    BY <1>6, <2>1, <2>2, <2>3 DEF Failure
<1>7. CASE UNCHANGED vars
  BY <1>7 DEF vars
<1> QED
  BY <1>1, <1>2, <1>3, <1>4, <1>5, <1>6, <1>7 DEF Next

LEMMA ChargeStep ==
    ASSUME Lease!TypeOK, PushTypes, ChargeIInv, [Next]_vars
    PROVE  ChargeIInv'
<1>u. (\A p \in Pods : push[p].pc # "idle" => pod[p].pc = "working")'
  BY UnderLease
<1> USE DEF PushTypes, PushOK, ChargeIInv, ChargeInv, ChargedOnce, RecordMeansCharged,
            Be, Goto, Stop, Start, NextOrg
<1>1. CASE NextMonth
  BY <1>u, <1>1 DEF NextMonth, FreshMonth
<1>2. ASSUME NEW o \in Orgs, KeyExpires(o)
      PROVE  ChargeIInv'
  BY <1>u, <1>2 DEF KeyExpires
<1>8. CASE HourEnds
  BY <1>u, <1>8 DEF HourEnds
<1>3. ASSUME NEW p \in Pods, Schedule(p)
      PROVE  ChargeIInv'
  <2>1. CASE Tick(p) \/ Release(p)
    BY <1>u, <2>1 DEF Tick, Release
  <2>2. CASE Claim(p) /\ Start(p)
    <3>1. push[p].pc # "record" \/ push' = push
      BY <1>u, <2>2 DEF Claim, Lease!ClaimWins
    <3> QED
      BY <1>u, <2>2, <3>1 DEF Claim, Runners
  <2>3. CASE Claim(p) /\ UNCHANGED push
    BY <1>u, <2>3 DEF Claim
  <2> QED
    BY <1>u, <1>3, <2>1, <2>2, <2>3 DEF Schedule, Claim
<1>4. ASSUME NEW m \in Manual, RunByHand(m)
      PROVE  ChargeIInv'
  BY <1>u, <1>4 DEF RunByHand, Runners
<1>5. ASSUME NEW r \in Runners, Step(r)
      PROVE  ChargeIInv'
  <2>1. CASE ReadOrg(r) \/ CheckPosted(r)
    BY <1>u, <2>1 DEF ReadOrg, CheckPosted
  <2>2. CASE Send(r)
    <3> DEFINE o == push[r].org
    <3>1. o \in Orgs /\ r \in Runners
      BY <1>u, <2>2 DEF Send
    <3>2. push' = [push EXCEPT ![r] = [pc |-> "record", org |-> o]]
      BY <1>u, <2>2 DEF Send
    <3>3. live' = live \union {o} /\ post' = post /\ lost' = lost
      BY <1>u, <2>2 DEF Send, Accept
    <3>4. charge' = IF o \in live THEN charge ELSE [charge EXCEPT ![o] = charge[o] + 1]
      BY <1>u, <2>2 DEF Send, Accept
    <3>5. charge'[o] > 0
      BY <1>u, <3>1, <3>4
    <3> HIDE DEF o
    <3>6. \A s \in Runners : s # r => push'[s] = push[s]
      BY <3>2
    <3>7. push'[r] = [pc |-> "record", org |-> o]
      BY <3>1, <3>2
    <3>8. \A q \in Orgs : q # o => charge'[q] = charge[q]
      BY <3>1, <3>4
    <3>9. push[r].pc = "send" /\ push[r].org = o
      BY <2>2 DEF Send, o
    <3>10. charge'[o] > 1 => o \in lost
      <4>1. CASE o \in live
        BY <3>4, <4>1
      <4>2. CASE o \notin live
        <5>1. charge'[o] = charge[o] + 1
          BY <3>1, <3>4, <4>2
        <5>2. charge[o] > 0 => o \in lost
          BY <3>1, <3>9, <4>2
        <5> QED
          BY <3>1, <5>1, <5>2
      <4> QED
        BY <4>1, <4>2
    <3>11. RecordMeansCharged' /\ ChargedOnce'
      BY <3>1, <3>3, <3>5, <3>8, <3>10
    <3>12. ChargeInv'
      <4>1. \A s \in Runners :
              /\ push'[s].pc = "record" => push'[s].org \in live' /\ charge'[push'[s].org] > 0
              /\ push'[s].pc = "send" /\ push'[s].org \in post' => push'[s].org \in live'
        BY <3>1, <3>3, <3>5, <3>6, <3>7, <3>8
      <4>2. \A q \in live' : charge'[q] > 0
        BY <3>1, <3>3, <3>5, <3>8
      <4>3. \A q \in Orgs : charge'[q] > 0 =>
              \/ q \in post' \union lost'
              \/ \E s \in Runners : push'[s].pc = "record" /\ push'[s].org = q
        <5> TAKE q \in Orgs
        <5>1. CASE q = o
          BY <5>1, <3>1, <3>7
        <5>2. CASE q # o
          BY <5>2, <3>1, <3>3, <3>6, <3>8, <3>9
        <5> QED
          BY <5>1, <5>2
      <4> QED
        BY <1>u, <4>1, <4>2, <4>3
    <3> QED
      BY <3>11, <3>12
  <2>3. CASE Record(r)
    BY <1>u, <2>3 DEF Record
  <2>4. CASE EndPush(r)
    BY <1>u, <2>4 DEF EndPush
  <2> QED
    BY <1>u, <1>5, <2>1, <2>2, <2>3, <2>4 DEF Step
<1>6. ASSUME NEW r \in Runners, Failure(r)
      PROVE  ChargeIInv'
  <2>1. CASE SendFails(r)
    BY <1>u, <2>1 DEF SendFails, Accept, SkipOrg
  <2>2. CASE RecordFails(r)
    BY <1>u, <2>2 DEF RecordFails, SkipOrg
  <2>3. CASE PushThrows(r)
    BY <1>u, <2>3 DEF PushThrows
  <2>4. CASE Crash(r)
    BY <1>u, <2>4 DEF Crash
  <2> QED
    BY <1>u, <1>6, <2>1, <2>2, <2>3, <2>4 DEF Failure
<1>7. CASE UNCHANGED vars
  BY <1>u, <1>7 DEF vars
<1> QED
  BY <1>u, <1>1, <1>2, <1>3, <1>4, <1>5, <1>6, <1>7, <1>8 DEF Next

LEMMA ChargeHolds == Spec => [](PushTypes /\ ChargeIInv)
<1>1. Init => ChargeIInv
  BY DEF Init, ChargeIInv, ChargeInv, ChargedOnce, RecordMeansCharged, NoPush, Runners
<1> QED
  BY <1>1, TypesHold, ChargeStep, PTL DEF Spec

(* Keys, charges and records stay together. *)
THEOREM ChargesAccounted == Spec => []ChargeInv
<1>1. ChargeIInv => ChargeInv
  BY DEF ChargeIInv
<1> QED
  BY <1>1, ChargeHolds, PTL

(* Only a lost record makes an organization pay twice. *)
THEOREM PaysOnce == Spec => []ChargedOnce
<1>1. ChargeIInv => ChargedOnce
  BY DEF ChargeIInv
<1> QED
  BY <1>1, ChargeHolds, PTL

(* A recorded organization was charged. *)
THEOREM RecordsAreTrue == Spec => []RecordMeansCharged
<1>1. ChargeIInv => RecordMeansCharged
  BY DEF ChargeIInv
<1> QED
  BY <1>1, ChargeHolds, PTL

(* A recorded organization is not charged again. *)
THEOREM RecordedStays == Spec => RecordedIsFinal
<1>1. ASSUME Lease!TypeOK, PushTypes, ChargeIInv, [Next]_vars
      PROVE  [\A o \in post : now' = now => charge'[o] = charge[o]]_vars
  <2> SUFFICES ASSUME Next, NEW o \in post, now' = now
               PROVE  charge'[o] = charge[o]
    BY <1>1
  <2>1. ~NextMonth
    BY <1>1 DEF NextMonth, Lease!NextPeriod, Lease!TypeOK, Lease!Periods
  <2>2. ASSUME NEW r \in Runners, Send(r) \/ SendFails(r)
        PROVE  charge'[o] = charge[o]
    BY <1>1, <2>2 DEF Send, SendFails, Accept, PushTypes, ChargeIInv, ChargeInv
  <2>3. ASSUME NEW r \in Runners, (Step(r) \/ Failure(r)) /\ ~(Send(r) \/ SendFails(r))
        PROVE  charge' = charge
    BY <2>3 DEF Step, Failure, ReadOrg, CheckPosted, Record, EndPush,
                RecordFails, PushThrows, Crash
  <2> QED
    BY <2>1, <2>2, <2>3 DEF Next, HourEnds, KeyExpires, Schedule, Tick, Claim, Release, RunByHand
<1> QED
  BY <1>1, ChargeHolds, TypesHold, PTL DEF Spec, RecordedIsFinal

-----------------------------------------------------------------------------
(* Nobody is passed over.  A push that has come to an organization has settled
   all before it, the lease a push works under is the one of this month, and
   months ahead are not finished. *)
PassedInv ==
    /\ \A p \in Pods : pod[p].pc # "idle" => pod[p].key = now
    /\ \A k \in 1..LastPeriod : k > now => finished[k] = {}
    /\ \A r \in Runners : push[r].pc = "idle" => push[r].org = 0
    /\ \A r \in Runners : \A o \in Orgs : o < push[r].org => Settled(o)
    /\ FinishedMeansBilled

(* Within a month what is settled stays so. *)
LEMMA SettledStays ==
  ASSUME PushTypes, Next, ~NextMonth, NEW o \in Orgs, Settled(o)
  PROVE  Settled(o)'
<1> USE DEF Settled
<1>1. ASSUME NEW r \in Runners, Send(r) \/ SendFails(r)
      PROVE  Settled(o)'
  <2>1. charge'[o] >= charge[o]
    BY <1>1 DEF Send, SendFails, Accept, PushTypes
  <2>2. spared \subseteq spared' /\ failed \subseteq failed'
    BY <1>1 DEF Send, SendFails, SkipOrg
  <2>3. charge[o] \in Nat /\ charge'[o] \in Nat
    BY <1>1 DEF Send, SendFails, Accept, PushTypes
  <2> QED BY <2>1, <2>2, <2>3
<1>2. ASSUME NEW r \in Runners, (Step(r) \/ Failure(r)) /\ ~(Send(r) \/ SendFails(r))
      PROVE  Settled(o)'
  <2>1. CASE ReadOrg(r) \/ CheckPosted(r)
    BY <2>1 DEF ReadOrg, CheckPosted, billVars
  <2>2. CASE Record(r) \/ EndPush(r)
    BY <2>2 DEF Record, EndPush, billVars
  <2>3. CASE RecordFails(r) \/ PushThrows(r) \/ Crash(r)
    BY <2>3 DEF RecordFails, PushThrows, Crash, SkipOrg
  <2> QED BY <1>2, <2>1, <2>2, <2>3 DEF Step, Failure
<1>3. ASSUME NEW p \in Pods, Schedule(p)
      PROVE  Settled(o)'
  BY <1>3 DEF Schedule, Tick, Claim, Release, billVars
<1>4. ASSUME NEW m \in Manual, RunByHand(m)
      PROVE  Settled(o)'
  BY <1>4 DEF RunByHand, billVars
<1>5. ASSUME NEW e \in Orgs, KeyExpires(e)
      PROVE  Settled(o)'
  BY <1>5 DEF KeyExpires
<1>6. CASE HourEnds
  BY <1>6 DEF HourEnds, billVars
<1> QED BY <1>1, <1>2, <1>3, <1>4, <1>5, <1>6 DEF Next

(* A push leaves an organization behind only when it is settled. *)
LEMMA PassedSettled ==
  ASSUME PushTypes, ChargeIInv, PassedInv, Next, ~NextMonth,
         NEW r \in Runners, NEW o \in Orgs, o < push'[r].org
  PROVE  Settled(o)'
<1> DEFINE here == push[r].org
<1>0. here \in 0..(NumOrgs + 1) /\ push \in [Runners -> [pc : {"idle", "read", "check", "send", "record"}, org : 0..(NumOrgs + 1)]]
  BY DEF PushTypes, PushOK
<1>1. CASE push'[r].org = here
  BY <1>1, SettledStays DEF PassedInv
<1>2. CASE push'[r] # push[r] /\ ~ (push'[r].org = here)
  <2>1. \/ \E s \in Runners : Step(s) \/ Failure(s)
        \/ \E p \in Pods : Claim(p) /\ Start(p)
        \/ \E m \in Manual : Start(m)
    BY <1>2 DEF Next, HourEnds, KeyExpires, Schedule, Tick, Claim, Release, RunByHand
  <2>2. ~ \E p \in Runners : Start(p) \/ Stop(p)
    BY <1>0, <1>2, PushAssumption DEF Start, Stop, Be, Orgs, PushAssumption
  <2>3. PICK s \in Runners : Step(s) \/ Failure(s)
    BY <2>1, <2>2 DEF Runners
  <2>4. s = r
    BY <1>0, <1>2, <2>2, <2>3
       DEF Step, Failure, ReadOrg, CheckPosted, Send, Record, EndPush, SendFails, RecordFails,
           PushThrows, Crash, SkipOrg, NextOrg, Goto, Be
  <2>5. NextOrg(r)
    BY <1>0, <1>2, <2>2, <2>3, <2>4
       DEF Step, Failure, ReadOrg, CheckPosted, Send, Record, EndPush, SendFails, RecordFails,
           PushThrows, Crash, SkipOrg, Goto, Be
  <2>6. push'[r].org = here + 1
    BY <1>0, <2>5 DEF NextOrg, Be
  <2>7. CASE o < here
    BY <2>7, SettledStays DEF PassedInv
  <2>8. CASE o = here
    <3>2. CASE ReadOrg(r)
      BY <1>0, <1>2, <2>2, <2>8, <3>2 DEF ReadOrg, Goto, Be, Settled
    <3>3. CASE CheckPosted(r)
      <4>1. o \in post
        BY <1>0, <1>2, <2>8, <3>3 DEF CheckPosted, Goto, Be
      <4>2. charge[o] > 0
        BY <4>1 DEF ChargeIInv, RecordMeansCharged
      <4> QED BY <4>2, SettledStays DEF Settled
    <3>4. CASE Record(r)
      <4>1. charge[o] > 0
        BY <2>8, <3>4 DEF Record, ChargeIInv, ChargeInv
      <4> QED BY <4>1, SettledStays DEF Settled
    <3>5. CASE SendFails(r) \/ RecordFails(r)
      BY <2>8, <3>5 DEF SendFails, RecordFails, SkipOrg, Settled
    <3>6. CASE Send(r)
      BY <1>0, <1>2, <3>6 DEF Send, Goto, Be
    <3>7. CASE EndPush(r) \/ PushThrows(r) \/ Crash(r)
      BY <2>2, <3>7 DEF EndPush, PushThrows, Crash
    <3> QED BY <2>3, <2>4, <3>2, <3>3, <3>4, <3>5, <3>6, <3>7 DEF Step, Failure
  <2> QED BY <1>0, <2>6, <2>7, <2>8 DEF Orgs
<1> QED BY <1>1, <1>2

LEMMA PassedStep ==
  ASSUME Lease!TypeOK, PushTypes, ChargeIInv, PassedInv, [Next]_vars
  PROVE  PassedInv'
<1> USE DEF Lease!TypeOK, Lease!Periods
<1>1. CASE NextMonth
  <2>1. now' = now + 1 /\ now' \in 1..LastPeriod /\ finished' = finished /\ pod' = pod /\ push' = push
    BY <1>1, PushAssumption DEF NextMonth, Lease!NextPeriod, PushAssumption
  <2>2. finished[now'] = {}
    BY <2>1 DEF PassedInv
  <2>3. \A p \in Pods : pod[p].pc = "idle"
    BY <1>1 DEF NextMonth
  <2>4. \A r \in Runners : push[r].pc = "idle" /\ push[r].org = 0
    BY <1>1 DEF NextMonth, PassedInv
  <2> QED BY <2>1, <2>2, <2>3, <2>4 DEF PassedInv, FinishedMeansBilled, Orgs
<1>2. CASE Next /\ ~NextMonth
  <2>1. now' = now
    BY <1>2 DEF Next, HourEnds, KeyExpires, Schedule, Tick, Claim, Release, RunByHand, Step, Failure,
      ReadOrg, CheckPosted, Send, Record, EndPush, SendFails, RecordFails, PushThrows, Crash,
      leaseVars, Lease!HourEnds, Lease!Tick, Lease!ClaimWins, Lease!ClaimLoses, Lease!ClaimThrows, Lease!Release,
      Lease!ReleaseFails, Lease!WorkDone, Lease!WorkThrows, Lease!Crash
  <2>2. \A p \in Pods : pod'[p].pc # "idle" => pod'[p].key = now
    <3>1. Lease!Next \/ UNCHANGED leaseVars
      BY <1>2, LeaseSteps
    <3>2. ASSUME NEW q \in Pods, Lease!Tick(q) \/ Lease!PodNext(q) \/ Lease!PodFault(q), NEW p \in Pods,
                 pod'[p].pc # "idle"
          PROVE  pod'[p].key = now
      BY <3>2 DEF PassedInv, Lease!Tick, Lease!PodNext, Lease!PodFault, Lease!ClaimWins, Lease!ClaimLoses,
        Lease!ClaimThrows, Lease!Release, Lease!ReleaseFails, Lease!WorkDone, Lease!WorkThrows,
        Lease!Crash, Lease!Goto, Lease!End, Lease!IdlePod
    <3> QED BY <2>1, <3>1, <3>2 DEF Lease!Next, Lease!HourEnds, Lease!NextPeriod, leaseVars, PassedInv
  <2>3. \A r \in Runners : push'[r].pc = "idle" => push'[r].org = 0
    <3> SUFFICES ASSUME NEW r \in Runners, push'[r].pc = "idle", push'[r] # push[r]
                 PROVE  push'[r].org = 0
      BY DEF PassedInv
    <3> USE DEF PushTypes, PushOK, Be, Goto, Stop, Start, NextOrg, SkipOrg
    <3>1. ASSUME NEW s \in Runners, Step(s) \/ Failure(s)
          PROVE  push'[r].org = 0
      BY <3>1 DEF Step, Failure, ReadOrg, CheckPosted, Send, Record, EndPush, SendFails,
        RecordFails, PushThrows, Crash
    <3> QED BY <1>2, <3>1 DEF Next, HourEnds, KeyExpires, Schedule, Tick, Claim, Release, RunByHand, Runners
  <2>4. \A r \in Runners : \A o \in Orgs : o < push'[r].org => Settled(o)'
    BY <1>2, PassedSettled
  <2>5. CASE finished' = finished
    BY <1>2, <2>1, <2>2, <2>3, <2>4, <2>5, SettledStays DEF PassedInv, FinishedMeansBilled
  <2>6. CASE finished' # finished
    <3>1. PICK p \in Pods : EndPush(p) /\ Lease!WorkDone(p)
      BY <1>2, <2>6, PushAssumption DEF PushAssumption, Next, HourEnds, KeyExpires, Schedule, Tick, Claim, Release, RunByHand, Step,
        Failure, ReadOrg, CheckPosted, Send, Record, EndPush, SendFails, RecordFails, PushThrows, Crash,
        leaseVars, Lease!HourEnds, Lease!Tick, Lease!ClaimWins, Lease!ClaimLoses, Lease!ClaimThrows, Lease!Release,
        Lease!ReleaseFails, Lease!WorkDone, Lease!WorkThrows, Lease!Crash, Runners
    <3>2. pod[p].key = now /\ finished' = [finished EXCEPT ![now] = finished[now] \union {p}]
      BY <3>1 DEF PassedInv, Lease!WorkDone
    <3>3. p \in Runners /\ \A o \in Orgs : o < push[p].org
      BY <3>1, PushAssumption DEF EndPush, Orgs, Runners, PushTypes, PushOK, PushAssumption
    <3>4. \A o \in Orgs : Settled(o)'
      BY <1>2, <3>3, SettledStays DEF PassedInv
    <3>5. \A k \in 1..LastPeriod : k > now => finished'[k] = {}
      BY <3>2 DEF PassedInv
    <3> QED BY <2>1, <2>2, <2>3, <2>4, <3>4, <3>5 DEF PassedInv, FinishedMeansBilled
  <2> QED BY <2>5, <2>6
<1>3. CASE UNCHANGED vars
  BY <1>3 DEF vars, leaseVars, billVars, PassedInv, FinishedMeansBilled, Settled
<1> QED BY <1>1, <1>2, <1>3

(* aiBilling.js:230-292: when an instance finishes the push of a month, every
   organization with usage was charged, passed over as exempt or met an error of
   its own, on any number of instances and pushes by hand and after any failures. *)
THEOREM FinishedPushBilled == Spec => []FinishedMeansBilled
<1>1. Init => PassedInv
  BY PushAssumption DEF Init, Lease!Init, Lease!IdlePod, Lease!Periods, NoPush, PassedInv,
     FinishedMeansBilled, Runners, Orgs, PushAssumption
<1>2. PassedInv => FinishedMeansBilled
  BY DEF PassedInv
<1> QED BY <1>1, <1>2, PassedStep, TypesHold, ChargeHolds, PTL DEF Spec

-----------------------------------------------------------------------------
(* Failures are counted.  A charge that nobody keeps a record of, or is about
   to, is one that a failure has been counted for. *)
\* A record of organization o stands, or a push is about to write one.
Kept(o) == o \in post \/ \E r \in Runners : push[r].pc = "record" /\ push[r].org = o

BoundInv == \A o \in Orgs : charge[o] <= (IF Kept(o) THEN 1 ELSE 0) + mishaps + faults

(* Failures are only counted up. *)
LEMMA FailuresCount ==
  ASSUME Lease!TypeOK, PushTypes, [Next]_vars
  PROVE  faults' \in Nat /\ mishaps' \in Nat /\ faults' >= faults /\ mishaps' >= mishaps
<1>1. faults \in Nat /\ mishaps \in Nat
  BY PushAssumption DEF Lease!TypeOK, PushTypes, PushAssumption
<1>2. faults' = faults \/ faults' = faults + 1
  <2>1. Lease!Next \/ UNCHANGED leaseVars
    BY LeaseSteps
  <2> QED BY <2>1 DEF leaseVars, Lease!Next, Lease!PodNext, Lease!PodFault, Lease!HourEnds, Lease!NextPeriod, Lease!Tick, Lease!ClaimWins, Lease!ClaimLoses,
        Lease!ClaimThrows, Lease!Release, Lease!ReleaseFails, Lease!WorkDone, Lease!WorkThrows,
        Lease!Crash, Lease!Fault
<1>3. mishaps' = mishaps \/ mishaps' = mishaps + 1
  <2>1. ASSUME NEW r \in Runners, Step(r) PROVE mishaps' = mishaps
    BY <2>1 DEF Step, ReadOrg, CheckPosted, Send, Record, EndPush, billVars
  <2>2. ASSUME NEW r \in Runners, Failure(r) PROVE mishaps' = mishaps \/ mishaps' = mishaps + 1
    BY <2>2 DEF Failure, SendFails, RecordFails, PushThrows, Crash, Mishap
  <2> QED BY <2>1, <2>2 DEF Next, NextMonth, HourEnds, KeyExpires, Schedule, Tick, Claim, Release, RunByHand, billVars, vars
<1> QED BY <1>1, <1>2, <1>3

(* Whoever stops keeping organization o has failed. *)
LEMMA KeptOrFailed ==
  ASSUME Lease!TypeOK, PushTypes, ChargeIInv, Next, ~NextMonth, NEW o \in Orgs,
         Kept(o), ~Kept(o)'
  PROVE  mishaps' + faults' >= mishaps + faults + 1 /\ charge' = charge
<1> USE DEF Kept
<1>1. faults \in Nat /\ mishaps \in Nat
  BY PushAssumption DEF Lease!TypeOK, PushTypes, PushAssumption
<1>2. post \subseteq post'
  <2>1. ASSUME NEW r \in Runners, Step(r) \/ Failure(r) PROVE post \subseteq post'
    BY <2>1 DEF Step, Failure, ReadOrg, CheckPosted, Send, Record, EndPush, SendFails, RecordFails, PushThrows, Crash, billVars
  <2> QED BY <2>1 DEF Next, HourEnds, KeyExpires, Schedule, Tick, Claim, Release, RunByHand, billVars, vars
<1>3. PICK r \in Runners : push[r].pc = "record" /\ push[r].org = o
  BY <1>2
<1>4. push'[r] # push[r]
  BY <1>2, <1>3
<1>5. ASSUME NEW p \in Pods, Claim(p)
      PROVE  push' = push \/ (push[p].pc # "record" /\ Start(p))
  <2>1. CASE Lease!ClaimWins(p) /\ Start(p)
    BY <2>1 DEF Lease!ClaimWins, ChargeIInv, ChargeInv
  <2> QED BY <1>5, <2>1 DEF Claim
<1>6. Step(r) \/ Failure(r)
  <2>1. ASSUME NEW s \in Runners, Step(s) \/ Failure(s) PROVE s = r
    BY <1>4, <2>1 DEF Step, Failure, ReadOrg, CheckPosted, Send, Record, EndPush, SendFails, RecordFails,
           PushThrows, Crash, SkipOrg, NextOrg, Goto, Be, Stop, PushTypes, PushOK
  <2>2. ASSUME NEW p \in Pods, Schedule(p) PROVE FALSE
    BY <1>3, <1>4, <1>5, <2>2 DEF Schedule, Tick, Release, Start, Be, PushTypes, PushOK
  <2>3. ASSUME NEW m \in Manual, RunByHand(m) PROVE FALSE
    BY <1>3, <1>4, <2>3 DEF RunByHand, Start, Be, PushTypes, PushOK
  <2> QED BY <1>4, <2>1, <2>2, <2>3 DEF Next, HourEnds, KeyExpires
<1>7. RecordFails(r) \/ Crash(r)
  BY <1>2, <1>3, <1>6 DEF Step, Failure, ReadOrg, CheckPosted, Send, Record, EndPush, SendFails, PushThrows
<1> QED BY <1>1, <1>7 DEF RecordFails, Crash, Lease!Crash, Lease!Fault, Mishap, leaseVars

(* Arithmetic: a bound holds on if its allowance grows, or a failure makes up
   for it. *)
LEMMA Slack ==
  ASSUME NEW n \in Nat, NEW b \in {0, 1}, NEW c \in {0, 1}, NEW m \in Nat, NEW f \in Nat,
         NEW m1 \in Nat, NEW f1 \in Nat, m1 >= m, f1 >= f, n <= b + m + f,
         b <= c \/ m1 + f1 >= m + f + 1
  PROVE  n <= c + m1 + f1
OBVIOUS

LEMMA BoundStep ==
  ASSUME Lease!TypeOK, PushTypes, ChargeIInv, BoundInv, [Next]_vars
  PROVE  BoundInv'
<1>0. /\ faults \in Nat /\ mishaps \in Nat /\ charge \in [Orgs -> Nat]
      /\ faults' \in Nat /\ mishaps' \in Nat /\ faults' >= faults /\ mishaps' >= mishaps
  BY PushAssumption, FailuresCount DEF Lease!TypeOK, PushTypes, PushAssumption
<1>1. CASE NextMonth
  <2>1. \A o \in Orgs : charge'[o] = 0
    BY <1>1 DEF NextMonth, FreshMonth
  <2>2. \A o \in Orgs : (IF Kept(o)' THEN 1 ELSE 0) \in {0, 1}
    OBVIOUS
  <2> QED BY ONLY <1>0, <2>1, <2>2 DEF BoundInv
<1>2. CASE Next /\ ~NextMonth
  <2> SUFFICES ASSUME NEW o \in Orgs
               PROVE  charge'[o] <= (IF Kept(o)' THEN 1 ELSE 0) + mishaps' + faults'
    BY DEF BoundInv
  <2>1. charge[o] <= (IF Kept(o) THEN 1 ELSE 0) + mishaps + faults
    BY DEF BoundInv
  <2>2. CASE charge'[o] = charge[o]
    <3>1. Kept(o) => Kept(o)' \/ mishaps' + faults' >= mishaps + faults + 1
      BY <1>2, KeptOrFailed
    <3>a. charge[o] \in Nat
      BY <1>0
    <3>c. CASE Kept(o) /\ ~Kept(o)'
      BY <1>0, <2>1, <2>2, <3>1, <3>a, <3>c, Slack
    <3>d. CASE Kept(o)'
      BY <1>0, <2>1, <2>2, <3>a, <3>d, Slack
    <3>e. CASE ~Kept(o) /\ ~Kept(o)'
      BY <1>0, <2>1, <2>2, <3>a, <3>e, Slack
    <3> QED BY <3>c, <3>d, <3>e
  <2>3. CASE charge'[o] # charge[o]
    <3>1. PICK r \in Runners : (Send(r) \/ SendFails(r)) /\ Accept(push[r].org)
      <4>1. ASSUME NEW s \in Runners, Step(s), ~Send(s) PROVE charge' = charge
        BY <4>1 DEF Step, ReadOrg, CheckPosted, Record, EndPush, billVars
      <4>2. ASSUME NEW s \in Runners, Failure(s), ~SendFails(s) PROVE charge' = charge
        BY <4>2 DEF Failure, RecordFails, PushThrows, Crash
      <4>3. \E s \in Runners : Send(s) \/ SendFails(s)
        BY <1>2, <2>3, <4>1, <4>2 DEF Next, HourEnds, KeyExpires, Schedule, Tick, Claim, Release, RunByHand, billVars
      <4> QED BY <2>3, <4>3 DEF Send, SendFails
    <3>2. push[r].org = o /\ o \notin live /\ charge'[o] = charge[o] + 1 /\ push[r].pc = "send"
      BY <1>0, <2>3, <3>1 DEF Accept, Send, SendFails
    <3>3. ~Kept(o)
      BY <3>2 DEF Kept, ChargeIInv, ChargeInv
    <3>4. Kept(o)' \/ mishaps' = mishaps + 1
      <4>1. CASE Send(r)
        BY <3>2, <4>1 DEF Send, Goto, Be, Kept, PushTypes, PushOK
      <4>2. CASE SendFails(r)
        BY <4>2 DEF SendFails, Mishap
      <4> QED BY <3>1, <4>1, <4>2
    <3>a. charge[o] \in Nat
      BY <1>0
    <3> HIDE DEF Kept
    <3> QED BY <1>0, <2>1, <3>2, <3>3, <3>4, <3>a
  <2> QED BY <2>2, <2>3
<1>3. CASE UNCHANGED vars
  BY <1>3 DEF vars, leaseVars, billVars, BoundInv, Kept
<1> QED BY <1>1, <1>2, <1>3

(* An organization is charged for a month at most once more than statements and
   processes have failed. *)
THEOREM ChargesCounted == Spec => []ChargesBounded
<1>1. Init => BoundInv
  BY DEF Init, Lease!Init, BoundInv
<1>2. Lease!TypeOK /\ PushTypes /\ BoundInv => ChargesBounded
  <2> SUFFICES ASSUME Lease!TypeOK, PushTypes, BoundInv, NEW o \in Orgs PROVE charge[o] <= 1 + mishaps + faults
    BY DEF ChargesBounded
  <2>1. charge[o] <= (IF Kept(o) THEN 1 ELSE 0) + mishaps + faults
    BY DEF BoundInv
  <2>2. mishaps \in Nat /\ faults \in Nat /\ charge[o] \in Nat
    BY PushAssumption DEF Lease!TypeOK, PushTypes, PushAssumption
  <2> QED BY <2>1, <2>2
<1> QED BY <1>1, <1>2, BoundStep, TypesHold, ChargeHolds, PTL DEF Spec
=============================================================================
