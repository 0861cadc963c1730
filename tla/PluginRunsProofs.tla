-------------------------- MODULE PluginRunsProofs --------------------------
(***************************************************************************)
(* Proofs about PluginRuns: the types, that a process which refuses a run  *)
(* has one in flight, that an event runs a plugin's code once and a month  *)
(* no more runs than the quota, and that the plugins that keep failing,    *)
(* and only they, are paused.                                              *)
(***************************************************************************)
EXTENDS PluginRunsProps, FiniteSetTheorems, TLAPS

CallType ==
    [pc : {"idle", "next", "start", "refused", "admitted", "inserted", "quota", "loading",
           "executing", "leaving", "outcome", "pausing"},
     event : Keys, todo : SUBSET Plugins, plugin : Plugins \union {None},
     read : 0..(Cap - 1), status : Outcomes \union {"none"}]

PluginType == [status : {"active", "suspended", "errored"}, streak : Nat]

(* The cap is positive. *)
LEMMA CapPositive == Cap \in Nat /\ Cap > 0 /\ 0 \in 0..(Cap - 1)
<1>1. Cap \in Nat \ {0}
  BY PluginAssumption
<1> QED BY <1>1

\* The program counters of a call that handles one plugin.
OnePlugin == {"start", "refused", "admitted", "inserted", "quota", "loading", "executing",
              "leaving", "outcome", "pausing"}

\* What TypeOK leaves open: a call that handles a plugin has one, only a dispatch
\* goes through the listeners, and an outcome is one.
CallInv ==
    \A c \in Calls :
        /\ call[c].pc \in OnePlugin => call[c].plugin \in Plugins
        /\ call[c].pc \in {"next", "outcome", "pausing"} => call[c].event \in Events
        /\ call[c].pc \in {"leaving", "outcome"} => call[c].status \in Outcomes

Types == TypeOK /\ CallInv

(* Initially all is typed. *)
LEMMA TypesInit == Init => Types
  BY PluginAssumption
     DEF Init, Types, TypeOK, CallInv, Idle, Keys, Outcomes, OnePlugin

(* A call after its step, as far as the types go. *)
CallOK(k) ==
    /\ k \in CallType
    /\ k.pc \in OnePlugin => k.plugin \in Plugins
    /\ k.pc \in {"next", "outcome", "pausing"} => k.event \in Events
    /\ k.pc \in {"leaving", "outcome"} => k.status \in Outcomes

(* The types in terms of single calls. *)
LEMMA TypesByCall ==
  Types <=> /\ plugin \in [Plugins -> PluginType]
            /\ inFlight \in [Procs -> 0..Cap]
            /\ rows \in Nat
            /\ dedupe \subseteq Plugins \X Events
            /\ call \in [Calls -> CallType]
            /\ \A c \in Calls : CallOK(call[c])
            /\ ran \in [Plugins -> [Keys -> Nat]]
            /\ executed \in Nat
            /\ broken \in [Plugins -> Nat]
            /\ pardoned \subseteq Plugins
            /\ requests \in 0..MaxRequests
            /\ faults \in 0..MaxFaults
  BY DEF Types, TypeOK, CallInv, CallOK, CallType, PluginType

\* A step of call c.
StepOf(c) ==
    \/ \E p \in Plugins : RunByHand(c, p) \/ ClaimDedupe(c, p) \/ SkipDuplicate(c, p)
                          \/ ClaimFails(c, p)
    \/ \E e \in Events : Emit(c, e)
    \/ EndDispatch(c) \/ CheckCap(c) \/ Refuse(c) \/ CreateRunRow(c) \/ CreateRunRowFails(c)
    \/ TakeSlot(c) \/ CheckQuota(c) \/ LoadPlugin(c) \/ Execute(c) \/ RunnerFails(c)
    \/ LeaveSlot(c) \/ RecordOutcome(c) \/ RecordOutcomeFails(c) \/ AutoPause(c)
    \/ AutoPauseFails(c)

(* Next, in terms of the calls. *)
LEMMA NextByCall ==
  Next => \/ \E c \in Calls : StepOf(c)
          \/ \E p \in Plugins, status \in {"active", "suspended"} : SetStatus(p, status)
          \/ \E h \in Procs : Restart(h)
  BY DEF Next, RequestNext, CallNext, CallFault, StepOf

(* What a call becomes in one of its steps. *)
LEMMA StepCall ==
  ASSUME Types, NEW c \in Calls, StepOf(c)
  PROVE  /\ call' \in [Calls -> CallType]
         /\ \A d \in Calls \ {c} : call'[d] = call[d]
         /\ CallOK(call'[c])
<1> DEFINE Goal == /\ call' \in [Calls -> CallType]
                   /\ \A d \in Calls \ {c} : call'[d] = call[d]
                   /\ CallOK(call'[c])
<1>0. call \in [Calls -> CallType] /\ CallOK(call[c])
  BY TypesByCall
<1>a. ASSUME NEW k, CallOK(k), call' = [call EXCEPT ![c] = k] PROVE Goal
  BY <1>0, <1>a DEF CallOK
<1>idle. CallOK(Idle)
  BY CapPositive DEF Idle, CallOK, CallType, OnePlugin, Keys
<1>to. ASSUME NEW pc \in OnePlugin \ {"leaving", "outcome", "pausing"}, call[c].pc \in OnePlugin
       PROVE  CallOK([call[c] EXCEPT !.pc = pc])
  BY <1>0, <1>to DEF CallOK, CallType, OnePlugin
<1>next. call[c].event \in Events =>
            CallOK([call[c] EXCEPT !.pc = "next", !.plugin = None, !.read = 0, !.status = "none"])
  BY <1>0, CapPositive DEF CallOK, CallType, OnePlugin
<1>leave. ASSUME NEW status \in Outcomes, call[c].pc \in OnePlugin
          PROVE  CallOK([call[c] EXCEPT !.pc = "leaving", !.status = status])
  BY <1>0, <1>leave DEF CallOK, CallType, OnePlugin
<1>return. ASSUME NEW status \in Outcomes, call[c].pc \in OnePlugin, Return(c, status)
           PROVE  Goal
  <2>1. CASE call[c].event = None
    BY <2>1, <1>a, <1>idle, <1>return DEF Return
  <2>2. CASE call[c].event # None
    <3>1. CallOK([call[c] EXCEPT !.pc = "outcome", !.status = status, !.read = 0])
      BY <2>2, <1>0, <1>return, CapPositive DEF CallOK, CallType, OnePlugin, Keys
    <3>2. call' = [call EXCEPT ![c] = [call[c] EXCEPT !.pc = "outcome", !.status = status,
                                                      !.read = 0]]
      BY <2>2, <1>0, <1>return DEF Return
    <3> QED BY ONLY <3>1, <3>2, <1>a
  <2> QED BY <2>1, <2>2
<1>1. ASSUME NEW p \in Plugins, RunByHand(c, p) PROVE Goal
  <2>1. CallOK([Idle EXCEPT !.pc = "start", !.plugin = p])
    BY CapPositive DEF Idle, CallOK, CallType, OnePlugin, Keys
  <2> QED BY <1>1, <1>a, <2>1 DEF RunByHand
<1>2. ASSUME NEW p \in Plugins, ClaimDedupe(c, p) \/ SkipDuplicate(c, p) \/ ClaimFails(c, p)
      PROVE  Goal
  <2>1. CallOK([call[c] EXCEPT !.todo = @ \ {p}])
    BY <1>0 DEF CallOK, CallType
  <2>2. CallOK([call[c] EXCEPT !.pc = "start", !.plugin = p, !.todo = @ \ {p}])
    BY <1>0 DEF CallOK, CallType, OnePlugin
  <2>3. CASE ClaimDedupe(c, p)
    BY <1>a, <2>2, <2>3 DEF ClaimDedupe
  <2>4. CASE SkipDuplicate(c, p) \/ ClaimFails(c, p)
    <3>1. call' = [call EXCEPT ![c] = [call[c] EXCEPT !.todo = @ \ {p}]]
      BY <2>4, <1>0 DEF SkipDuplicate, ClaimFails, CallType
    <3> QED BY ONLY <1>a, <2>1, <3>1
  <2> QED BY <1>2, <2>3, <2>4
<1>3. ASSUME NEW e \in Events, Emit(c, e) PROVE Goal
  <2> DEFINE listeners == {p \in Plugins : plugin[p].status = "active"}
  <2>1. CallOK([Idle EXCEPT !.pc = "next", !.event = e, !.todo = listeners])
    BY CapPositive DEF Idle, CallOK, CallType, OnePlugin, Keys
  <2> QED BY <1>3, <1>a, <2>1 DEF Emit
<1>4. CASE EndDispatch(c)
  BY <1>4, <1>a, <1>idle DEF EndDispatch
<1>5. CASE CheckCap(c)
  <2>1. inFlight[Host[c]] \in 0..Cap
    BY PluginAssumption DEF Types, TypeOK
  <2>2. inFlight[Host[c]] < Cap => inFlight[Host[c]] \in 0..(Cap - 1)
    BY <2>1, CapPositive
  <2>3. ASSUME NEW n \in 0..(Cap - 1), call[c].pc = "start"
        PROVE  CallOK([call[c] EXCEPT !.pc = "admitted", !.read = n])
    BY <1>0, <2>3 DEF CallOK, CallType, OnePlugin
  <2>4. inFlight[Host[c]] < Cap =>
           CallOK([call[c] EXCEPT !.pc = "admitted", !.read = inFlight[Host[c]]])
    BY ONLY <1>5, <2>2, <2>3 DEF CheckCap
  <2>5. CASE inFlight[Host[c]] >= Cap
    BY <1>5, <2>5, <1>a, <1>to DEF CheckCap, Goto, OnePlugin
  <2>6. CASE ~(inFlight[Host[c]] >= Cap)
    <3>1. call' = [call EXCEPT ![c] = [call[c] EXCEPT !.pc = "admitted",
                                                      !.read = inFlight[Host[c]]]]
      BY <1>5, <2>6 DEF CheckCap
    <3>2. inFlight[Host[c]] < Cap
      BY <2>6, <2>1, CapPositive
    <3> QED BY ONLY <1>a, <2>4, <3>1, <3>2
  <2> QED BY <2>5, <2>6
<1>6. CASE Refuse(c)
  BY <1>6, <1>return DEF Refuse, OnePlugin, Outcomes
<1>7. CASE CreateRunRow(c) \/ TakeSlot(c)
  BY <1>7, <1>a, <1>to DEF CreateRunRow, TakeSlot, Goto, OnePlugin
<1>8. CASE CreateRunRowFails(c)
  BY <1>8, <1>a, <1>idle, <1>next, <1>return, <1>0
     DEF CreateRunRowFails, NextListener, OnePlugin, Outcomes, CallOK, CallType, Keys
<1>9. CASE CheckQuota(c) \/ LoadPlugin(c) \/ Execute(c) \/ RunnerFails(c)
  BY <1>9, <1>a, <1>to, <1>leave
     DEF CheckQuota, LoadPlugin, Execute, RunnerFails, Leaving, Goto, OnePlugin, Outcomes, Failure
<1>10. CASE LeaveSlot(c)
  BY <1>10, <1>return, <1>0 DEF LeaveSlot, CallOK, OnePlugin
<1>11. CASE RecordOutcome(c)
  <2>1. call[c].pc = "outcome" => CallOK([call[c] EXCEPT !.pc = "pausing"])
    BY <1>0 DEF CallOK, CallType, OnePlugin
  <2>2. call[c].event \in Events
    BY <1>0, <1>11 DEF RecordOutcome, CallOK
  <2> QED BY <1>11, <1>a, <1>next, <2>1, <2>2 DEF RecordOutcome, NextListener, Goto
<1>12. CASE RecordOutcomeFails(c) \/ AutoPause(c) \/ AutoPauseFails(c)
  BY <1>12, <1>0, <1>a, <1>next
     DEF RecordOutcomeFails, AutoPause, AutoPauseFails, NextListener, CallOK
<1> QED
  BY <1>1, <1>2, <1>3, <1>4, <1>5, <1>6, <1>7, <1>8, <1>9, <1>10, <1>11, <1>12 DEF StepOf

\* The types but for the calls.
TablesOK ==
    /\ plugin \in [Plugins -> PluginType]
    /\ inFlight \in [Procs -> 0..Cap]
    /\ rows \in Nat
    /\ dedupe \subseteq Plugins \X Events
    /\ ran \in [Plugins -> [Keys -> Nat]]
    /\ executed \in Nat
    /\ broken \in [Plugins -> Nat]
    /\ pardoned \subseteq Plugins
    /\ requests \in 0..MaxRequests
    /\ faults \in 0..MaxFaults

(* A step of a call keeps tables, counters and history typed; the counter stays
   within the cap because what is written is a count below the cap, plus one. *)
LEMMA StepTables ==
  ASSUME Types, NEW c \in Calls, StepOf(c)
  PROVE  TablesOK'
<1>0. TablesOK /\ CallOK(call[c]) /\ call[c] \in CallType
  BY TypesByCall DEF TablesOK
<1>1. MaxRequests \in Nat /\ MaxFaults \in Nat /\ Host[c] \in Procs
  BY PluginAssumption
<1>req. Request => requests' \in 0..MaxRequests
  BY <1>0, <1>1 DEF TablesOK, Request
<1>fault. Fault => faults' \in 0..MaxFaults
  BY <1>0, <1>1 DEF TablesOK, Fault
<1>2. ASSUME NEW p \in Plugins, RunByHand(c, p) PROVE TablesOK'
  BY <1>0, <1>2, <1>req DEF TablesOK, RunByHand, tables, history
<1>3. ASSUME NEW e \in Events, Emit(c, e) PROVE TablesOK'
  BY <1>0, <1>3, <1>req DEF TablesOK, Emit, tables, history
<1>4. ASSUME NEW p \in Plugins, ClaimDedupe(c, p) PROVE TablesOK'
  BY <1>0, <1>4 DEF TablesOK, ClaimDedupe, CallOK, history
<1>5. ASSUME NEW p \in Plugins, SkipDuplicate(c, p) PROVE TablesOK'
  BY <1>0, <1>5 DEF TablesOK, SkipDuplicate, tables, history
<1>6. ASSUME NEW p \in Plugins, ClaimFails(c, p) PROVE TablesOK'
  BY <1>0, <1>6, <1>fault DEF TablesOK, ClaimFails, CallOK, history
<1>7. CASE EndDispatch(c) \/ CheckCap(c) \/ CheckQuota(c) \/ LoadPlugin(c)
  BY <1>0, <1>7 DEF TablesOK, EndDispatch, CheckCap, CheckQuota, LoadPlugin, tables, history
<1>8. CASE Refuse(c) \/ CreateRunRow(c)
  BY <1>0, <1>8 DEF TablesOK, Refuse, CreateRunRow, history
<1>9. CASE CreateRunRowFails(c)
  BY <1>0, <1>9, <1>fault DEF TablesOK, CreateRunRowFails, history
<1>10. CASE TakeSlot(c)
  <2>1. call[c].read + 1 \in 0..Cap
    BY <1>0, CapPositive DEF CallType
  <2> QED BY <1>0, <1>1, <1>10, <2>1 DEF TablesOK, TakeSlot, tables, history
<1>11. CASE Execute(c)
  <2>1. call[c].plugin \in Plugins /\ call[c].event \in Keys
    BY <1>0, <1>11 DEF Execute, CallOK, OnePlugin, CallType
  <2>2. ran' \in [Plugins -> [Keys -> Nat]]
    BY <1>0, <1>11, <2>1 DEF Execute, TablesOK
  <2>3. broken' \in [Plugins -> Nat] /\ executed' \in Nat
    BY <1>0, <1>11, <2>1 DEF Execute, TablesOK
  <2> QED BY <1>0, <1>11, <2>2, <2>3 DEF TablesOK, Execute, tables
<1>12. CASE RunnerFails(c)
  <2>1. call[c].plugin \in Plugins
    BY <1>0, <1>12 DEF RunnerFails, CallOK, OnePlugin
  <2> QED BY <1>0, <1>12, <1>fault, <2>1 DEF TablesOK, RunnerFails, tables, history
<1>13. CASE LeaveSlot(c)
  <2>1. ASSUME NEW n \in 0..Cap PROVE (IF n > 1 THEN n - 1 ELSE 0) \in 0..Cap
    BY CapPositive
  <2>2. inFlight' \in [Procs -> 0..Cap]
    BY <1>0, <1>1, <1>13, <2>1 DEF LeaveSlot, TablesOK
  <2> QED BY <1>0, <1>13, <2>2 DEF TablesOK, LeaveSlot, tables, history
<1>14. ASSUME NEW p \in Plugins, NEW q, plugin \in [Plugins -> PluginType],
              q = [plugin EXCEPT ![p].streak = Streak(p)] \/ q = [plugin EXCEPT ![p].streak = 0]
       PROVE  q \in [Plugins -> PluginType]
  BY <1>14 DEF PluginType, Streak
<1>15. CASE RecordOutcome(c)
  <2>1. call[c].plugin \in Plugins
    BY <1>0, <1>15 DEF RecordOutcome, CallOK, OnePlugin
  <2>2. plugin' \in [Plugins -> PluginType] /\ pardoned' \subseteq Plugins
    BY <1>0, <1>15, <1>14, <2>1 DEF RecordOutcome, TablesOK
  <2> QED BY <1>0, <1>15, <2>2 DEF TablesOK, RecordOutcome
<1>16. CASE RecordOutcomeFails(c)
  <2>1. call[c].plugin \in Plugins
    BY <1>0, <1>16 DEF RecordOutcomeFails, CallOK, OnePlugin
  <2>2. plugin' \in [Plugins -> PluginType] /\ pardoned' \subseteq Plugins
    BY <1>0, <1>16, <1>14, <2>1 DEF RecordOutcomeFails, TablesOK
  <2> QED BY <1>0, <1>16, <1>fault, <2>2 DEF TablesOK, RecordOutcomeFails
<1>17. CASE AutoPause(c)
  <2>1. plugin' \in [Plugins -> PluginType]
    BY <1>0, <1>17 DEF AutoPause, TablesOK, PluginType
  <2> QED BY <1>0, <1>17, <2>1 DEF TablesOK, AutoPause, history
<1>18. CASE AutoPauseFails(c)
  <2>1. call[c].plugin \in Plugins
    BY <1>0, <1>18 DEF AutoPauseFails, CallOK, OnePlugin
  <2> QED BY <1>0, <1>18, <1>fault, <2>1 DEF TablesOK, AutoPauseFails, tables
<1> QED
  BY <1>2, <1>3, <1>4, <1>5, <1>6, <1>7, <1>8, <1>9, <1>10, <1>11, <1>12, <1>13, <1>15, <1>16,
     <1>17, <1>18 DEF StepOf

(* The types are inductive. *)
LEMMA StepTypes == Types /\ [Next]_vars => Types'
<1> SUFFICES ASSUME Types, [Next]_vars PROVE Types'
  OBVIOUS
<1>0. MaxRequests \in Nat /\ MaxFaults \in Nat
  BY PluginAssumption
<1>1. ASSUME NEW c \in Calls, StepOf(c) PROVE Types'
  <2>1. TablesOK' /\ call' \in [Calls -> CallType] /\ CallOK(call'[c])
    BY <1>1, StepTables, StepCall
  <2>2. ASSUME NEW d \in Calls PROVE CallOK(call'[d])
    <3>1. CASE d = c
      BY <2>1, <3>1
    <3>2. CASE d # c
      BY <1>1, <3>2, StepCall, TypesByCall
    <3> QED BY <3>1, <3>2
  <2> QED BY <2>1, <2>2 DEF TablesOK, Types, TypeOK, CallInv, CallOK, CallType, PluginType
<1>2. ASSUME NEW p \in Plugins, NEW status \in {"active", "suspended"}, SetStatus(p, status)
      PROVE  Types'
  <2>1. plugin' \in [Plugins -> [status : {"active", "suspended", "errored"}, streak : Nat]]
    BY <1>2 DEF SetStatus, Types, TypeOK
  <2>2. pardoned' \subseteq Plugins /\ requests' \in 0..MaxRequests
    BY <1>0, <1>2 DEF SetStatus, Types, TypeOK, Request
  <2> QED BY <1>2, <2>1, <2>2 DEF SetStatus, Types, TypeOK, CallInv
<1>3. ASSUME NEW h \in Procs, Restart(h) PROVE Types'
  <2>1. inFlight' \in [Procs -> 0..Cap] /\ faults' \in 0..MaxFaults
    BY <1>0, <1>3, CapPositive DEF Restart, Types, TypeOK, Fault
  <2>2. pardoned' \subseteq Plugins
    <3>1. \A c \in Calls : call[c].pc = "pausing" => call[c].plugin \in Plugins
      BY DEF Types, CallInv, OnePlugin
    <3>2. pardoned \subseteq Plugins
      BY DEF Types, TypeOK
    <3> QED BY <1>3, <3>1, <3>2 DEF Restart
  <2>3. CallOK(Idle)
    BY CapPositive DEF Idle, CallOK, CallType, OnePlugin, Keys
  <2>4. \A c \in Calls : CallOK(call[c])
    BY TypesByCall
  <2>5. call' \in [Calls -> CallType] /\ \A c \in Calls : CallOK(call'[c])
    BY <1>3, <2>3, <2>4 DEF Restart, CallOK
  <2> QED BY <1>3, <2>1, <2>2, <2>5
          DEF Restart, tables, Types, TypeOK, CallInv, CallOK, CallType
<1>4. CASE UNCHANGED vars
  BY <1>4 DEF vars, Types, TypeOK, CallInv
<1> QED BY <1>1, <1>2, <1>3, <1>4, NextByCall

(* Tables, counters and calls of every reachable state are typed. *)
THEOREM TypeCorrect == Spec => []TypeOK
<1>1. Types => TypeOK
  BY DEF Types
<1> QED BY <1>1, TypesInit, StepTypes, PTL DEF Spec

-----------------------------------------------------------------------------
(* The counter.                                                            *)

(* A step that leaves the counter alone leaves running calls running. *)
LEMMA OthersKeepRunning ==
  ASSUME Types, NEW c \in Calls, StepOf(c), ~TakeSlot(c), ~LeaveSlot(c)
  PROVE  inFlight' = inFlight /\ (Running(c) => Running(c)')
<1>0. call \in [Calls -> CallType]
  BY TypesByCall
<1>1. inFlight' = inFlight
  BY DEF StepOf, RunByHand, ClaimDedupe, SkipDuplicate, ClaimFails, Emit, EndDispatch, CheckCap,
         Refuse, CreateRunRow, CreateRunRowFails, CheckQuota, LoadPlugin, Execute, RunnerFails,
         RecordOutcome, RecordOutcomeFails, AutoPause, AutoPauseFails
<1>2. ASSUME Running(c) PROVE Running(c)'
  <2>1. CheckQuota(c) \/ LoadPlugin(c) \/ Execute(c) \/ RunnerFails(c)
    BY <1>2 DEF Running, StepOf, RunByHand, ClaimDedupe, SkipDuplicate, ClaimFails, Emit,
       EndDispatch, CheckCap, Refuse, CreateRunRow, CreateRunRowFails, RecordOutcome,
       RecordOutcomeFails, AutoPause, AutoPauseFails
  <2>2. ASSUME NEW pc \in {"loading", "executing"}, Goto(c, pc) PROVE Running(c)'
    BY <1>0, <2>2 DEF Goto, Running, CallType
  <2>3. ASSUME NEW status \in Outcomes, Leaving(c, status) PROVE Running(c)'
    BY <1>0, <2>3 DEF Leaving, Running, CallType
  <2> QED
    BY <2>1, <2>2, <2>3 DEF CheckQuota, LoadPlugin, Execute, RunnerFails, Outcomes, Failure
<1> QED BY <1>1, <1>2

(* A process at its cap keeps a call in flight. *)
LEMMA StepNoLockOut == Types /\ NoLockOut /\ [Next]_vars => NoLockOut'
<1> SUFFICES ASSUME Types, NoLockOut, [Next]_vars, NEW g \in Procs, inFlight'[g] >= Cap
             PROVE  \E d \in Calls : Host[d] = g /\ Running(d)'
  BY DEF NoLockOut, RunningOn, Running
<1>0. /\ call \in [Calls -> CallType]
      /\ inFlight \in [Procs -> 0..Cap]
      /\ \A h \in Procs : inFlight[h] >= Cap => \E d \in Calls : Host[d] = h /\ Running(d)
  BY TypesByCall DEF NoLockOut, RunningOn
<1>1. ASSUME NEW c \in Calls, StepOf(c) PROVE \E d \in Calls : Host[d] = g /\ Running(d)'
  <2>0. \A d \in Calls \ {c} : Running(d) => Running(d)'
    BY <1>1, StepCall DEF Running
  <2>1. CASE TakeSlot(c)
    <3>1. Running(c)'
      BY <1>0, <2>1 DEF TakeSlot, Goto, Running, CallType
    <3>2. CASE Host[c] = g
      BY <3>1, <3>2
    <3>3. CASE Host[c] # g
      <4>1. inFlight[g] >= Cap
        BY <1>0, <2>1, <3>3 DEF TakeSlot
      <4>2. PICK d \in Calls : Host[d] = g /\ Running(d)
        BY <1>0, <4>1
      <4> QED BY <2>0, <3>3, <4>2
    <3> QED BY <3>2, <3>3
  <2>2. CASE LeaveSlot(c)
    <3>1. CASE Host[c] = g
      <4>1. inFlight'[g] = IF inFlight[g] > 1 THEN inFlight[g] - 1 ELSE 0
        BY <1>0, <2>2, <3>1 DEF LeaveSlot
      <4>2. inFlight[g] \in 0..Cap
        BY <1>0
      <4> QED BY <4>1, <4>2, CapPositive
    <3>2. CASE Host[c] # g
      <4>1. inFlight[g] >= Cap
        BY <1>0, <2>2, <3>2 DEF LeaveSlot
      <4>2. PICK d \in Calls : Host[d] = g /\ Running(d)
        BY <1>0, <4>1
      <4> QED BY <2>0, <3>2, <4>2
    <3> QED BY <3>1, <3>2
  <2>3. CASE ~TakeSlot(c) /\ ~LeaveSlot(c)
    <3>1. inFlight' = inFlight /\ (Running(c) => Running(c)')
      BY <1>1, <2>3, OthersKeepRunning
    <3>2. PICK d \in Calls : Host[d] = g /\ Running(d)
      BY <1>0, <3>1
    <3> QED BY <2>0, <3>1, <3>2
  <2> QED BY <2>1, <2>2, <2>3
<1>2. ASSUME NEW h \in Procs, Restart(h) PROVE \E d \in Calls : Host[d] = g /\ Running(d)'
  <2>1. g # h /\ inFlight[g] >= Cap
    BY <1>0, <1>2, CapPositive DEF Restart
  <2>2. PICK d \in Calls : Host[d] = g /\ Running(d)
    BY <1>0, <2>1
  <2>3. Running(d)'
    BY <1>2, <2>1, <2>2 DEF Restart, Running
  <2> QED BY <2>2, <2>3
<1>3. CASE (\E p \in Plugins, status \in {"active", "suspended"} : SetStatus(p, status))
           \/ UNCHANGED vars
  <2>1. UNCHANGED <<call, inFlight>>
    BY <1>3 DEF SetStatus, vars
  <2> QED BY <1>0, <2>1 DEF Running
<1> QED BY <1>1, <1>2, <1>3, NextByCall

(* A process that refuses runs has one in flight: its counter, whatever updates
   of it are lost, cannot lock an organization out. *)
THEOREM NeverLockedOut == Spec => []NoLockOut
<1>1. Init => NoLockOut
  BY CapPositive DEF Init, NoLockOut
<1> QED BY <1>1, TypesInit, StepTypes, StepNoLockOut, PTL DEF Spec

-----------------------------------------------------------------------------
(* Events.                                                                 *)

\* Call c may still run p's code for e.
Pending(c, p, e) ==
    /\ call[c].pc \in {"start", "admitted", "inserted", "quota", "loading", "executing"}
    /\ call[c].plugin = p
    /\ call[c].event = e

\* A delivery is in plugin_trigger_dedupe from before the run, and one call at
\* most, before the run, holds it.
DeliveryInv ==
    \A p \in Plugins, e \in Events :
        /\ ran[p][e] <= 1
        /\ ran[p][e] # 0 => <<p, e>> \in dedupe
        /\ \A c \in Calls : Pending(c, p, e) => <<p, e>> \in dedupe /\ ran[p][e] = 0
        /\ \A c, d \in Calls : Pending(c, p, e) /\ Pending(d, p, e) => c = d

(* Only ClaimDedupe makes a delivery pending, and only Execute runs one. *)
LEMMA StepPending ==
  ASSUME Types, NEW c \in Calls, StepOf(c), ~Execute(c),
         \A p \in Plugins : ~ClaimDedupe(c, p)
  PROVE  /\ ran' = ran
         /\ dedupe \subseteq dedupe'
         /\ \A p \in Plugins, e \in Events : Pending(c, p, e)' => Pending(c, p, e)
<1>0. call \in [Calls -> CallType] /\ call[c] \in CallType /\ None \notin Events
  BY TypesByCall, PluginAssumption
<1>1. ran' = ran /\ dedupe \subseteq dedupe'
  BY DEF StepOf, RunByHand, SkipDuplicate, ClaimFails, Emit, EndDispatch, CheckCap, Refuse,
         CreateRunRow, CreateRunRowFails, TakeSlot, CheckQuota, LoadPlugin, RunnerFails,
         LeaveSlot, RecordOutcome, RecordOutcomeFails, AutoPause, AutoPauseFails, tables, history
<1> SUFFICES ASSUME NEW p \in Plugins, NEW e \in Events, Pending(c, p, e)'
             PROVE  Pending(c, p, e)
  BY <1>1
<1> DEFINE Kept(k) == k.plugin = call[c].plugin /\ k.event = call[c].event
           Over == {"idle", "next", "refused", "leaving", "outcome", "pausing"}
<1>2. ASSUME call[c].pc \in {"start", "admitted", "inserted", "quota", "loading", "executing"},
             Kept(call'[c])
      PROVE  Pending(c, p, e)
  BY <1>2 DEF Pending
<1>3. call'[c].pc \notin Over /\ call'[c].event # None
  BY <1>0 DEF Pending
<1>4. ASSUME NEW pc, Goto(c, pc) PROVE call'[c].pc = pc /\ Kept(call'[c])
  BY <1>0, <1>4 DEF Goto, CallType
<1>5. ASSUME NEW q \in Plugins, RunByHand(c, q) PROVE FALSE
  BY <1>0, <1>3, <1>5 DEF RunByHand, Idle
<1>6. ASSUME NEW q \in Plugins, SkipDuplicate(c, q) \/ ClaimFails(c, q) PROVE FALSE
  BY <1>0, <1>3, <1>6 DEF SkipDuplicate, ClaimFails, CallType
<1>7. ASSUME NEW f \in Events, Emit(c, f) PROVE FALSE
  BY <1>0, <1>3, <1>7 DEF Emit, Idle
<1>8. ASSUME NextListener(c) PROVE FALSE
  BY <1>0, <1>3, <1>8 DEF NextListener, CallType
<1>9. ASSUME NEW status, Return(c, status) PROVE FALSE
  BY <1>0, <1>3, <1>9 DEF Return, Idle, CallType
<1>10. ASSUME NEW status, Leaving(c, status) PROVE FALSE
  BY <1>0, <1>3, <1>10 DEF Leaving, CallType
<1>11. CASE EndDispatch(c)
  BY <1>0, <1>3, <1>11 DEF EndDispatch, Idle
<1>12. CASE CheckCap(c)
  <2>1. ~Goto(c, "refused")
    BY <1>3, <1>4
  <2>2. Kept(call'[c])
    BY <1>0, <1>12, <2>1 DEF CheckCap, CallType
  <2> QED BY <1>2, <1>12, <2>2 DEF CheckCap
<1>13. CASE Refuse(c) \/ LeaveSlot(c) \/ RunnerFails(c)
  BY <1>9, <1>10, <1>13 DEF Refuse, LeaveSlot, RunnerFails
<1>14. CASE CreateRunRow(c) \/ TakeSlot(c)
  <2>1. Kept(call'[c])
    BY <1>4, <1>14 DEF CreateRunRow, TakeSlot
  <2> QED BY <1>2, <1>14, <2>1 DEF CreateRunRow, TakeSlot
<1>15. CASE CreateRunRowFails(c)
  <2>1. call'[c] = Idle
    BY <1>0, <1>8, <1>9, <1>15 DEF CreateRunRowFails
  <2> QED BY <1>3, <2>1 DEF Idle
<1>16. CASE CheckQuota(c) \/ LoadPlugin(c)
  <2>1. Kept(call'[c])
    BY <1>4, <1>10, <1>16 DEF CheckQuota, LoadPlugin
  <2> QED BY <1>2, <1>16, <2>1 DEF CheckQuota, LoadPlugin
<1>17. CASE RecordOutcome(c)
  <2>1. ~Goto(c, "pausing")
    BY <1>3, <1>4
  <2> QED BY <1>8, <1>17, <2>1 DEF RecordOutcome
<1>18. CASE RecordOutcomeFails(c) \/ AutoPause(c) \/ AutoPauseFails(c)
  BY <1>8, <1>18 DEF RecordOutcomeFails, AutoPause, AutoPauseFails
<1> QED
  BY <1>5, <1>6, <1>7, <1>11, <1>12, <1>13, <1>14, <1>15, <1>16, <1>17, <1>18 DEF StepOf

(* Deliveries keep their one holder. *)
LEMMA StepDelivery == Types /\ DeliveryInv /\ [Next]_vars => DeliveryInv'
<1> SUFFICES ASSUME Types, DeliveryInv, [Next]_vars, NEW p \in Plugins, NEW e \in Events
             PROVE  /\ ran'[p][e] <= 1
                    /\ ran'[p][e] # 0 => <<p, e>> \in dedupe'
                    /\ \A c \in Calls : Pending(c, p, e)' => <<p, e>> \in dedupe' /\ ran'[p][e] = 0
                    /\ \A c, d \in Calls : Pending(c, p, e)' /\ Pending(d, p, e)' => c = d
  BY DEF DeliveryInv, Pending
<1> DEFINE Goal == /\ ran'[p][e] <= 1
                   /\ ran'[p][e] # 0 => <<p, e>> \in dedupe'
                   /\ \A c \in Calls : Pending(c, p, e)' => <<p, e>> \in dedupe' /\ ran'[p][e] = 0
                   /\ \A c, d \in Calls : Pending(c, p, e)' /\ Pending(d, p, e)' => c = d
<1>0. /\ call \in [Calls -> CallType]
      /\ ran \in [Plugins -> [Keys -> Nat]]
      /\ ran[p][e] \in Nat
  BY TypesByCall DEF Keys
<1>1. /\ ran[p][e] <= 1
      /\ ran[p][e] # 0 => <<p, e>> \in dedupe
      /\ \A c \in Calls : Pending(c, p, e) => <<p, e>> \in dedupe /\ ran[p][e] = 0
      /\ \A c, d \in Calls : Pending(c, p, e) /\ Pending(d, p, e) => c = d
  BY DEF DeliveryInv
<1>2. ASSUME ran' = ran, dedupe \subseteq dedupe',
             \A c \in Calls : Pending(c, p, e)' => Pending(c, p, e)
      PROVE  Goal
  BY <1>1, <1>2
<1>3. ASSUME NEW c \in Calls, StepOf(c) PROVE Goal
  <2>0. \A d \in Calls \ {c} : Pending(d, p, e)' <=> Pending(d, p, e)
    BY <1>3, StepCall DEF Pending
  <2>1. ASSUME NEW q \in Plugins, ClaimDedupe(c, q) PROVE Goal
    <3>1. call'[c].plugin = q /\ call'[c].event = call[c].event
      BY <1>0, <2>1 DEF ClaimDedupe, CallType
    <3>2. CASE q = p /\ call[c].event = e
      <4>1. <<p, e>> \notin dedupe /\ <<p, e>> \in dedupe' /\ ran' = ran
        BY <2>1, <3>2 DEF ClaimDedupe, history
      <4>2. ran[p][e] = 0 /\ \A d \in Calls : ~Pending(d, p, e)
        BY <1>1, <4>1
      <4> QED BY <2>0, <4>1, <4>2
    <3>3. CASE ~(q = p /\ call[c].event = e)
      <4>1. ~Pending(c, p, e)'
        BY <3>1, <3>3 DEF Pending
      <4>2. ran' = ran /\ dedupe \subseteq dedupe'
        BY <2>1 DEF ClaimDedupe, history
      <4> QED BY <1>2, <2>0, <4>1, <4>2
    <3> QED BY <3>2, <3>3
  <2>2. CASE Execute(c)
    <3>0. call'[c].pc = "leaving"
      BY <1>0, <2>2 DEF Execute, Leaving, CallType
    <3>1. ~Pending(c, p, e)' /\ dedupe' = dedupe
      BY <2>2, <3>0 DEF Execute, Pending, tables
    <3>2. CASE call[c].plugin = p /\ call[c].event = e
      <4>1. Pending(c, p, e)
        BY <2>2, <3>2 DEF Execute, Pending
      <4>2. ran[p][e] = 0 /\ <<p, e>> \in dedupe /\ \A d \in Calls \ {c} : ~Pending(d, p, e)
        BY <1>1, <4>1
      <4>3. e \in Keys /\ ran[p] \in [Keys -> Nat]
        BY <1>0 DEF Keys
      <4>4. ran'[p][e] = 1
        BY <1>0, <2>2, <3>2, <4>2, <4>3 DEF Execute
      <4> QED BY <2>0, <3>1, <4>2, <4>4
    <3>3. CASE ~(call[c].plugin = p /\ call[c].event = e)
      <4>1. ran'[p][e] = ran[p][e]
        BY <1>0, <2>2, <3>3 DEF Execute
      <4> QED BY <1>1, <2>0, <3>1, <4>1
    <3> QED BY <3>2, <3>3
  <2>3. CASE ~Execute(c) /\ \A q \in Plugins : ~ClaimDedupe(c, q)
    <3>1. /\ ran' = ran
          /\ dedupe \subseteq dedupe'
          /\ Pending(c, p, e)' => Pending(c, p, e)
      BY <1>3, <2>3, StepPending
    <3> QED BY <1>2, <2>0, <3>1
  <2> QED BY <2>1, <2>2, <2>3
<1>4. ASSUME NEW h \in Procs, Restart(h) PROVE Goal
  <2>1. ran' = ran /\ dedupe' = dedupe
    BY <1>4 DEF Restart, tables
  <2>2. \A c \in Calls : Pending(c, p, e)' => Pending(c, p, e)
    BY <1>4 DEF Restart, Pending, Idle
  <2> QED BY <1>2, <2>1, <2>2
<1>5. CASE (\E q \in Plugins, status \in {"active", "suspended"} : SetStatus(q, status))
           \/ UNCHANGED vars
  <2>1. UNCHANGED <<call, ran, dedupe>>
    BY <1>5 DEF SetStatus, vars
  <2> QED BY <1>1, <2>1 DEF Pending
<1> QED BY <1>3, <1>4, <1>5, NextByCall

(* However often and wherever an event is emitted, and whatever fails, a
   plugin's code runs at most once for it. *)
THEOREM EventsRunOnce == Spec => []OncePerEvent
<1>1. Init => DeliveryInv
  <2>1. None \notin Events
    BY PluginAssumption
  <2> QED BY <2>1 DEF Init, DeliveryInv, Pending, Idle, Keys
<1>2. DeliveryInv => OncePerEvent
  BY DEF DeliveryInv, OncePerEvent
<1> QED BY <1>1, <1>2, TypesInit, StepTypes, StepDelivery, PTL DEF Spec

-----------------------------------------------------------------------------
(* The quota.                                                              *)

\* Calls whose run has its row and is not over, and those the quota let pass.
Rowed  == {c \in Calls : call[c].pc \in {"inserted", "quota", "loading", "executing"}}
Passed == {c \in Calls : call[c].pc \in {"loading", "executing"}}

\* Each run that executed or may still has a row, so that the last one the quota
\* let pass counted the rows of all.
QuotaInv ==
    /\ executed + Cardinality(Rowed) <= rows
    /\ executed + Cardinality(Passed) <= RunLimit

(* Both sets are finite and their sizes are numbers. *)
LEMMA RowedFinite ==
  /\ IsFiniteSet(Rowed) /\ IsFiniteSet(Passed)
  /\ Cardinality(Rowed) \in Nat /\ Cardinality(Passed) \in Nat
<1>1. IsFiniteSet(Calls) /\ Rowed \subseteq Calls /\ Passed \subseteq Calls
  BY PluginAssumption DEF Rowed, Passed
<1>2. IsFiniteSet(Rowed) /\ IsFiniteSet(Passed)
  BY <1>1, FS_Subset
<1> QED BY <1>2, FS_CardinalityType

(* Steps that make no row, let no run pass and execute none. *)
LEMMA StepRowed ==
  ASSUME Types, NEW c \in Calls, StepOf(c), ~CreateRunRow(c), ~CheckQuota(c), ~Execute(c)
  PROVE  /\ executed' = executed
         /\ rows' \in {rows, rows + 1}
         /\ c \in Rowed' => c \in Rowed
         /\ c \in Passed' => c \in Passed
<1>0. call \in [Calls -> CallType] /\ call[c] \in CallType
  BY TypesByCall
<1>1. executed' = executed /\ rows' \in {rows, rows + 1}
  BY DEF StepOf, RunByHand, ClaimDedupe, SkipDuplicate, ClaimFails, Emit, EndDispatch, CheckCap,
         Refuse, CreateRunRowFails, TakeSlot, LoadPlugin, RunnerFails, LeaveSlot, RecordOutcome,
         RecordOutcomeFails, AutoPause, AutoPauseFails, tables, history
<1> DEFINE Other == call'[c].pc \notin {"inserted", "quota", "loading", "executing"}
<1>2. Other => c \notin Rowed' /\ c \notin Passed'
  BY DEF Rowed, Passed
<1>3. ASSUME NEW pc, Goto(c, pc) PROVE call'[c].pc = pc
  BY <1>0, <1>3 DEF Goto, CallType
<1>4. ASSUME NEW status, Return(c, status) \/ Leaving(c, status) PROVE Other
  <2>1. CASE Return(c, status)
    BY <1>0, <2>1 DEF Return, Idle, CallType
  <2>2. CASE Leaving(c, status)
    BY <1>0, <2>2 DEF Leaving, CallType
  <2> QED BY <1>4, <2>1, <2>2
<1>5. ASSUME NextListener(c) PROVE Other
  BY <1>0, <1>5 DEF NextListener, CallType
<1>6. ASSUME NEW p \in Plugins,
             RunByHand(c, p) \/ ClaimDedupe(c, p) \/ SkipDuplicate(c, p) \/ ClaimFails(c, p)
      PROVE  Other
  <2>1. CASE RunByHand(c, p)
    BY <1>0, <2>1 DEF RunByHand, Idle
  <2>2. CASE ClaimDedupe(c, p)
    BY <1>0, <2>2 DEF ClaimDedupe, CallType
  <2>3. CASE SkipDuplicate(c, p) \/ ClaimFails(c, p)
    BY <1>0, <2>3 DEF SkipDuplicate, ClaimFails, CallType
  <2> QED BY <1>6, <2>1, <2>2, <2>3
<1>7. ASSUME NEW e \in Events, Emit(c, e) PROVE Other
  BY <1>0, <1>7 DEF Emit, Idle
<1>8. CASE EndDispatch(c)
  BY <1>0, <1>2, <1>1, <1>8 DEF EndDispatch, Idle
<1>9. CASE CheckCap(c)
  <2>1. CASE inFlight[Host[c]] >= Cap
    BY <1>1, <1>2, <1>3, <1>9, <2>1 DEF CheckCap
  <2>2. CASE ~(inFlight[Host[c]] >= Cap)
    <3>1. call'[c].pc = "admitted"
      BY <1>0, <1>9, <2>2 DEF CheckCap, CallType
    <3> QED BY <1>1, <1>2, <3>1
  <2> QED BY <2>1, <2>2
<1>10. CASE Refuse(c) \/ LeaveSlot(c) \/ RunnerFails(c)
  BY <1>1, <1>2, <1>4, <1>10 DEF Refuse, LeaveSlot, RunnerFails
<1>11. CASE CreateRunRowFails(c)
  <2>1. call' = [call EXCEPT ![c] = Idle] => Other
    BY <1>0 DEF Idle
  <2>2. Other
    BY <1>4, <1>5, <1>11, <2>1 DEF CreateRunRowFails
  <2> QED BY <1>1, <1>2, <2>2
<1>12. CASE TakeSlot(c)
  <2>1. call'[c].pc = "quota" /\ call[c].pc = "inserted"
    BY <1>3, <1>12 DEF TakeSlot
  <2> QED BY <1>1, <2>1 DEF Rowed, Passed
<1>13. CASE LoadPlugin(c)
  BY <1>1, <1>13 DEF LoadPlugin, Rowed, Passed
<1>14. CASE RecordOutcome(c)
  BY <1>1, <1>2, <1>3, <1>5, <1>14 DEF RecordOutcome
<1>15. CASE RecordOutcomeFails(c) \/ AutoPause(c) \/ AutoPauseFails(c)
  BY <1>1, <1>2, <1>5, <1>15 DEF RecordOutcomeFails, AutoPause, AutoPauseFails
<1> QED
  BY <1>1, <1>2, <1>6, <1>7, <1>8, <1>9, <1>10, <1>11, <1>12, <1>13, <1>14, <1>15 DEF StepOf

(* Every step keeps the runs within their rows and the quota. *)
LEMMA StepQuota == Types /\ QuotaInv /\ [Next]_vars => QuotaInv'
<1> SUFFICES ASSUME Types, QuotaInv, [Next]_vars PROVE QuotaInv'
  OBVIOUS
<1>0. call \in [Calls -> CallType] /\ rows \in Nat /\ executed \in Nat /\ RunLimit \in Nat
  BY TypesByCall, PluginAssumption
<1>n. /\ IsFiniteSet(Rowed) /\ IsFiniteSet(Passed)
      /\ Cardinality(Rowed) \in Nat /\ Cardinality(Passed) \in Nat
  BY RowedFinite
<1>s. executed' \in Nat /\ rows' \in Nat
  BY StepTypes, TypesByCall DEF Types, TypeOK
<1>1. ASSUME Rowed' \subseteq Rowed, Passed' \subseteq Passed, executed' = executed,
             rows' \in {rows, rows + 1}
      PROVE  QuotaInv'
  <2>1. /\ Cardinality(Rowed') \in Nat /\ Cardinality(Rowed') <= Cardinality(Rowed)
        /\ Cardinality(Passed') \in Nat /\ Cardinality(Passed') <= Cardinality(Passed)
    BY <1>n, <1>1, FS_Subset, FS_CardinalityType
  <2>2. /\ executed + Cardinality(Rowed') <= rows + 1
        /\ executed + Cardinality(Rowed') <= rows
        /\ executed + Cardinality(Passed') <= RunLimit
    BY <1>0, <1>n, <2>1 DEF QuotaInv
  <2> QED BY <1>1, <2>2 DEF QuotaInv
<1>2. ASSUME NEW c \in Calls, StepOf(c) PROVE QuotaInv'
  <2>0. /\ \A d \in Calls \ {c} : d \in Rowed' <=> d \in Rowed
        /\ \A d \in Calls \ {c} : d \in Passed' <=> d \in Passed
        /\ Rowed' \subseteq Calls /\ Passed' \subseteq Calls
        /\ Rowed \subseteq Calls /\ Passed \subseteq Calls
    BY <1>2, StepCall DEF Rowed, Passed
  <2>1. CASE CreateRunRow(c)
    <3>1. call'[c].pc = "inserted" /\ call[c].pc = "admitted"
      BY <1>0, <2>1 DEF CreateRunRow, Goto, CallType
    <3>2. c \notin Rowed /\ Rowed' = Rowed \union {c} /\ Passed' = Passed
      BY <2>0, <3>1 DEF Rowed, Passed
    <3>3. Cardinality(Rowed') = Cardinality(Rowed) + 1
      BY <1>n, <3>2, FS_AddElement
    <3>4. rows' = rows + 1 /\ executed' = executed
      BY <2>1 DEF CreateRunRow, history
    <3> QED BY <1>0, <1>n, <3>2, <3>3, <3>4 DEF QuotaInv
  <2>2. CASE CheckQuota(c)
    <3>1. rows' = rows /\ executed' = executed /\ call[c].pc = "quota"
      BY <2>2 DEF CheckQuota, tables, history
    <3>2. CASE rows >= RunLimit
      <4>1. call'[c].pc = "leaving"
        BY <1>0, <2>2, <3>2 DEF CheckQuota, Leaving, CallType
      <4> QED BY <1>1, <2>0, <3>1, <4>1 DEF Rowed, Passed
    <3>3. CASE rows < RunLimit
      <4>1. call'[c].pc = "loading"
        BY <1>0, <2>2, <3>3 DEF CheckQuota, Goto, CallType
      <4>2. Rowed' = Rowed /\ Passed' \subseteq Rowed
        BY <2>0, <3>1, <4>1 DEF Rowed, Passed
      <4>3. Cardinality(Passed') \in Nat /\ Cardinality(Passed') <= Cardinality(Rowed)
        BY <1>n, <4>2, FS_Subset, FS_CardinalityType
      <4> QED BY <1>0, <1>n, <3>1, <3>3, <4>2, <4>3 DEF QuotaInv
    <3> QED BY <1>0, <3>2, <3>3
  <2>3. CASE Execute(c)
    <3>0. call[c].pc = "executing"
      BY <2>3 DEF Execute
    <3>a. ASSUME NEW status, Leaving(c, status) PROVE call'[c].pc = "leaving"
      BY <1>0, <3>a DEF Leaving, CallType
    <3>1. call'[c].pc = "leaving"
      BY <2>3, <3>a DEF Execute
    <3>2. c \in Rowed /\ c \in Passed /\ Rowed' = Rowed \ {c} /\ Passed' = Passed \ {c}
      BY <2>0, <3>0, <3>1 DEF Rowed, Passed
    <3>3. /\ Cardinality(Rowed') = Cardinality(Rowed) - 1
          /\ Cardinality(Passed') = Cardinality(Passed) - 1
      BY <1>n, <3>2, FS_RemoveElement
    <3>4. rows' = rows /\ executed' = executed + 1
      BY <2>3 DEF Execute, tables
    <3> QED BY <1>0, <1>n, <3>3, <3>4 DEF QuotaInv
  <2>4. CASE ~CreateRunRow(c) /\ ~CheckQuota(c) /\ ~Execute(c)
    <3>1. /\ executed' = executed
          /\ rows' \in {rows, rows + 1}
          /\ c \in Rowed' => c \in Rowed
          /\ c \in Passed' => c \in Passed
      BY <1>2, <2>4, StepRowed
    <3> QED BY <1>1, <2>0, <3>1
  <2> QED BY <2>1, <2>2, <2>3, <2>4
<1>3. ASSUME NEW h \in Procs, Restart(h) PROVE QuotaInv'
  <2>1. Rowed' \subseteq Rowed /\ Passed' \subseteq Passed
    BY <1>3 DEF Restart, Rowed, Passed, Idle
  <2>2. rows' = rows /\ executed' = executed
    BY <1>3 DEF Restart, tables
  <2> QED BY <1>1, <2>1, <2>2
<1>4. CASE (\E p \in Plugins, status \in {"active", "suspended"} : SetStatus(p, status))
           \/ UNCHANGED vars
  <2>1. UNCHANGED <<call, rows, executed>>
    BY <1>4 DEF SetStatus, vars
  <2> QED BY <2>1 DEF QuotaInv, Rowed, Passed
<1> QED BY <1>2, <1>3, <1>4, NextByCall

(* No more runs than the month's quota get to execute, although each is counted
   and admitted in statements of its own. *)
THEOREM QuotaIsKept == Spec => []QuotaHolds
<1>1. Init => QuotaInv
  <2>1. RunLimit \in Nat
    BY PluginAssumption
  <2>2. ASSUME Init PROVE Rowed = {} /\ Passed = {}
    BY <2>2 DEF Init, Rowed, Passed, Idle
  <2> QED BY <2>1, <2>2, FS_EmptySet DEF Init, QuotaInv
<1>2. Types /\ QuotaInv => QuotaHolds
  BY RowedFinite, PluginAssumption DEF QuotaInv, QuotaHolds, Types, TypeOK
<1> QED BY <1>1, <1>2, TypesInit, StepTypes, StepQuota, PTL DEF Spec

-----------------------------------------------------------------------------
(* The streak.                                                             *)

\* Plugin p is due for its pause, and call c is about to carry it out.
Overdue(p) == p \notin pardoned /\ plugin[p].status = "active" /\ plugin[p].streak >= Threshold
Pauses(c, p) == call[c].pc = "pausing" /\ call[c].plugin = p

(* A call that records no outcome and is not about to pause changes no streak. *)
LEMMA OthersKeepStreaks ==
  ASSUME Types, NEW c \in Calls, StepOf(c), ~RecordOutcome(c), ~RecordOutcomeFails(c),
         ~AutoPause(c), ~AutoPauseFails(c)
  PROVE  UNCHANGED <<plugin, pardoned>> /\ call[c].pc # "pausing"
  BY DEF StepOf, RunByHand, ClaimDedupe, SkipDuplicate, ClaimFails, Emit, EndDispatch, CheckCap,
         Refuse, CreateRunRow, CreateRunRowFails, TakeSlot, CheckQuota, LoadPlugin, Execute,
         RunnerFails, LeaveSlot, tables, history

(* A plugin at its threshold keeps the call that is about to pause it. *)
LEMMA StepStreak == Types /\ StreakPauses /\ [Next]_vars => StreakPauses'
<1> SUFFICES ASSUME Types, StreakPauses, [Next]_vars, NEW p \in Plugins, Overdue(p)'
             PROVE  \E c \in Calls : Pauses(c, p)'
  BY DEF StreakPauses, Overdue, Pauses
<1>0. /\ call \in [Calls -> CallType]
      /\ plugin \in [Plugins -> PluginType]
      /\ Overdue(p) => \E c \in Calls : Pauses(c, p)
      /\ Threshold \in Nat \ {0}
  BY TypesByCall, PluginAssumption DEF StreakPauses, Overdue, Pauses
<1>1. ASSUME NEW c \in Calls, StepOf(c) PROVE \E d \in Calls : Pauses(d, p)'
  <2>0. \A d \in Calls \ {c} : Pauses(d, p) => Pauses(d, p)'
    BY <1>1, StepCall DEF Pauses
  <2>1. ASSUME Overdue(p), ~Pauses(c, p) PROVE \E d \in Calls : Pauses(d, p)'
    BY <1>0, <2>0, <2>1
  <2>2. CASE RecordOutcome(c)
    <3> DEFINE q == call[c].plugin
    <3>1. q \in Plugins /\ ~Pauses(c, p) /\ call[c].pc = "outcome"
      BY <2>2 DEF RecordOutcome, Types, CallInv, OnePlugin, Pauses
    <3>2. CASE p # q
      <4>1. plugin'[p] = plugin[p] /\ (p \in pardoned => p \in pardoned')
        BY <1>0, <2>2, <3>2 DEF RecordOutcome
      <4> QED BY <2>1, <3>1, <4>1 DEF Overdue
    <3>3. CASE p = q
      <4>1. CASE call[c].status = "success"
        <5>0. plugin' = [plugin EXCEPT ![p].streak = 0]
          <6>1. Failure # "success"
            BY DEF Failure
          <6> QED BY <2>2, <3>3, <4>1, <6>1, Zenon DEF RecordOutcome
        <5>1. plugin'[p].streak = 0
          BY <1>0, <5>0 DEF PluginType
        <5> QED BY <1>0, <5>1 DEF Overdue
      <4>2. CASE call[c].status = Failure
        <5>0. /\ plugin' = [plugin EXCEPT ![p].streak = Streak(p)]
              /\ IF Streak(p) >= Threshold THEN Goto(c, "pausing") ELSE NextListener(c)
          <6>1. Failure # "success"
            BY DEF Failure
          <6> QED BY <2>2, <3>3, <4>2, <6>1, Zenon DEF RecordOutcome
        <5>1. plugin'[p].streak = Streak(p)
          BY <1>0, <5>0 DEF PluginType
        <5>2. Goto(c, "pausing")
          BY <5>0, <5>1 DEF Overdue
        <5>3. Pauses(c, p)'
          BY <1>0, <3>3, <5>2 DEF Goto, Pauses, CallType
        <5> QED BY <5>3
      <4>3. CASE call[c].status # "success" /\ call[c].status # Failure
        <5>1. UNCHANGED <<plugin, pardoned>>
          BY <2>2, <4>3 DEF RecordOutcome
        <5> QED BY <2>1, <3>1, <5>1 DEF Overdue
      <4> QED BY <4>1, <4>2, <4>3
    <3> QED BY <3>2, <3>3
  <2>3. CASE RecordOutcomeFails(c)
    <3> DEFINE q == call[c].plugin
    <3>1. q \in Plugins /\ ~Pauses(c, p)
      BY <2>3 DEF RecordOutcomeFails, Types, CallInv, OnePlugin, Pauses
    <3>2. plugin'[p] = plugin[p] /\ (p \in pardoned => p \in pardoned')
      BY <1>0, <2>3, <3>1 DEF RecordOutcomeFails, Overdue
    <3> QED BY <2>1, <3>1, <3>2 DEF Overdue
  <2>4. CASE AutoPause(c)
    <3> DEFINE q == call[c].plugin
    <3>1. q \in Plugins
      BY <2>4 DEF AutoPause, Types, CallInv, OnePlugin
    <3>2. p # q
      BY <1>0, <2>4, <3>1 DEF AutoPause, Overdue, PluginType
    <3>3. Overdue(p) /\ ~Pauses(c, p)
      BY <1>0, <2>4, <3>2 DEF AutoPause, Overdue, Pauses, history
    <3> QED BY <2>1, <3>3
  <2>5. CASE AutoPauseFails(c)
    <3>1. Overdue(p) /\ p # call[c].plugin
      BY <2>5 DEF AutoPauseFails, Overdue, tables
    <3> QED BY <2>1, <3>1 DEF Pauses
  <2>6. CASE ~RecordOutcome(c) /\ ~RecordOutcomeFails(c) /\ ~AutoPause(c) /\ ~AutoPauseFails(c)
    <3>1. UNCHANGED <<plugin, pardoned>> /\ call[c].pc # "pausing"
      BY <1>1, <2>6, OthersKeepStreaks
    <3> QED BY <2>1, <3>1 DEF Overdue, Pauses
  <2> QED BY <2>2, <2>3, <2>4, <2>5, <2>6
<1>2. ASSUME NEW r \in Plugins, NEW status \in {"active", "suspended"}, SetStatus(r, status)
      PROVE  \E d \in Calls : Pauses(d, p)'
  <2>1. call' = call /\ pardoned' = pardoned \union {r} /\ p # r
    BY <1>2 DEF SetStatus, Overdue
  <2>2. Overdue(p)
    BY <1>0, <1>2, <2>1 DEF SetStatus, Overdue
  <2> QED BY <1>0, <2>1, <2>2 DEF Pauses
<1>3. ASSUME NEW h \in Procs, Restart(h) PROVE \E d \in Calls : Pauses(d, p)'
  <2>1. Overdue(p)
    BY <1>3 DEF Restart, Overdue, tables
  <2>2. PICK d \in Calls : Pauses(d, p)
    BY <1>0, <2>1
  <2>3. Host[d] # h
    BY <1>3, <2>2 DEF Restart, Overdue, Pauses
  <2>4. Pauses(d, p)'
    BY <1>3, <2>2, <2>3 DEF Restart, Pauses
  <2> QED BY <2>4
<1>4. CASE UNCHANGED vars
  BY <1>0, <1>4 DEF vars, Overdue, Pauses
<1> QED BY <1>1, <1>2, <1>3, <1>4, NextByCall

(* A plugin whose streak reached the threshold is about to be paused, however
   many of its runs fail at once. *)
THEOREM StreaksPause == Spec => []StreakPauses
<1>1. Init => StreakPauses
  BY PluginAssumption DEF Init, StreakPauses
<1> QED BY <1>1, TypesInit, StepTypes, StepStreak, PTL DEF Spec

-----------------------------------------------------------------------------
(* The plugins that are paused.                                            *)

\* Calls whose run of p failed and is not yet counted in the streak of p.
Faulted(p) == {c \in Calls : /\ call[c].pc \in {"leaving", "outcome"}
                             /\ call[c].plugin = p /\ call[c].status = Failure}

\* What a plugin's pause can be put down to: failures of its own code, and
\* errors that were not its own.
Blame(p) == broken[p] + faults

\* Every failure in a streak, and every one about to enter it, has its blame.
FaultInv ==
    \A p \in Plugins :
        /\ plugin[p].streak + Cardinality(Faulted(p)) <= Blame(p)
        /\ plugin[p].status = "errored" => Blame(p) >= Threshold
        /\ \A c \in Calls : Pauses(c, p) => Blame(p) >= Threshold

(* A call that neither fails nor records an outcome nor pauses adds nothing. *)
LEMMA QuietFaults ==
  ASSUME Types, NEW c \in Calls, StepOf(c), ~Execute(c), ~RunnerFails(c), ~RecordOutcome(c),
         ~RecordOutcomeFails(c), ~AutoPause(c), NEW p \in Plugins
  PROVE  /\ UNCHANGED <<plugin, broken>>
         /\ c \in Faulted(p)' => c \in Faulted(p)
         /\ ~Pauses(c, p)'
<1>0. call \in [Calls -> CallType] /\ call[c] \in CallType
  BY TypesByCall
<1> DEFINE Other == call'[c].pc \notin {"leaving", "outcome", "pausing"}
           Harmless == call'[c].pc # "pausing" /\ call'[c].status # Failure
<1>1. UNCHANGED <<plugin, broken>>
  BY DEF StepOf, RunByHand, ClaimDedupe, SkipDuplicate, ClaimFails, Emit, EndDispatch, CheckCap,
         Refuse, CreateRunRow, CreateRunRowFails, TakeSlot, CheckQuota, LoadPlugin, LeaveSlot,
         AutoPauseFails, tables, history
<1>2. Other \/ Harmless => c \notin Faulted(p)' /\ ~Pauses(c, p)'
  BY DEF Faulted, Pauses
<1>3. ASSUME NEW pc \in {"refused", "admitted", "inserted", "quota", "loading", "executing"},
             Goto(c, pc)
      PROVE  Other
  BY <1>0, <1>3 DEF Goto, CallType
<1>4. ASSUME NEW status, status # Failure, Return(c, status) \/ Leaving(c, status)
      PROVE  Harmless
  <2>1. CASE Return(c, status)
    BY <1>0, <1>4, <2>1 DEF Return, Idle, CallType, Failure
  <2>2. CASE Leaving(c, status)
    BY <1>0, <1>4, <2>2 DEF Leaving, CallType
  <2> QED BY <1>4, <2>1, <2>2
<1>5. ASSUME NextListener(c) PROVE Other
  BY <1>0, <1>5 DEF NextListener, CallType
<1>6. ASSUME NEW q \in Plugins,
             RunByHand(c, q) \/ ClaimDedupe(c, q) \/ SkipDuplicate(c, q) \/ ClaimFails(c, q)
      PROVE  Other
  <2>1. CASE RunByHand(c, q)
    BY <1>0, <2>1 DEF RunByHand, Idle
  <2>2. CASE ClaimDedupe(c, q)
    BY <1>0, <2>2 DEF ClaimDedupe, CallType
  <2>3. CASE SkipDuplicate(c, q) \/ ClaimFails(c, q)
    BY <1>0, <2>3 DEF SkipDuplicate, ClaimFails, CallType
  <2> QED BY <1>6, <2>1, <2>2, <2>3
<1>7. ASSUME NEW e \in Events, Emit(c, e) PROVE Other
  BY <1>0, <1>7 DEF Emit, Idle
<1>8. CASE EndDispatch(c)
  BY <1>0, <1>1, <1>2, <1>8 DEF EndDispatch, Idle
<1>9. CASE CheckCap(c)
  <2>1. Other
    BY <1>0, <1>3, <1>9 DEF CheckCap, CallType
  <2> QED BY <1>1, <1>2, <2>1
<1>10. CASE Refuse(c)
  BY <1>1, <1>2, <1>4, <1>10 DEF Refuse, Failure
<1>11. CASE CreateRunRow(c) \/ TakeSlot(c)
  BY <1>1, <1>2, <1>3, <1>11 DEF CreateRunRow, TakeSlot
<1>12. CASE CreateRunRowFails(c)
  <2>1. call' = [call EXCEPT ![c] = Idle] => Other
    BY <1>0 DEF Idle
  <2>2. Other \/ Harmless
    BY <1>4, <1>5, <1>12, <2>1 DEF CreateRunRowFails, Failure
  <2> QED BY <1>1, <1>2, <2>2
<1>13. CASE CheckQuota(c) \/ LoadPlugin(c)
  <2>1. Other \/ Harmless
    BY <1>3, <1>4, <1>13 DEF CheckQuota, LoadPlugin, Failure
  <2> QED BY <1>1, <1>2, <2>1
<1>14. CASE LeaveSlot(c)
  <2>1. call'[c] = Idle \/ call'[c] = [call[c] EXCEPT !.pc = "outcome", !.status = call[c].status,
                                                      !.read = 0]
    BY <1>0, <1>14 DEF LeaveSlot, Return
  <2>2. CASE call'[c] = Idle
    BY <1>1, <2>2 DEF Idle, Faulted, Pauses
  <2>3. CASE call'[c] = [call[c] EXCEPT !.pc = "outcome", !.status = call[c].status, !.read = 0]
    <3>1. call'[c].pc = "outcome" /\ call'[c].plugin = call[c].plugin
          /\ call'[c].status = call[c].status
      BY <1>0, <2>3 DEF CallType
    <3> QED BY <1>1, <1>14, <3>1 DEF LeaveSlot, Faulted, Pauses
  <2> QED BY <2>1, <2>2, <2>3
<1>15. CASE AutoPauseFails(c)
  BY <1>1, <1>2, <1>5, <1>15 DEF AutoPauseFails
<1> QED
  BY <1>1, <1>2, <1>6, <1>7, <1>8, <1>9, <1>10, <1>11, <1>12, <1>13, <1>14, <1>15 DEF StepOf

(* How many calls are in Faulted after a step of one of them. *)
LEMMA FaultedCount ==
  ASSUME NEW c \in Calls, NEW p, \A d \in Calls \ {c} : call'[d] = call[d]
  PROVE  /\ Cardinality(Faulted(p)) \in Nat /\ Cardinality(Faulted(p)') \in Nat
         /\ Cardinality(Faulted(p)') <= Cardinality(Faulted(p)) + 1
         /\ (c \in Faulted(p)' => c \in Faulted(p))
               => Cardinality(Faulted(p)') <= Cardinality(Faulted(p))
         /\ c \notin Faulted(p)' /\ c \in Faulted(p)
               => Cardinality(Faulted(p)') + 1 <= Cardinality(Faulted(p))
<1> DEFINE F == Faulted(p)
           G == Faulted(p)'
<1>1. IsFiniteSet(Calls) /\ F \subseteq Calls /\ G \subseteq Calls
  BY PluginAssumption DEF Faulted
<1>2. \A d \in Calls \ {c} : d \in G <=> d \in F
  BY DEF Faulted
<1> HIDE DEF F, G
<1>3. IsFiniteSet(F) /\ IsFiniteSet(G) /\ IsFiniteSet(F \union {c}) /\ IsFiniteSet(G \union {c})
  BY <1>1, FS_Subset, FS_AddElement
<1>4. Cardinality(F) \in Nat /\ Cardinality(G) \in Nat
  BY <1>3, FS_CardinalityType
<1>5. Cardinality(G) <= Cardinality(F) + 1
  <2>1. G \subseteq F \union {c}
    BY <1>1, <1>2
  <2>2. Cardinality(G) <= Cardinality(F \union {c})
    BY <1>3, <2>1, FS_Subset
  <2>3. Cardinality(F \union {c}) <= Cardinality(F) + 1
    BY <1>3, <1>4, FS_AddElement
  <2>4. Cardinality(F \union {c}) \in Nat
    BY <1>3, FS_CardinalityType
  <2> QED BY <1>4, <2>2, <2>3, <2>4
<1>6. ASSUME c \in G => c \in F PROVE Cardinality(G) <= Cardinality(F)
  <2>1. G \subseteq F
    BY <1>1, <1>2, <1>6
  <2> QED BY <1>3, <2>1, FS_Subset
<1>7. ASSUME c \notin G, c \in F PROVE Cardinality(G) + 1 <= Cardinality(F)
  <2>1. G \subseteq F /\ G # F
    BY <1>1, <1>2, <1>7
  <2>2. Cardinality(G) <= Cardinality(F) /\ Cardinality(F) # Cardinality(G)
    BY <1>3, <2>1, FS_Subset
  <2> QED BY <1>4, <2>2
<1> QED BY <1>4, <1>5, <1>6, <1>7 DEF F, G

(* No step takes a fault back. *)
LEMMA StepBlame ==
  ASSUME Types, NEW c \in Calls, StepOf(c), NEW p \in Plugins
  PROVE  /\ faults' = faults \/ faults' = faults + 1
         /\ UNCHANGED broken => Blame(p)' >= Blame(p)
         /\ Blame(p)' \in Int
<1>1. faults \in Nat /\ broken[p] \in Nat
  BY TypesByCall
<1>2. faults' = faults \/ faults' = faults + 1
  BY DEF StepOf, RunByHand, Emit, ClaimDedupe, SkipDuplicate, ClaimFails, EndDispatch, CheckCap,
         Refuse, CreateRunRow, CreateRunRowFails, TakeSlot, CheckQuota, LoadPlugin, Execute,
         RunnerFails, LeaveSlot, RecordOutcome, RecordOutcomeFails, AutoPause, AutoPauseFails, Fault
<1>3. broken' \in [Plugins -> Nat]
  BY StepTables DEF TablesOK
<1> QED BY <1>1, <1>2, <1>3 DEF Blame

(* Every step accounts for the failures it adds. *)
LEMMA StepFaults == Types /\ FaultInv /\ [Next]_vars => FaultInv'
<1> SUFFICES ASSUME Types, FaultInv, [Next]_vars, NEW p \in Plugins
             PROVE  /\ plugin'[p].streak + Cardinality(Faulted(p)') <= Blame(p)'
                    /\ plugin'[p].status = "errored" => Blame(p)' >= Threshold
                    /\ \A c \in Calls : Pauses(c, p)' => Blame(p)' >= Threshold
  BY DEF FaultInv
<1>0. /\ call \in [Calls -> CallType]
      /\ plugin \in [Plugins -> PluginType] /\ broken \in [Plugins -> Nat] /\ faults \in Nat
      /\ plugin[p].streak \in Nat /\ Blame(p) \in Nat /\ Threshold \in Nat
      /\ plugin[p].streak + Cardinality(Faulted(p)) <= Blame(p)
      /\ plugin[p].status = "errored" => Blame(p) >= Threshold
      /\ \A c \in Calls : Pauses(c, p) => Blame(p) >= Threshold
  BY TypesByCall, PluginAssumption DEF FaultInv, PluginType, Blame
<1>1. ASSUME NEW c \in Calls, StepOf(c)
      PROVE  /\ plugin'[p].streak + Cardinality(Faulted(p)') <= Blame(p)'
             /\ plugin'[p].status = "errored" => Blame(p)' >= Threshold
             /\ \A d \in Calls : Pauses(d, p)' => Blame(p)' >= Threshold
  <2> DEFINE q == call[c].plugin
             n == Cardinality(Faulted(p))
             m == Cardinality(Faulted(p)')
  <2>1. \A d \in Calls \ {c} : call'[d] = call[d]
    BY <1>1, StepCall
  <2>2. /\ n \in Nat /\ m \in Nat /\ m <= n + 1
        /\ (c \in Faulted(p)' => c \in Faulted(p)) => m <= n
        /\ c \notin Faulted(p)' /\ c \in Faulted(p) => m + 1 <= n
    BY <2>1, FaultedCount
  <2>3. \A d \in Calls \ {c} : Pauses(d, p)' => Pauses(d, p)
    BY <2>1 DEF Pauses
  <2> HIDE DEF n, m
  <2>0. (faults' = faults \/ faults' = faults + 1) /\ (UNCHANGED broken => Blame(p)' >= Blame(p))
        /\ Blame(p)' \in Int
    BY <1>0, <1>1, StepBlame
  <2>4. ASSUME plugin'[p] = plugin[p], ~Pauses(c, p)',
               \/ Blame(p)' >= Blame(p) /\ m <= n
               \/ Blame(p)' >= Blame(p) + 1
        PROVE  /\ plugin'[p].streak + m <= Blame(p)'
               /\ plugin'[p].status = "errored" => Blame(p)' >= Threshold
               /\ \A d \in Calls : Pauses(d, p)' => Blame(p)' >= Threshold
    BY <1>0, <2>0, <2>2, <2>3, <2>4 DEF n
  <2>5. CASE Execute(c) \/ RunnerFails(c)
    <3>1. q \in Plugins /\ UNCHANGED plugin
      BY <2>5 DEF Execute, RunnerFails, Types, CallInv, OnePlugin, tables
    <3>2. PICK st \in Outcomes : Leaving(c, st) /\ (st = Failure =>
             \/ broken' = [broken EXCEPT ![q] = @ + 1]
             \/ UNCHANGED broken /\ faults' = faults + 1)
          /\ (st # Failure => UNCHANGED broken)
      BY <2>5 DEF Execute, RunnerFails, Outcomes, Failure, Fault, history
    <3>3. call'[c].pc = "leaving" /\ call'[c].plugin = q /\ call'[c].status = st
      BY <1>0, <3>2 DEF Leaving, CallType
    <3>4. c \in Faulted(p)' => p = q /\ st = Failure
      BY <3>3 DEF Faulted
    <3>5. Blame(p)' >= Blame(p) + (IF p = q /\ st = Failure THEN 1 ELSE 0)
      BY <1>0, <2>0, <3>1, <3>2 DEF Blame
    <3>6. ~Pauses(c, p)'
      BY <3>3 DEF Pauses
    <3>7. CASE p = q /\ st = Failure
      BY <2>4, <3>1, <3>5, <3>6, <3>7 DEF m
    <3>8. CASE ~(p = q /\ st = Failure)
      <4>1. m <= n /\ Blame(p)' >= Blame(p)
        BY <1>0, <2>0, <2>2, <3>4, <3>5, <3>8 DEF m
      <4> QED BY <2>4, <3>1, <3>6, <4>1 DEF m
    <3> QED BY <3>7, <3>8
  <2>6. CASE RecordOutcome(c) \/ RecordOutcomeFails(c)
    <3>1. q \in Plugins /\ UNCHANGED broken /\ call[c].pc = "outcome"
      BY <2>6 DEF RecordOutcome, RecordOutcomeFails, Types, CallInv, OnePlugin
    <3>2. Goto(c, "pausing") \/ NextListener(c)
      BY <2>6 DEF RecordOutcome, RecordOutcomeFails
    <3>3. call'[c].pc \in {"pausing", "next"} /\ (call'[c].pc = "pausing" => call'[c].plugin = q)
      <4>1. CASE Goto(c, "pausing")
        BY <1>0, <4>1 DEF Goto, CallType
      <4>2. CASE NextListener(c)
        BY <1>0, <4>2 DEF NextListener, CallType
      <4> QED BY <3>2, <4>1, <4>2
    <3>4. c \notin Faulted(p)'
      BY <3>3 DEF Faulted
    <3>5. CASE p # q
      <4>1. plugin'[p] = plugin[p]
        <5>1. \/ plugin' = plugin
              \/ plugin' = [plugin EXCEPT ![q].streak = 0]
              \/ plugin' = [plugin EXCEPT ![q].streak = Streak(q)]
          BY <2>6 DEF RecordOutcome, RecordOutcomeFails
        <5> QED BY <1>0, <3>5, <5>1
      <4>2. ~Pauses(c, p)'
        BY <3>3, <3>5 DEF Pauses
      <4> QED BY <2>0, <2>2, <2>4, <3>1, <3>4, <4>1, <4>2 DEF m
    <3>6. CASE p = q /\ call[c].status = Failure
      <4>1. c \in Faulted(p)
        BY <3>1, <3>6 DEF Faulted
      <4>2. plugin' = plugin \/ plugin' = [plugin EXCEPT ![p].streak = Streak(p)]
        <5>1. Failure # "success"
          BY DEF Failure
        <5>2. CASE RecordOutcome(c)
          BY <3>6, <5>1, <5>2, Zenon DEF RecordOutcome
        <5>3. CASE RecordOutcomeFails(c)
          BY <3>6, <5>3 DEF RecordOutcomeFails
        <5> QED BY <2>6, <5>2, <5>3
      <4>3. plugin'[p].streak <= plugin[p].streak + 1 /\ plugin'[p].streak \in Nat
            /\ plugin'[p].status = plugin[p].status
        BY <1>0, <4>2 DEF Streak, PluginType
      <4>4. plugin'[p].streak + m <= Blame(p)
        BY <1>0, <2>2, <3>4, <4>1, <4>3 DEF n
      <4>5. ASSUME Pauses(c, p)' PROVE Blame(p) >= Threshold
        <5>1. ~NextListener(c)
          <6>1. NextListener(c) => call'[c].pc = "next"
            BY <1>0 DEF NextListener, CallType
          <6> QED BY <4>5, <6>1 DEF Pauses
        <5>2. RecordOutcome(c)
          BY <2>6, <5>1 DEF RecordOutcomeFails
        <5>3. plugin' = [plugin EXCEPT ![p].streak = Streak(p)] /\ Streak(p) >= Threshold
          <6>1. Failure # "success"
            BY DEF Failure
          <6> QED BY <3>6, <5>1, <5>2, <6>1, Zenon DEF RecordOutcome
        <5>4. plugin'[p].streak >= Threshold
          BY <1>0, <5>3 DEF PluginType
        <5> QED BY <1>0, <2>2, <4>3, <4>4, <5>4
      <4> QED BY <1>0, <2>0, <2>2, <2>3, <3>1, <4>3, <4>4, <4>5 DEF m, n
    <3>7. CASE p = q /\ call[c].status # Failure
      <4>1. plugin' = plugin \/ plugin' = [plugin EXCEPT ![p].streak = 0]
        BY <2>6, <3>7 DEF RecordOutcome, RecordOutcomeFails
      <4>2. NextListener(c)
        BY <2>6, <3>7 DEF RecordOutcome, RecordOutcomeFails
      <4>3. ~Pauses(c, p)'
        BY <1>0, <4>2 DEF NextListener, Pauses, CallType
      <4>4. plugin'[p].streak <= plugin[p].streak /\ plugin'[p].streak \in Nat
            /\ plugin'[p].status = plugin[p].status
        BY <1>0, <4>1 DEF PluginType
      <4>5. plugin'[p].streak + m <= Blame(p)
        BY <1>0, <2>2, <3>4, <4>4 DEF n
      <4> QED BY <1>0, <2>0, <2>2, <2>3, <3>1, <4>3, <4>4, <4>5 DEF m, n
    <3> QED BY <3>5, <3>6, <3>7
  <2>7. CASE AutoPause(c)
    <3>1. q \in Plugins /\ UNCHANGED broken /\ Pauses(c, q)
      BY <2>7 DEF AutoPause, Types, CallInv, OnePlugin, Pauses, history
    <3>2. call'[c].pc = "next"
      BY <1>0, <2>7 DEF AutoPause, NextListener, CallType
    <3>3. c \notin Faulted(p)' /\ ~Pauses(c, p)'
      BY <3>2 DEF Faulted, Pauses
    <3>4. plugin'[p].streak = plugin[p].streak /\ (p # q => plugin'[p].status = plugin[p].status)
      BY <1>0, <2>7, <3>1 DEF AutoPause, PluginType
    <3>5. p = q => Blame(p) >= Threshold
      BY <1>0, <3>1
    <3>6. plugin[p].streak + m <= Blame(p)
      BY <1>0, <2>2, <3>3 DEF n
    <3> QED BY <1>0, <2>0, <2>2, <2>3, <3>1, <3>3, <3>4, <3>5, <3>6 DEF m
  <2>8. CASE ~Execute(c) /\ ~RunnerFails(c) /\ ~RecordOutcome(c) /\ ~RecordOutcomeFails(c)
             /\ ~AutoPause(c)
    <3>1. /\ UNCHANGED <<plugin, broken>>
          /\ c \in Faulted(p)' => c \in Faulted(p)
          /\ ~Pauses(c, p)'
      BY <1>1, <2>8, QuietFaults
    <3> QED BY <2>0, <2>2, <2>4, <3>1 DEF m
  <2> QED BY <2>5, <2>6, <2>7, <2>8
<1>2. ASSUME NEW r \in Plugins, NEW status \in {"active", "suspended"}, SetStatus(r, status)
      PROVE  /\ plugin'[p].streak + Cardinality(Faulted(p)') <= Blame(p)'
             /\ plugin'[p].status = "errored" => Blame(p)' >= Threshold
             /\ \A d \in Calls : Pauses(d, p)' => Blame(p)' >= Threshold
  <2>1. UNCHANGED call /\ Blame(p)' = Blame(p) /\ Faulted(p)' = Faulted(p)
        /\ \A d \in Calls : Pauses(d, p)' <=> Pauses(d, p)
    BY <1>2 DEF SetStatus, Faulted, Pauses, Blame
  <2>2. plugin'[p].streak = plugin[p].streak
        /\ (plugin'[p].status = "errored" => plugin[p].status = "errored")
    BY <1>0, <1>2 DEF SetStatus, PluginType
  <2> QED BY <1>0, <2>1, <2>2
<1>3. ASSUME NEW h \in Procs, Restart(h)
      PROVE  /\ plugin'[p].streak + Cardinality(Faulted(p)') <= Blame(p)'
             /\ plugin'[p].status = "errored" => Blame(p)' >= Threshold
             /\ \A d \in Calls : Pauses(d, p)' => Blame(p)' >= Threshold
  <2>1. UNCHANGED plugin /\ Blame(p)' \in Nat /\ Blame(p)' >= Blame(p)
    BY <1>0, <1>3 DEF Restart, tables, Fault, Blame
  <2>2. \A d \in Calls : call'[d] = call[d] \/ call'[d] = Idle
    BY <1>3 DEF Restart
  <2>3. \A d \in Calls : Pauses(d, p)' => Pauses(d, p)
    BY <2>2 DEF Pauses, Idle
  <2>4. Faulted(p)' \subseteq Faulted(p)
    BY <2>2 DEF Faulted, Idle
  <2>5. IsFiniteSet(Faulted(p))
    <3>1. IsFiniteSet(Calls) /\ Faulted(p) \subseteq Calls
      BY PluginAssumption DEF Faulted
    <3> QED BY <3>1, FS_Subset
  <2>6. Cardinality(Faulted(p)') <= Cardinality(Faulted(p))
        /\ Cardinality(Faulted(p)) \in Nat /\ Cardinality(Faulted(p)') \in Nat
    BY <2>4, <2>5, FS_Subset, FS_CardinalityType
  <2>7. plugin[p].streak + Cardinality(Faulted(p)') <= Blame(p)
    BY <1>0, <2>6
  <2>8. plugin'[p].streak + Cardinality(Faulted(p)') <= Blame(p)'
    BY <1>0, <2>1, <2>6, <2>7
  <2>9. Blame(p) >= Threshold => Blame(p)' >= Threshold
    BY <1>0, <2>1
  <2> QED BY <1>0, <2>1, <2>3, <2>8, <2>9
<1>4. CASE UNCHANGED vars
  <2>1. UNCHANGED <<plugin, call>> /\ Blame(p)' = Blame(p) /\ Faulted(p)' = Faulted(p)
        /\ \A d \in Calls : Pauses(d, p)' <=> Pauses(d, p)
    BY <1>4 DEF vars, Faulted, Pauses, Blame
  <2> QED BY <1>0, <2>1
<1> QED BY <1>1, <1>2, <1>3, <1>4, NextByCall

(* However many calls run at once, on how many processes and whatever they are
   refused for, a plugin that the engine paused has failed by its own code as
   often as the threshold says, but for errors of the runner's statements. *)
THEOREM HealthyPluginsStayOn == Spec => []HealthyStaysOn
<1>1. Init => FaultInv
  <2> SUFFICES ASSUME Init, NEW p \in Plugins
               PROVE  /\ plugin[p].streak + Cardinality(Faulted(p)) <= Blame(p)
                      /\ plugin[p].status # "errored"
                      /\ \A c \in Calls : ~Pauses(c, p)
    BY DEF FaultInv
  <2>1. Faulted(p) = {}
    BY DEF Init, Faulted, Idle
  <2>2. plugin[p].streak = 0 /\ plugin[p].status = "active" /\ Blame(p) = 0
    BY DEF Init, Blame
  <2>3. \A c \in Calls : ~Pauses(c, p)
    BY DEF Init, Pauses, Idle
  <2> QED BY <2>1, <2>2, <2>3, FS_EmptySet
<1>2. FaultInv => HealthyStaysOn
  BY DEF FaultInv, HealthyStaysOn, Blame
<1> QED BY <1>1, <1>2, TypesInit, StepTypes, StepFaults, PTL DEF Spec
=============================================================================
