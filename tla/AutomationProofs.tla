-------------------------- MODULE AutomationProofs --------------------------
(***************************************************************************)
(* Proofs about AutomationRules for any number of instances, targets and   *)
(* failures, and any LIMIT.                                                *)
(***************************************************************************)
EXTENDS AutomationProps, FiniteSetTheorems, WellFoundedInduction, TLAPS

USE AutomationAssumption

Pcs == {"idle", "row", "act", "mark", "record"}

\* A set of numbers that is not empty has a least one.
LEMMA LeastExists ==
    ASSUME NEW S \in SUBSET Nat, S # {}
    PROVE  Min(S) \in S /\ \A y \in S : Min(S) <= y
  <1> DEFINE R == OpToRel(<, Nat)
  <1>1. \A m, n \in Nat : m < n => <<m, n>> \in R
    BY DEF OpToRel
  <1>2. IsWellFoundedOn(R, Nat)
    BY NatLessThanWellFounded
  <1> HIDE DEF R
  <1>3. PICK x \in S : \A y \in S : ~(<<y, x>> \in R)
    BY <1>2, WFMin
  <1>4. \A y \in S : x <= y
    <2> SUFFICES ASSUME NEW y \in S PROVE x <= y
      OBVIOUS
    <2>1. x \in Nat /\ y \in Nat
      OBVIOUS
    <2>2. ~(y < x)
      BY <1>1, <1>3, <2>1
    <2> QED BY <2>1, <2>2
  <1> QED BY <1>4 DEF Min

-----------------------------------------------------------------------------
(* Type correctness.                                                       *)

\* The part of TypeOK that is about one pass.
PassOK(r) ==
    /\ pass[r] \in [pc : Pcs, rows : SUBSET Targets]
    /\ pass[r].pc = "idle" <=> pass[r].rows = {}
    /\ Cardinality(pass[r].rows) <= Limit
    /\ pass[r].pc = "act" => kind \in {"issue", "renewal"}
    /\ pass[r].pc = "mark" => kind \in {"invoice", "send"}

\* What is known of the row in hand.
LEMMA RowIsHeld ==
    ASSUME TypeOK, NEW r \in Runners, pass[r].pc # "idle"
    PROVE  Row(r) \in pass[r].rows /\ Row(r) \in Targets
  <1>1. pass[r].rows \in SUBSET Targets /\ pass[r].rows # {}
    BY DEF TypeOK
  <1>2. Targets \subseteq Nat
    BY DEF Targets
  <1> QED BY <1>1, <1>2, LeastExists DEF Row

LEMMA TargetsFinite == IsFiniteSet(Targets) /\ \A S \in SUBSET Targets : IsFiniteSet(S) /\ Cardinality(S) \in Nat
  <1>1. IsFiniteSet(Targets)
    BY FS_Interval DEF Targets
  <1> QED BY <1>1, FS_Subset, FS_CardinalityType

\* One pass changes, and its new state is in order: then all are.
LEMMA PassesKeep ==
    ASSUME TypeOK, NEW r \in Runners, NEW pc \in Pcs, NEW rows \in SUBSET Targets,
           pass' = [pass EXCEPT ![r] = [pc |-> pc, rows |-> rows]], kind' = kind,
           pc = "idle" <=> rows = {}, Cardinality(rows) <= Limit,
           pc = "act" => kind \in {"issue", "renewal"},
           pc = "mark" => kind \in {"invoice", "send"}
    PROVE  /\ pass' \in [Runners -> [pc : Pcs, rows : SUBSET Targets]]
           /\ \A s \in Runners : PassOK(s)'
  <1>1. pass \in [Runners -> [pc : Pcs, rows : SUBSET Targets]] /\ \A s \in Runners : PassOK(s)
    BY DEF TypeOK, PassOK, Pcs
  <1>2. [pc |-> pc, rows |-> rows] \in [pc : Pcs, rows : SUBSET Targets]
    OBVIOUS
  <1>3. pass' \in [Runners -> [pc : Pcs, rows : SUBSET Targets]]
    BY <1>1, <1>2
  <1>4. ASSUME NEW s \in Runners PROVE PassOK(s)'
    <2>1. CASE s = r
      <3>1. pass'[s] = [pc |-> pc, rows |-> rows]
        BY <1>1, <2>1
      <3> QED BY <1>3, <3>1 DEF PassOK
    <2>2. CASE s # r
      <3>1. pass'[s] = pass[s]
        BY <1>1, <2>2
      <3> QED BY <1>1, <3>1 DEF PassOK
    <2> QED BY <2>1, <2>2
  <1> QED BY <1>3, <1>4

PassesOK == pass \in [Runners -> [pc : Pcs, rows : SUBSET Targets]] /\ \A s \in Runners : PassOK(s)

\* The two ways on, and the end of a pass.
LEMMA PassGoesOn ==
    ASSUME TypeOK, NEW r \in Runners, pass[r].pc # "idle", kind' = kind,
           \/ \E pc \in Pcs \ {"idle"} :
                 /\ Goto(r, pc)
                 /\ pc = "act" => kind \in {"issue", "renewal"}
                 /\ pc = "mark" => kind \in {"invoice", "send"}
           \/ NextRow(r)
           \/ pass' = [pass EXCEPT ![r] = IdlePass]
    PROVE  PassesOK'
  <1>1. /\ pass[r].rows \in SUBSET Targets /\ pass[r].rows # {} /\ Cardinality(pass[r].rows) <= Limit
        /\ Limit \in Nat
    BY DEF TypeOK
  <1>2. Cardinality({}) = 0
    BY FS_EmptySet
  <1>3. CASE pass' = [pass EXCEPT ![r] = IdlePass]
    <2>1. pass' = [pass EXCEPT ![r] = [pc |-> "idle", rows |-> {}]]
      BY <1>3 DEF IdlePass
    <2>2. "idle" \in Pcs /\ {} \in SUBSET Targets /\ Cardinality({}) <= Limit
      BY <1>1, <1>2 DEF Pcs
    <2> QED BY <2>1, <2>2, PassesKeep DEF PassesOK
  <1>4. ASSUME NEW pc \in Pcs \ {"idle"}, Goto(r, pc),
               pc = "act" => kind \in {"issue", "renewal"}, pc = "mark" => kind \in {"invoice", "send"}
        PROVE  PassesOK'
    BY <1>1, <1>4, PassesKeep DEF Goto, PassesOK
  <1>5. CASE NextRow(r)
    <2> DEFINE rest == pass[r].rows \ {Row(r)}
    <2>1. rest \in SUBSET Targets /\ Cardinality(rest) <= Limit
      <3>1. IsFiniteSet(pass[r].rows) /\ rest \in SUBSET pass[r].rows
        BY <1>1, TargetsFinite
      <3>2. Cardinality(rest) <= Cardinality(pass[r].rows)
        BY <3>1, FS_Subset
      <3>3. Cardinality(rest) \in Nat /\ Cardinality(pass[r].rows) \in Nat
        BY <1>1, TargetsFinite
      <3> QED BY <1>1, <3>2, <3>3
    <2>2. CASE rest = {}
      BY <1>3, <1>5, <2>2 DEF NextRow
    <2>3. CASE rest # {}
      <3>1. pass' = [pass EXCEPT ![r] = [pc |-> "row", rows |-> rest]]
        BY <1>5, <2>3 DEF NextRow
      <3>2. "row" \in Pcs
        BY DEF Pcs
      <3> HIDE DEF rest
      <3> QED BY <2>1, <2>3, <3>1, <3>2, PassesKeep DEF PassesOK
    <2> QED BY <2>2, <2>3
  <1> QED BY <1>3, <1>4, <1>5

\* A batch is within the LIMIT.
LEMMA BatchInLimit ==
    ASSUME NEW b \in Batches, matches \in SUBSET Targets
    PROVE  b \in SUBSET Due /\ b \in SUBSET Targets /\ Cardinality(b) <= Limit
  <1>1. b \in SUBSET Due /\ Due \in SUBSET Targets /\ Cardinality(b) = Min({Limit, Cardinality(Due)})
    BY DEF Batches, Due
  <1>2. Cardinality(Due) \in Nat /\ Limit \in Nat
    BY <1>1, TargetsFinite
  <1>3. {Limit, Cardinality(Due)} \in SUBSET Nat /\ {Limit, Cardinality(Due)} # {}
    BY <1>2
  <1>4. Min({Limit, Cardinality(Due)}) <= Limit
    BY <1>3, LeastExists
  <1> QED BY <1>1, <1>4

\* Everything but the passes.
RestOK ==
    /\ kind \in Kinds
    /\ matches \in SUBSET Targets /\ ledger \in SUBSET Targets
    /\ effect \in [Targets -> Nat]
    /\ mark \in [Targets -> {"none", "set", "moved"}]
    /\ mishaps \in 0..MaxMishaps
    /\ overlapped \in SUBSET Targets /\ lost \in SUBSET Targets

LEMMA TypeOfParts == TypeOK <=> RestOK /\ PassesOK
  BY DEF TypeOK, RestOK, PassesOK, PassOK, Pcs

LEMMA AutomationInitTypes == Init => TypeOK
  <1> SUFFICES ASSUME Init PROVE TypeOK
    OBVIOUS
  <1>1. \A r \in Runners : pass[r].pc = "idle" /\ pass[r].rows = {}
    BY DEF Init, IdlePass
  <1>2. pass \in [Runners -> [pc : Pcs, rows : SUBSET Targets]]
    BY DEF Init, IdlePass, Pcs
  <1>3. Cardinality({}) = 0
    BY FS_EmptySet
  <1>4. \A r \in Runners : PassOK(r)
    <2> SUFFICES ASSUME NEW r \in Runners PROVE PassOK(r)
      OBVIOUS
    <2>1. pass[r].rows = {} /\ Cardinality(pass[r].rows) = 0
      BY <1>1, <1>3
    <2>2. Cardinality(pass[r].rows) <= Limit
      BY <2>1
    <2> QED BY <1>1, <1>2, <2>2 DEF PassOK
  <1>5. PassesOK /\ RestOK
    BY <1>2, <1>4 DEF PassesOK, Init, RestOK
  <1> QED BY <1>5, TypeOfParts

LEMMA ScanTypes == ASSUME TypeOK, NEW r \in Runners, Scan(r) PROVE TypeOK'
  <1>1. PICK b \in Batches \ {{}} :
           /\ pass' = [pass EXCEPT ![r] = [pc |-> "row", rows |-> b]]
           /\ overlapped' = overlapped \union (b \intersect UNION {pass[o].rows : o \in Runners \ {r}})
    BY DEF Scan
  <1>2. b \in SUBSET Targets /\ b # {} /\ Cardinality(b) <= Limit
    BY <1>1, BatchInLimit DEF TypeOK
  <1>3. PassesOK'
    BY <1>1, <1>2, PassesKeep DEF Scan, PassesOK, Pcs
  <1>4. RestOK'
    BY <1>1, <1>2 DEF Scan, TypeOK, RestOK
  <1> QED BY <1>3, <1>4 DEF TypeOK, RestOK, PassesOK, PassOK, Pcs

LEMMA WorkTypes == ASSUME TypeOK, NEW r \in Runners, Work(r) PROVE TypeOK'
  <1>1. pass[r].pc # "idle" /\ kind' = kind
    BY DEF Work, MakeTask, AskIssue, MakeIssue, PostInvoiceOrMail, StoreMark, AlreadyFired,
           FlipStage, Notify, RecordRun, At
  <1>2. Row(r) \in Targets
    BY <1>1, RowIsHeld
  <1>3. RestOK'
    BY <1>2 DEF TypeOK, RestOK, Work, MakeTask, AskIssue, MakeIssue, PostInvoiceOrMail, StoreMark,
                AlreadyFired, FlipStage, Notify, RecordRun, Make, Set, Enter, hist
  <1>4. PassesOK'
    BY <1>1, PassGoesOn DEF Work, MakeTask, AskIssue, MakeIssue, PostInvoiceOrMail, StoreMark,
                AlreadyFired, FlipStage, Notify, RecordRun, At, Pcs
  <1> QED BY <1>3, <1>4 DEF TypeOK, RestOK, PassesOK, PassOK, Pcs

LEMMA FailureTypes ==
    ASSUME TypeOK, NEW r \in Runners, RowFails(r) \/ AnswerLost(r) \/ Dies(r) PROVE TypeOK'
  <1>1. pass[r].pc # "idle" /\ kind' = kind
    BY DEF RowFails, AnswerLost, Dies, At
  <1>2. Row(r) \in Targets
    BY <1>1, RowIsHeld
  <1>3. RestOK'
    BY <1>2 DEF TypeOK, RestOK, RowFails, AnswerLost, Dies, Mishap, Lose, Make, Set, Enter
  <1>4. PassesOK'
    BY <1>1, PassGoesOn DEF RowFails, AnswerLost, Dies
  <1> QED BY <1>3, <1>4 DEF TypeOK, RestOK, PassesOK, PassOK, Pcs

LEMMA WorldTypes ==
    ASSUME TypeOK, NEW t \in Targets, Change(t) \/ CloseIssue(t) \/ MoveStage(t) \/ WindowPasses(t)
    PROVE  TypeOK'
  <1>1. pass' = pass /\ kind' = kind
    BY DEF Change, CloseIssue, MoveStage, WindowPasses
  <1>2. RestOK'
    BY DEF TypeOK, RestOK, Change, CloseIssue, MoveStage, WindowPasses, Mishap, hist
  <1> QED BY <1>1, <1>2 DEF TypeOK, RestOK

LEMMA AutomationTypeStep == TypeOK /\ [Next]_vars => TypeOK'
  <1> SUFFICES ASSUME TypeOK, [Next]_vars PROVE TypeOK'
    OBVIOUS
  <1>1. CASE Next
    BY <1>1, ScanTypes, WorkTypes, FailureTypes, WorldTypes DEF Next
  <1>2. CASE UNCHANGED vars
    BY <1>2 DEF vars, hist, TypeOK
  <1> QED BY <1>1, <1>2

\* Passes hold targets within the LIMIT, at a step of the rule's kind.
THEOREM AutomationTypeCorrect == Spec => []TypeOK
  BY AutomationInitTypes, AutomationTypeStep, PTL DEF Spec

-----------------------------------------------------------------------------
(* One target is served once.                                              *)

\* Where a pass asks for an open issue and finds it, if there is one.
Asks(t) == kind = "issue" /\ Seen(t)

\* Targets that may have been served twice.  Where passes ask, a lost record is
\* no excuse.
Excused == {t \in Targets : t \in overlapped \/ (t \in lost /\ ~Asks(t))}

\* Where the ledger is all that tells of what was done.
Ledgered(t) == kind \in {"task", "notify"} \/ (kind = "issue" /\ ~Seen(t))

USE DEF Asks, Ledgered

\* The deed on t is done by a pass that has still to write it down.
After(t, pc) == \E r \in Runners : t \in pass[r].rows /\ t = Row(r) /\ pass[r].pc = pc

\* A pass is about to do it.
Before(r, t) ==
    /\ t \in pass[r].rows
    /\ IF Asks(t) THEN t = Row(r) /\ pass[r].pc = "act"
       ELSE ~(t = Row(r) /\ pass[r].pc \in {"mark", "record"})

\* The inductive invariant: what is done to a target is in the ledger or in its
\* column, or about to be written there, and who is about to act finds nothing
\* done yet.
Sound(t) ==
    t \notin Excused =>
        /\ effect[t] <= 1
        /\ kind = "renewal" => effect[t] = 0
        /\ Ledgered(t) /\ effect[t] # 0 => t \in ledger \/ After(t, "record")
        /\ kind \in {"invoice", "send"} /\ effect[t] # 0 => mark[t] # "none" \/ After(t, "mark")
        /\ \A r \in Runners : Before(r, t) => effect[t] = 0

Exclusive ==
    \A r, s \in Runners : r # s => pass[r].rows \intersect pass[s].rows \subseteq overlapped

LedgerInv == Exclusive /\ \A t \in Targets : Sound(t)

\* The new state of a pass that goes on.
Shrinks(r) ==
    \/ pass'[r].rows = pass[r].rows
    \/ pass'[r].rows \subseteq pass[r].rows \ {Row(r)} /\ pass'[r].pc \in {"row", "idle"}

LEMMA GoesOnShrinks ==
    ASSUME TypeOK, NEW r \in Runners
    PROVE  /\ \A pc : Goto(r, pc) => /\ pass'[r] = [pc |-> pc, rows |-> pass[r].rows]
                                    /\ pass'[r].pc = pc /\ pass'[r].rows = pass[r].rows
                                    /\ \A s \in Runners \ {r} : pass'[s] = pass[s]
           /\ NextRow(r) => /\ pass'[r].rows \subseteq pass[r].rows \ {Row(r)}
                            /\ pass'[r].pc \in {"row", "idle"}
                            /\ \A s \in Runners \ {r} : pass'[s] = pass[s]
           /\ pass' = [pass EXCEPT ![r] = IdlePass]
                 => /\ pass'[r].rows = {} /\ pass'[r].pc = "idle"
                    /\ \A s \in Runners \ {r} : pass'[s] = pass[s]
  <1>1. pass \in [Runners -> [pc : {"idle", "row", "act", "mark", "record"}, rows : SUBSET Targets]]
    BY DEF TypeOK
  <1> QED BY <1>1 DEF Goto, NextRow, IdlePass

\* A step of one pass: it is enough to look at the row in hand, as far as no
\* other pass holds that row.
LEMMA StepOnRow ==
    ASSUME TypeOK, LedgerInv, NEW r \in Runners, pass[r].pc # "idle", kind' = kind,
           overlapped' = overlapped, lost \subseteq lost', NEW u \in Targets, u = Row(r),
           \A s \in Runners \ {r} : pass'[s] = pass[s], Shrinks(r),
           \A t \in Targets \ {u} :
              effect'[t] = effect[t] /\ mark'[t] = mark[t] /\ (t \in ledger => t \in ledger'),
           u \notin overlapped /\ (\A s \in Runners \ {r} : u \notin pass[s].rows) => Sound(u)'
    PROVE  LedgerInv'
  <1>1. u \in pass[r].rows
    BY RowIsHeld
  <1>2. Exclusive'
    BY DEF LedgerInv, Exclusive, Shrinks
  <1>3. Sound(u)'
    <2>1. CASE u \in overlapped
      BY <2>1 DEF Sound, Excused
    <2>2. CASE u \notin overlapped
      BY <1>1, <2>2 DEF LedgerInv, Exclusive
    <2> QED BY <2>1, <2>2
  <1>4. \A s \in Runners \ {r} : Row(s)' = Row(s)
    BY DEF Row
  <1>5. ASSUME NEW t \in Targets \ {u} PROVE Sound(t)'
    <2>1. t \notin Excused' => t \notin Excused
      BY DEF Excused
    <2>2. \A pc : After(t, pc) => After(t, pc)'
      <3> SUFFICES ASSUME NEW pc, NEW s \in Runners, t \in pass[s].rows, t = Row(s), pass[s].pc = pc
                   PROVE  After(t, pc)'
        BY DEF After
      <3>1. s # r
        OBVIOUS
      <3> QED BY <1>4, <3>1 DEF After
    <2>3. ASSUME NEW s \in Runners, Before(s, t)' PROVE Before(s, t)
      <3>1. CASE s # r
        BY <1>4, <2>3, <3>1 DEF Before
      <3>2. CASE s = r
        <4>1. t \in pass'[r].rows /\ t \in pass[r].rows
          BY <2>3, <3>2 DEF Before, Shrinks
        <4>2. ~Asks(t)
          <5> SUFFICES ASSUME Asks(t) PROVE FALSE
            OBVIOUS
          <5>1. t = Row(r)' /\ pass'[r].pc = "act"
            BY <2>3, <3>2 DEF Before
          <5>2. pass'[r].rows = pass[r].rows
            BY <5>1 DEF Shrinks
          <5>3. Row(r)' = Row(r)
            BY <5>2 DEF Row
          <5> QED BY <5>1, <5>3
        <4> QED BY <3>2, <4>1, <4>2 DEF Before
      <3> QED BY <3>1, <3>2
    <2>4. Sound(t)
      BY DEF LedgerInv
    <2> QED BY <2>1, <2>2, <2>3, <2>4 DEF Sound
  <1> QED BY <1>2, <1>3, <1>5 DEF LedgerInv

\* After its row was written down, or given up, a pass leaves it.
LEMMA LeavesRow ==
    ASSUME TypeOK, LedgerInv, NEW r \in Runners, pass[r].pc # "idle", kind' = kind,
           overlapped' = overlapped, lost \subseteq lost', NEW u \in Targets, u = Row(r),
           NextRow(r) \/ pass' = [pass EXCEPT ![r] = IdlePass],
           \A t \in Targets \ {u} :
              effect'[t] = effect[t] /\ mark'[t] = mark[t] /\ (t \in ledger => t \in ledger'),
           u \notin Excused' /\ (\A s \in Runners \ {r} : u \notin pass[s].rows)
              => /\ effect'[u] <= 1
                 /\ kind = "renewal" => effect'[u] = 0
                 /\ Ledgered(u) /\ effect'[u] # 0 => u \in ledger'
                 /\ kind \in {"invoice", "send"} /\ effect'[u] # 0 => mark'[u] # "none"
    PROVE  LedgerInv'
  <1>1. /\ pass'[r].rows \subseteq pass[r].rows \ {u} /\ pass'[r].pc \in {"row", "idle"}
        /\ \A s \in Runners \ {r} : pass'[s] = pass[s]
    BY GoesOnShrinks
  <1>2. ASSUME \A s \in Runners \ {r} : u \notin pass[s].rows PROVE Sound(u)'
    <2>1. \A s \in Runners : ~Before(s, u)'
      BY <1>1, <1>2 DEF Before
    <2> QED BY <1>2, <2>1 DEF Sound
  <1> QED BY <1>1, <1>2, StepOnRow DEF Shrinks

LEMMA ScanSound == ASSUME TypeOK, LedgerInv, NEW r \in Runners, Scan(r) PROVE LedgerInv'
  <1>1. PICK b \in Batches \ {{}} :
           /\ pass' = [pass EXCEPT ![r] = [pc |-> "row", rows |-> b]]
           /\ overlapped' = overlapped \union (b \intersect UNION {pass[o].rows : o \in Runners \ {r}})
    BY DEF Scan
  <1>2. b \in SUBSET Due
    BY <1>1, BatchInLimit DEF TypeOK
  <1>3. pass'[r] = [pc |-> "row", rows |-> b] /\ \A s \in Runners \ {r} : pass'[s] = pass[s]
    BY <1>1 DEF TypeOK
  <1>4. pass[r].rows = {}
    BY DEF Scan, TypeOK
  <1>5. \A s \in Runners \ {r} : \A t \in b : t \in pass[s].rows => t \in overlapped'
    BY <1>1
  <1>6. Exclusive'
    BY <1>1, <1>3, <1>5 DEF LedgerInv, Exclusive
  <1>7. \A s \in Runners \ {r} : Row(s)' = Row(s)
    BY <1>3 DEF Row
  <1>8. ASSUME NEW t \in Targets PROVE Sound(t)'
    <2> SUFFICES ASSUME t \notin Excused' PROVE Sound(t)'
      BY DEF Sound
    <2>1. t \notin Excused /\ Sound(t) /\ UNCHANGED <<kind, effect, ledger, mark>>
      BY <1>1 DEF Excused, LedgerInv, Scan
    <2>2. \A pc : After(t, pc) => After(t, pc)'
      BY <1>3, <1>4, <1>7 DEF After
    <2>3. ASSUME NEW s \in Runners, s # r, Before(s, t)' PROVE Before(s, t)
      BY <1>3, <1>7, <2>1, <2>3 DEF Before
    <2>4. ASSUME Before(r, t)' PROVE effect[t] = 0
      <3>1. t \in b /\ ~Asks(t)
        BY <1>3, <2>1, <2>4 DEF Before
      <3>2. ~Served(t) /\ t \in Due
        BY <1>2, <3>1 DEF Due
      <3>3. t \notin overlapped'
        BY DEF Excused
      <3>4. ~After(t, "mark") /\ ~After(t, "record")
        BY <1>4, <1>5, <3>1, <3>3 DEF After
      <3>5. effect[t] \in Nat /\ kind \in Kinds
        BY DEF TypeOK
      <3> QED BY <2>1, <3>1, <3>2, <3>4, <3>5 DEF Sound, Served, Kinds
    <2> QED BY <2>1, <2>2, <2>3, <2>4 DEF Sound
  <1> QED BY <1>6, <1>8 DEF LedgerInv

\* The steps that stay on the row: the question and the deed.
LEMMA DeedSound ==
    ASSUME TypeOK, LedgerInv, NEW r \in Runners,
           \/ MakeTask(r) \/ AskIssue(r) \/ MakeIssue(r) \/ PostInvoiceOrMail(r) \/ Notify(r)
    PROVE  LedgerInv'
  <1>0. pass[r].pc # "idle" /\ UNCHANGED <<kind, overlapped, lost, ledger, mark>>
    BY DEF MakeTask, AskIssue, MakeIssue, PostInvoiceOrMail, Notify, At, hist
  <1>1. PICK u \in Targets : u = Row(r) /\ u \in pass[r].rows
    BY <1>0, RowIsHeld
  <1>2. PICK pc \in {"act", "mark", "record"} : Goto(r, pc)
    BY DEF MakeTask, AskIssue, MakeIssue, PostInvoiceOrMail, Notify
  <1>3. pass'[r] = [pc |-> pc, rows |-> pass[r].rows] /\ \A s \in Runners \ {r} : pass'[s] = pass[s]
    BY <1>2, GoesOnShrinks
  <1>4. Row(r)' = Row(r)
    BY <1>3 DEF Row
  <1>5. effect \in [Targets -> Nat] /\ kind \in Kinds
    BY DEF TypeOK
  <1>6. effect' = [effect EXCEPT ![u] = effect[u] + 1] \/ effect' = effect
    BY <1>1 DEF MakeTask, AskIssue, MakeIssue, PostInvoiceOrMail, Notify, Make
  <1>7. ASSUME u \notin Excused, \A s \in Runners \ {r} : u \notin pass[s].rows
        PROVE  Sound(u)'
    <2>0. Sound(u)
      BY DEF LedgerInv
    <2>1. \A s \in Runners \ {r} : ~Before(s, u)'
      BY <1>3, <1>7 DEF Before
    <2>2. CASE AskIssue(r)
      <3>1. kind = "issue" /\ effect' = effect /\ pass[r].pc = "row"
        BY <2>2 DEF AskIssue, At
      <3>2. PICK found \in Answers(u) : pass'[r].pc = IF found THEN "record" ELSE "act"
        <4>1. PICK found \in Answers(Row(r)) : Goto(r, IF found THEN "record" ELSE "act")
          BY <2>2 DEF AskIssue
        <4>2. pass'[r].pc = IF found THEN "record" ELSE "act"
          BY <4>1, GoesOnShrinks
        <4> QED BY <1>1, <4>1, <4>2
      <3>3. Before(r, u)' => effect'[u] = 0
        <4>1. CASE Asks(u)
          <5>1. pass'[r].pc = "act" => effect[u] = 0
            BY <3>2, <4>1 DEF Answers, Seen
          <5> QED BY <1>0, <3>1, <4>1, <5>1 DEF Before
        <4>2. CASE ~Asks(u)
          <5>1. Before(r, u)
            BY <1>1, <3>1, <4>2 DEF Before
          <5> QED BY <1>7, <2>0, <3>1, <5>1 DEF Sound
        <4> QED BY <4>1, <4>2
      <3>4. ~After(u, "record")
        BY <1>7, <3>1 DEF After
      <3> QED BY <1>0, <1>7, <2>0, <2>1, <3>1, <3>3, <3>4 DEF Sound
    <2>3. CASE ~AskIssue(r)
      <3>1. effect[u] = 0
        <4>1. Before(r, u)
          BY <1>1, <2>3 DEF Before, MakeTask, MakeIssue, PostInvoiceOrMail, Notify, At
        <4> QED BY <1>7, <2>0, <4>1 DEF Sound
      <3>2. effect'[u] <= 1 /\ kind # "renewal"
        BY <1>5, <1>6, <2>3, <3>1 DEF MakeTask, MakeIssue, PostInvoiceOrMail, Notify, At
      <3>3. pass'[r].pc = IF kind \in {"invoice", "send"} THEN "mark" ELSE "record"
        <4>1. CASE PostInvoiceOrMail(r)
          <5>1. Goto(r, "mark") /\ kind \in {"invoice", "send"}
            BY <4>1 DEF PostInvoiceOrMail, At
          <5> QED BY <5>1, GoesOnShrinks
        <4>2. CASE MakeTask(r) \/ MakeIssue(r) \/ Notify(r)
          <5>1. Goto(r, "record") /\ kind \notin {"invoice", "send"}
            BY <4>2 DEF MakeTask, MakeIssue, Notify, At
          <5> QED BY <5>1, GoesOnShrinks
        <4> QED BY <2>3, <4>1, <4>2
      <3>4. ~Asks(u) => ~Before(r, u)'
        BY <1>0, <1>1, <1>4, <3>3 DEF Before
      <3>5. Asks(u) => ~Before(r, u)'
        BY <1>0, <3>3 DEF Before
      <3>6. After(u, IF kind \in {"invoice", "send"} THEN "mark" ELSE "record")'
        BY <1>0, <1>1, <1>3, <1>4, <3>3 DEF After
      <3> QED BY <1>0, <2>1, <3>2, <3>4, <3>5, <3>6 DEF Sound
    <2> QED BY <2>2, <2>3
  <1>8. u \notin overlapped /\ (\A s \in Runners \ {r} : u \notin pass[s].rows) => Sound(u)'
    <2>1. CASE u \in Excused
      BY <1>0, <2>1 DEF Sound, Excused
    <2> QED BY <1>7, <2>1
  <1>9. \A t \in Targets \ {u} : effect'[t] = effect[t]
    BY <1>5, <1>6
  <1> QED BY <1>0, <1>1, <1>3, <1>8, <1>9, StepOnRow DEF Shrinks

\* Those of the renewal rule, which makes nothing.
LEMMA RenewalSound ==
    ASSUME TypeOK, LedgerInv, NEW r \in Runners, AlreadyFired(r) \/ FlipStage(r)
    PROVE  LedgerInv'
  <1>0. pass[r].pc # "idle" /\ kind = "renewal" /\ UNCHANGED <<kind, overlapped, lost, ledger, effect>>
    BY DEF AlreadyFired, FlipStage, At, hist
  <1>1. PICK u \in Targets : u = Row(r) /\ u \in pass[r].rows
    BY <1>0, RowIsHeld
  <1>2. /\ Shrinks(r)
        /\ \A s \in Runners \ {r} : pass'[s] = pass[s]
    <2>1. CASE NextRow(r)
      BY <2>1, GoesOnShrinks DEF Shrinks
    <2>2. CASE ~NextRow(r)
      <3>1. Goto(r, "act") \/ Goto(r, "record")
        BY <2>2 DEF AlreadyFired, FlipStage
      <3>2. pass'[r].rows = pass[r].rows /\ \A s \in Runners \ {r} : pass'[s] = pass[s]
        BY <3>1, GoesOnShrinks
      <3> QED BY <3>2 DEF Shrinks
    <2> QED BY <2>1, <2>2
  <1>3. \A t \in Targets \ {u} : mark'[t] = mark[t]
    BY <1>1 DEF AlreadyFired, FlipStage, Set, TypeOK
  <1>4. Sound(u)'
    BY <1>0 DEF LedgerInv, Sound, Excused
  <1> QED BY <1>0, <1>1, <1>2, <1>3, <1>4, StepOnRow

\* What is done is written down.
LEMMA WriteSound ==
    ASSUME TypeOK, LedgerInv, NEW r \in Runners, StoreMark(r) \/ RecordRun(r)
    PROVE  LedgerInv'
  <1>0. pass[r].pc # "idle" /\ UNCHANGED <<kind, overlapped, lost, effect>>
    BY DEF StoreMark, RecordRun, At, hist
  <1>1. PICK u \in Targets : u = Row(r) /\ u \in pass[r].rows
    BY <1>0, RowIsHeld
  <1>2. Sound(u) /\ (u \notin Excused' => u \notin Excused)
    BY <1>0 DEF LedgerInv, Excused
  <1>3. ledger' \subseteq Targets /\ ledger \subseteq ledger'
        /\ \A t \in Targets \ {u} : mark'[t] = mark[t]
    BY <1>1 DEF StoreMark, RecordRun, Set, Enter, TypeOK
  <1>4. kind \in Kinds /\ effect[u] \in Nat
    BY DEF TypeOK
  <1>5. CASE RecordRun(r)
    <2>1. NextRow(r) /\ u \in ledger' /\ mark' = mark /\ pass[r].pc = "record"
      BY <1>1, <1>5 DEF RecordRun, Enter
    <2>2. (\A s \in Runners \ {r} : u \notin pass[s].rows) => ~After(u, "mark")
      BY <2>1 DEF After
    <2> QED BY <1>0, <1>1, <1>2, <1>3, <2>1, <2>2, LeavesRow DEF Sound
  <1>6. CASE StoreMark(r)
    <2>1. kind \in {"invoice", "send"} /\ ledger' = ledger /\ mark'[u] = "set"
      BY <1>1, <1>6 DEF StoreMark, At, Set, TypeOK
    <2>2. CASE kind = "send"
      BY <1>0, <1>1, <1>2, <1>3, <1>6, <2>1, <2>2, LeavesRow DEF StoreMark, Sound
    <2>3. CASE kind # "send"
      <3>1. Goto(r, "record")
        BY <1>6, <2>3 DEF StoreMark
      <3>2. pass'[r] = [pc |-> "record", rows |-> pass[r].rows]
            /\ \A s \in Runners \ {r} : pass'[s] = pass[s]
        BY <3>1, GoesOnShrinks
      <3>3. Row(r)' = u
        BY <1>1, <3>2 DEF Row
      <3>4. ASSUME \A s \in Runners \ {r} : u \notin pass[s].rows PROVE Sound(u)'
        <4>1. \A s \in Runners : ~Before(s, u)'
          BY <1>0, <2>1, <3>2, <3>3, <3>4 DEF Before
        <4> QED BY <1>0, <1>2, <2>1, <4>1 DEF Sound
      <3> QED BY <1>0, <1>1, <1>3, <2>1, <3>2, <3>4, StepOnRow DEF Shrinks
    <2> QED BY <2>2, <2>3
  <1> QED BY <1>5, <1>6

\* A row whose record is lost is excused, unless the deed was written down.
LEMMA FailureSound ==
    ASSUME TypeOK, LedgerInv, NEW r \in Runners, RowFails(r) \/ AnswerLost(r) \/ Dies(r)
    PROVE  LedgerInv'
  <1>0. pass[r].pc # "idle" /\ UNCHANGED <<kind, overlapped>> /\ lost \subseteq lost'
        /\ ledger \subseteq ledger'
    BY DEF RowFails, AnswerLost, Dies, At, Lose, Enter
  <1>1. PICK u \in Targets : u = Row(r) /\ u \in pass[r].rows
    BY <1>0, RowIsHeld
  <1>2. Sound(u) /\ (u \notin Excused' => u \notin Excused)
    BY <1>0 DEF LedgerInv, Excused
  <1>3. \A t \in Targets \ {u} : effect'[t] = effect[t] /\ mark'[t] = mark[t]
    BY <1>1 DEF RowFails, AnswerLost, Dies, Make, Set, TypeOK
  <1>4. kind \in Kinds /\ effect[u] \in Nat /\ effect \in [Targets -> Nat]
        /\ pass[r].pc \in {"row", "act", "mark", "record"}
    BY <1>0 DEF TypeOK
  <1>5. NextRow(r) \/ pass' = [pass EXCEPT ![r] = IdlePass]
    BY DEF RowFails, AnswerLost, Dies
  <1>6. ASSUME u \notin Excused', \A s \in Runners \ {r} : u \notin pass[s].rows
        PROVE  /\ effect'[u] <= 1
               /\ kind = "renewal" => effect'[u] = 0
               /\ Ledgered(u) /\ effect'[u] # 0 => u \in ledger'
               /\ kind \in {"invoice", "send"} /\ effect'[u] # 0 => mark'[u] # "none"
    <2>1. \A pc : After(u, pc) => pass[r].pc = pc
      BY <1>6 DEF After
    <2>2. CASE (RowFails(r) \/ Dies(r)) /\ UNCHANGED <<effect, ledger, mark>>
      <3>1. ~Asks(u) => pass[r].pc \notin {"mark", "record"}
        BY <1>0, <1>1, <1>6, <2>2 DEF RowFails, Dies, Lose, Excused
      <3> QED BY <1>2, <1>6, <2>1, <2>2, <3>1 DEF Sound
    <2>3. CASE AnswerLost(r)
      <3>1. CASE /\ \/ At(r, "row", {"task", "survey", "invoice", "send"})
                     \/ At(r, "act", {"issue"})
                 /\ Make(r) /\ lost' = lost \union {u}
        <4>1. Asks(u) /\ pass[r].pc = "act"
          BY <1>0, <1>6, <3>1 DEF Excused, At
        <4>2. effect[u] = 0
          BY <1>1, <1>2, <1>6, <4>1 DEF Sound, Before
        <4>3. effect'[u] = 1
          BY <1>1, <1>4, <3>1, <4>2 DEF Make
        <4> QED BY <4>1, <4>3 DEF Kinds
      <3>2. CASE pass[r].pc = "mark" /\ Set(r) /\ UNCHANGED <<ledger, effect, lost>>
        <4>1. mark'[u] = "set" /\ kind \in {"invoice", "send"}
          BY <1>1, <3>2 DEF Set, TypeOK
        <4> QED BY <1>2, <1>6, <3>2, <4>1 DEF Sound
      <3>3. CASE At(r, "act", {"renewal"}) /\ Set(r) /\ UNCHANGED <<ledger, effect, lost>>
        <4>1. kind = "renewal" /\ effect[u] = 0
          BY <1>2, <1>6, <3>3 DEF At, Sound
        <4> QED BY <3>3, <4>1
      <3>4. CASE pass[r].pc = "record" /\ Enter(r) /\ UNCHANGED <<effect, mark, lost>>
        <4>1. u \in ledger'
          BY <1>1, <3>4 DEF Enter
        <4> QED BY <1>2, <1>6, <2>1, <3>4, <4>1 DEF Sound
      <3> QED BY <1>1, <2>3, <3>1, <3>2, <3>3, <3>4 DEF AnswerLost
    <2> QED BY <2>2, <2>3 DEF RowFails, Dies, AnswerLost
  <1> QED BY <1>0, <1>1, <1>3, <1>5, <1>6, LeavesRow

\* Edits of targets, closed issues, moved renewals, and windows that end.
LEMMA WorldSound ==
    ASSUME TypeOK, LedgerInv, NEW u \in Targets,
           Change(u) \/ CloseIssue(u) \/ MoveStage(u) \/ WindowPasses(u)
    PROVE  LedgerInv'
  <1>0. UNCHANGED <<kind, pass>> /\ kind \in Kinds /\ effect \in [Targets -> Nat]
    BY DEF Change, CloseIssue, MoveStage, WindowPasses, TypeOK
  <1>1. \A r \in Runners : Row(r)' = Row(r)
    BY <1>0 DEF Row
  <1>2. \A t \in Targets : /\ \A pc : After(t, pc)' <=> After(t, pc)
                           /\ \A r \in Runners : Before(r, t)' <=> Before(r, t)
    BY <1>0, <1>1 DEF After, Before
  <1>3. CASE Change(u)
    BY <1>0, <1>2, <1>3 DEF Change, LedgerInv, Exclusive, Sound, Excused, hist
  <1>4. CASE CloseIssue(u)
    <2>1. kind = "issue" /\ UNCHANGED <<ledger, mark, overlapped, lost>>
      BY <1>4 DEF CloseIssue, hist
    <2>2. \A t \in Targets : effect[t] \in Nat /\ effect'[t] \in Nat /\ effect'[t] <= effect[t]
      BY <1>0, <1>4 DEF CloseIssue
    <2>3. ASSUME NEW t \in Targets PROVE Sound(t)'
      <3>1. Sound(t) /\ (t \notin Excused' => t \notin Excused)
        BY <1>0, <2>1 DEF LedgerInv, Excused
      <3>2. effect[t] = 0 => effect'[t] = 0
        BY <2>2
      <3> QED BY <1>0, <1>2, <2>1, <2>2, <3>1, <3>2 DEF Sound
    <2> QED BY <1>0, <2>1, <2>3 DEF LedgerInv, Exclusive
  <1>5. CASE MoveStage(u)
    <2>1. kind = "renewal" /\ UNCHANGED <<ledger, effect, overlapped, lost>>
      BY <1>5 DEF MoveStage, hist
    <2> QED BY <1>0, <1>2, <2>1 DEF LedgerInv, Exclusive, Sound, Excused
  <1>6. CASE WindowPasses(u)
    <2>1. /\ \A r \in Runners : u \notin pass[r].rows
          /\ ledger' = ledger \ {u} /\ mark' = mark
      BY <1>6 DEF WindowPasses
    <2>2. CASE kind \in {"task", "notify"}
      <3>1. /\ effect' = [effect EXCEPT ![u] = 0]
            /\ overlapped' = overlapped \ {u} /\ lost' = lost \ {u}
        BY <1>6, <2>2 DEF WindowPasses
      <3>2. Exclusive'
        BY <1>0, <2>1, <3>1 DEF LedgerInv, Exclusive
      <3>3. ASSUME NEW t \in Targets PROVE Sound(t)'
        <4>1. CASE t = u
          BY <1>0, <3>1, <4>1 DEF Sound
        <4>2. CASE t # u
          <5>1. effect'[t] = effect[t] /\ (t \in ledger' <=> t \in ledger)
                /\ (t \in Excused' <=> t \in Excused) /\ Sound(t)
            BY <1>0, <2>1, <3>1, <4>2 DEF Excused, LedgerInv
          <5> QED BY <1>0, <1>2, <2>1, <5>1 DEF Sound
        <4> QED BY <4>1, <4>2
      <3> QED BY <3>2, <3>3 DEF LedgerInv
    <2>3. CASE kind \notin {"task", "notify"}
      <3>1. /\ UNCHANGED <<effect, overlapped>>
            /\ lost' = IF kind = "issue" /\ effect[u] > 0 THEN lost \union {u} ELSE lost
        BY <1>6, <2>3 DEF WindowPasses
      <3>2. Exclusive'
        BY <1>0, <3>1 DEF LedgerInv, Exclusive
      <3>3. ASSUME NEW t \in Targets PROVE Sound(t)'
        <4>1. Sound(t) /\ (t \notin Excused' => t \notin Excused)
          BY <1>0, <3>1 DEF LedgerInv, Excused
        <4>2. t \notin Excused' /\ Ledgered(t) /\ effect'[t] # 0 => t \in ledger' \/ After(t, "record")'
          <5> SUFFICES ASSUME t \notin Excused', Ledgered(t), effect'[t] # 0
                       PROVE  t \in ledger' \/ After(t, "record")'
            OBVIOUS
          <5>1. kind = "issue" /\ ~Seen(t) /\ effect[t] \in Nat /\ effect[t] # 0
            BY <1>0, <2>3, <3>1
          <5>2. t # u
            <6> SUFFICES ASSUME t = u PROVE FALSE
              OBVIOUS
            <6>1. effect[u] > 0
              BY <5>1
            <6>2. t \in lost'
              BY <3>1, <5>1, <6>1
            <6> QED BY <1>0, <5>1, <6>2 DEF Excused, Seen
          <5> QED BY <1>2, <2>1, <3>1, <4>1, <5>2 DEF Sound
        <4> QED BY <1>0, <1>2, <2>1, <3>1, <4>1, <4>2 DEF Sound
      <3> QED BY <3>2, <3>3 DEF LedgerInv
    <2> QED BY <2>2, <2>3
  <1> QED BY <1>3, <1>4, <1>5, <1>6

LEMMA LedgerStep == TypeOK /\ LedgerInv /\ [Next]_vars => LedgerInv'
  <1> SUFFICES ASSUME TypeOK, LedgerInv, [Next]_vars PROVE LedgerInv'
    OBVIOUS
  <1>1. CASE \E r \in Runners : Scan(r)
    BY <1>1, ScanSound
  <1>2. CASE \E r \in Runners : Work(r)
    BY <1>2, DeedSound, RenewalSound, WriteSound DEF Work
  <1>3. CASE \E r \in Runners : RowFails(r) \/ AnswerLost(r) \/ Dies(r)
    BY <1>3, FailureSound
  <1>4. CASE \E t \in Targets : Change(t) \/ CloseIssue(t) \/ MoveStage(t) \/ WindowPasses(t)
    BY <1>4, WorldSound
  <1>5. CASE UNCHANGED vars
    BY <1>5 DEF vars, hist, LedgerInv, Exclusive, Sound, Excused, After, Before, Row
  <1> QED BY <1>1, <1>2, <1>3, <1>4, <1>5 DEF Next

LEMMA LedgerHolds == Spec => []LedgerInv
  <1>1. Init => LedgerInv
    BY DEF Init, IdlePass, LedgerInv, Exclusive, Sound, Before
  <1> QED BY <1>1, AutomationTypeCorrect, LedgerStep, PTL DEF Spec

\* Nothing but an overlap or a lost record makes a rule serve a target twice.
THEOREM TargetsServedOnce == Spec => []FiredOnce
  <1>1. TypeOK /\ LedgerInv => FiredOnce
    <2> SUFFICES ASSUME TypeOK, LedgerInv, NEW t \in Targets, t \notin overlapped \union lost
                 PROVE  ~(effect[t] > 1)
      BY DEF FiredOnce
    <2>1. Sound(t) /\ t \notin Excused /\ effect[t] \in Nat
      BY DEF LedgerInv, Excused, TypeOK
    <2> QED BY <2>1 DEF Sound
  <1> QED BY <1>1, AutomationTypeCorrect, LedgerHolds, PTL

\* For issues a lost record is not enough either.
THEOREM IssuesServedOnce == Spec => []IssuesOnlyByOverlap
  <1>1. TypeOK /\ LedgerInv => IssuesOnlyByOverlap
    <2> SUFFICES ASSUME TypeOK, LedgerInv, kind = "issue", NEW t \in Targets, Seen(t), t \notin overlapped
                 PROVE  ~(effect[t] > 1)
      BY DEF IssuesOnlyByOverlap
    <2>1. Sound(t) /\ t \notin Excused /\ effect[t] \in Nat
      BY DEF LedgerInv, Excused, TypeOK
    <2> QED BY <2>1 DEF Sound
  <1> QED BY <1>1, AutomationTypeCorrect, LedgerHolds, PTL

-----------------------------------------------------------------------------
(* How often one target is served at worst.                                *)

\* Passes that may still act on t, and those that did and have not written it
\* down.
Coming(t) == {r \in Runners : Before(r, t)}

DoneAt(r, t) == t \in pass[r].rows /\ t = Row(r) /\ pass[r].pc \in {"mark", "record"}
Doing(t)     == {r \in Runners : DoneAt(r, t)}

Price == IF kind = "issue" THEN 0 ELSE mishaps

\* What was done and what may still come are within the bound; while the scan
\* would take t again, only the passes at it and the failures were before.
Counted(t) ==
    /\ kind = "renewal" => effect[t] = 0
    /\ (kind = "issue" => Seen(t))
          => effect[t] + Cardinality(Coming(t)) <= Cardinality(Runners) + Price
    /\ kind \notin {"issue", "renewal"} /\ ~Served(t)
          => effect[t] <= Cardinality(Doing(t)) + mishaps

\* An invoice is recorded after its id was stored on the deal; a mail never is.
Written ==
    /\ \A r \in Runners : pass[r].pc = "record" =>
          /\ kind # "send"
          /\ kind = "invoice" => mark[Row(r)] # "none"
    /\ kind = "invoice" => \A t \in ledger : mark[t] # "none"

LEMMA WrittenStep == TypeOK /\ Written /\ [Next]_vars => Written'
  <1> SUFFICES ASSUME TypeOK, Written, [Next]_vars PROVE Written'
    OBVIOUS
  <1>0. /\ pass \in [Runners -> [pc : Pcs, rows : SUBSET Targets]]
        /\ mark \in [Targets -> {"none", "set", "moved"}] /\ ledger \in SUBSET Targets
    BY DEF TypeOK, Pcs
  <1>1. ASSUME NEW r \in Runners, Scan(r) \/ Work(r) \/ RowFails(r) \/ AnswerLost(r) \/ Dies(r)
        PROVE  Written'
    <2>1. kind' = kind /\ \A t \in Targets : mark[t] # "none" => mark'[t] # "none"
      <3>1. CASE pass[r].pc = "idle"
        BY <1>1, <3>1 DEF Scan, Work, MakeTask, AskIssue, MakeIssue, PostInvoiceOrMail, StoreMark,
                  AlreadyFired, FlipStage, Notify, RecordRun, RowFails, AnswerLost, Dies, At
      <3>2. CASE pass[r].pc # "idle"
        <4>1. Row(r) \in Targets
          BY <3>2, RowIsHeld
        <4> QED BY <1>0, <1>1, <4>1 DEF Scan, Work, MakeTask, AskIssue, MakeIssue, PostInvoiceOrMail,
                  StoreMark, AlreadyFired, FlipStage, Notify, RecordRun, RowFails, AnswerLost, Dies, Set
      <3> QED BY <3>1, <3>2
    <2>2. \A s \in Runners \ {r} : pass'[s] = pass[s] /\ Row(s)' = Row(s)
      <3>1. \A s \in Runners \ {r} : pass'[s] = pass[s]
        BY <1>0, <1>1 DEF Scan, Work, MakeTask, AskIssue, MakeIssue, PostInvoiceOrMail, StoreMark,
                  AlreadyFired, FlipStage, Notify, RecordRun, RowFails, AnswerLost, Dies, Goto, NextRow
      <3> QED BY <3>1 DEF Row
    <2>3. pass'[r].pc = "record" =>
             kind # "send" /\ (kind = "invoice" => mark'[Row(r)'] # "none")
      <3> SUFFICES ASSUME pass'[r].pc = "record"
                   PROVE  kind # "send" /\ (kind = "invoice" => mark'[Row(r)'] # "none")
        OBVIOUS
      <3>1. Goto(r, "record")
        <4>1. ~Scan(r) /\ ~NextRow(r) /\ pass' # [pass EXCEPT ![r] = IdlePass]
          BY <1>0 DEF Scan, NextRow, IdlePass
        <4>2. \A pc : Goto(r, pc) => pc = "record"
          BY <1>0 DEF Goto
        <4> QED BY <1>1, <4>1, <4>2 DEF Work, MakeTask, AskIssue, MakeIssue, PostInvoiceOrMail, StoreMark,
                  AlreadyFired, FlipStage, Notify, RecordRun, RowFails, AnswerLost, Dies
      <3>2. Work(r) /\ pass[r].pc # "idle"
        BY <1>0, <1>1, <3>1 DEF Scan, RowFails, AnswerLost, Dies, Work, MakeTask, AskIssue, MakeIssue,
             PostInvoiceOrMail, StoreMark, AlreadyFired, FlipStage, Notify, RecordRun, At, Goto, NextRow, IdlePass
      <3>3. Row(r)' = Row(r) /\ Row(r) \in Targets
        BY <1>0, <3>1, <3>2, RowIsHeld DEF Goto, Row
      <3>4. CASE StoreMark(r)
        <4>1. kind # "send"
          BY <1>0, <3>1, <3>4 DEF StoreMark, NextRow, Goto, IdlePass
        <4>2. mark'[Row(r)] = "set"
          BY <1>0, <3>3, <3>4 DEF StoreMark, Set
        <4> QED BY <3>3, <4>1, <4>2
      <3>5. CASE PostInvoiceOrMail(r)
        BY <1>0, <3>1, <3>5 DEF PostInvoiceOrMail, Goto
      <3>6. CASE RecordRun(r)
        BY <1>0, <3>1, <3>6 DEF RecordRun, Goto, NextRow, IdlePass
      <3> QED BY <3>2, <3>4, <3>5, <3>6 DEF Work, MakeTask, AskIssue, MakeIssue, AlreadyFired, FlipStage, Notify, At
    <2>4. kind = "invoice" => \A t \in ledger' : mark'[t] # "none"
      <3>1. CASE ledger' = ledger
        BY <1>0, <2>1, <3>1 DEF Written
      <3>2. CASE ledger' # ledger
        <4>1. pass[r].pc = "record" /\ Enter(r) /\ mark' = mark
          BY <1>1, <3>2 DEF Scan, Work, MakeTask, AskIssue, MakeIssue, PostInvoiceOrMail, StoreMark,
                  AlreadyFired, FlipStage, Notify, RecordRun, RowFails, AnswerLost, Dies, hist
        <4> QED BY <4>1 DEF Enter, Written
      <3> QED BY <3>1, <3>2
    <2>5. \A s \in Runners \ {r} : pass[s].pc = "record" => Row(s) \in Targets
      BY RowIsHeld
    <2> QED BY <2>1, <2>2, <2>3, <2>4, <2>5 DEF Written
  <1>2. ASSUME NEW t \in Targets, Change(t) \/ CloseIssue(t) \/ MoveStage(t) \/ WindowPasses(t)
        PROVE  Written'
    <2>1. pass' = pass /\ kind' = kind /\ ledger' \subseteq ledger /\ (kind # "renewal" => mark' = mark)
      BY <1>2 DEF Change, CloseIssue, MoveStage, WindowPasses
    <2>2. \A s \in Runners : Row(s)' = Row(s)
      BY <2>1 DEF Row
    <2> QED BY <2>1, <2>2 DEF Written
  <1>3. CASE UNCHANGED vars
    BY <1>3 DEF vars, Written, Row
  <1> QED BY <1>1, <1>2, <1>3 DEF Next

\* A set of passes, with and without one of them.
LEMMA CountWithout ==
    ASSUME IsFiniteSet(Runners), NEW S \in SUBSET Runners, NEW r \in Runners
    PROVE  /\ Cardinality(S) \in Nat /\ Cardinality(S \ {r}) \in Nat
           /\ Cardinality(S) = Cardinality(S \ {r}) + (IF r \in S THEN 1 ELSE 0)
  <1>1. IsFiniteSet(S) /\ IsFiniteSet(S \ {r})
    BY FS_Subset
  <1>2. Cardinality(S) \in Nat /\ Cardinality(S \ {r}) \in Nat
    BY <1>1, FS_CardinalityType
  <1>3. CASE r \notin S
    <2>1. S \ {r} = S
      BY <1>3
    <2> QED BY <1>2, <1>3, <2>1
  <1>4. CASE r \in S
    <2>1. Cardinality(S \ {r}) = Cardinality(S) - 1
      BY <1>1, <1>4, FS_RemoveElement
    <2> QED BY <1>2, <1>4, <2>1
  <1> QED BY <1>3, <1>4

LEMMA ComingBounded ==
    ASSUME IsFiniteSet(Runners), NEW t
    PROVE  /\ Cardinality(Runners) \in Nat
           /\ Cardinality(Coming(t)) <= Cardinality(Runners)
           /\ Cardinality(Coming(t)') <= Cardinality(Runners)
  <1>1. Coming(t) \in SUBSET Runners /\ Coming(t)' \in SUBSET Runners
    BY DEF Coming
  <1> QED BY <1>1, FS_Subset, FS_CardinalityType

LEMMA CountDisjoint ==
    ASSUME IsFiniteSet(Runners), NEW S \in SUBSET Runners, NEW T \in SUBSET Runners,
           S \intersect T = {}
    PROVE  Cardinality(S) + Cardinality(T) <= Cardinality(Runners)
  <1>1. IsFiniteSet(S) /\ IsFiniteSet(T) /\ Cardinality({}) = 0
    BY FS_Subset, FS_EmptySet
  <1>2. Cardinality(S \union T) = Cardinality(S) + Cardinality(T)
    <2>1. Cardinality(S \union T) = Cardinality(S) + Cardinality(T) - Cardinality(S \intersect T)
      BY <1>1, FS_Union
    <2>2. Cardinality(S) \in Nat /\ Cardinality(T) \in Nat /\ Cardinality(S \intersect T) = 0
      BY <1>1, FS_CardinalityType
    <2> QED BY <2>1, <2>2
  <1>3. S \union T \in SUBSET Runners
    OBVIOUS
  <1>4. Cardinality(S \union T) <= Cardinality(Runners)
    BY <1>3, FS_Subset
  <1> QED BY <1>2, <1>4

\* When only the pass r moves, the two sets change by r alone.
LEMMA OnlyOneMoves ==
    ASSUME IsFiniteSet(Runners), NEW r \in Runners, NEW t \in Targets, kind' = kind,
           \A s \in Runners \ {r} : pass'[s] = pass[s]
    PROVE  /\ Cardinality(Coming(t)) \in Nat /\ Cardinality(Coming(t)') \in Nat
           /\ Cardinality(Doing(t)) \in Nat /\ Cardinality(Doing(t)') \in Nat
           /\ Cardinality(Coming(t)') = Cardinality(Coming(t))
                 + (IF Before(r, t)' THEN 1 ELSE 0) - (IF Before(r, t) THEN 1 ELSE 0)
           /\ Cardinality(Doing(t)') = Cardinality(Doing(t))
                 + (IF DoneAt(r, t)' THEN 1 ELSE 0) - (IF DoneAt(r, t) THEN 1 ELSE 0)
  <1>1. \A s \in Runners \ {r} : Row(s)' = Row(s)
    BY DEF Row
  <1>2. \A s \in Runners \ {r} : (Before(s, t)' <=> Before(s, t)) /\ (DoneAt(s, t)' <=> DoneAt(s, t))
    BY <1>1 DEF Before, DoneAt
  <1>3. /\ Coming(t) \in SUBSET Runners /\ Coming(t)' \in SUBSET Runners
        /\ Doing(t) \in SUBSET Runners /\ Doing(t)' \in SUBSET Runners
    BY DEF Coming, Doing
  <1>4. Coming(t)' \ {r} = Coming(t) \ {r} /\ Doing(t)' \ {r} = Doing(t) \ {r}
    BY <1>2 DEF Coming, Doing
  <1>5. /\ r \in Coming(t)' <=> Before(r, t)'
        /\ r \in Coming(t) <=> Before(r, t)
        /\ r \in Doing(t)' <=> DoneAt(r, t)'
        /\ r \in Doing(t) <=> DoneAt(r, t)
    BY DEF Coming, Doing
  <1>6. /\ Cardinality(Coming(t)) \in Nat /\ Cardinality(Coming(t) \ {r}) \in Nat
        /\ Cardinality(Coming(t)) = Cardinality(Coming(t) \ {r}) + (IF r \in Coming(t) THEN 1 ELSE 0)
    BY <1>3, CountWithout
  <1>7. /\ Cardinality(Coming(t)') \in Nat
        /\ Cardinality(Coming(t)') = Cardinality(Coming(t)' \ {r}) + (IF r \in Coming(t)' THEN 1 ELSE 0)
    BY <1>3, CountWithout
  <1>8. /\ Cardinality(Doing(t)) \in Nat /\ Cardinality(Doing(t) \ {r}) \in Nat
        /\ Cardinality(Doing(t)) = Cardinality(Doing(t) \ {r}) + (IF r \in Doing(t) THEN 1 ELSE 0)
    BY <1>3, CountWithout
  <1>9. /\ Cardinality(Doing(t)') \in Nat
        /\ Cardinality(Doing(t)') = Cardinality(Doing(t)' \ {r}) + (IF r \in Doing(t)' THEN 1 ELSE 0)
    BY <1>3, CountWithout
  <1>10. /\ Cardinality(Coming(t)' \ {r}) = Cardinality(Coming(t) \ {r})
         /\ Cardinality(Doing(t)' \ {r}) = Cardinality(Doing(t) \ {r})
    BY <1>4
  <1>11. /\ (IF r \in Coming(t)' THEN 1 ELSE 0) = (IF Before(r, t)' THEN 1 ELSE 0)
         /\ (IF r \in Coming(t) THEN 1 ELSE 0) = (IF Before(r, t) THEN 1 ELSE 0)
         /\ (IF r \in Doing(t)' THEN 1 ELSE 0) = (IF DoneAt(r, t)' THEN 1 ELSE 0)
         /\ (IF r \in Doing(t) THEN 1 ELSE 0) = (IF DoneAt(r, t) THEN 1 ELSE 0)
    BY <1>5
  <1>12. (IF Before(r, t)' THEN 1 ELSE 0) \in Nat /\ (IF Before(r, t) THEN 1 ELSE 0) \in Nat
         /\ (IF DoneAt(r, t)' THEN 1 ELSE 0) \in Nat /\ (IF DoneAt(r, t) THEN 1 ELSE 0) \in Nat
    OBVIOUS
  <1>13. /\ Cardinality(Coming(t)') = Cardinality(Coming(t))
               + (IF Before(r, t)' THEN 1 ELSE 0) - (IF Before(r, t) THEN 1 ELSE 0)
    BY ONLY <1>6, <1>7, <1>10, <1>11, <1>12
  <1>14. /\ Cardinality(Doing(t)') = Cardinality(Doing(t))
               + (IF DoneAt(r, t)' THEN 1 ELSE 0) - (IF DoneAt(r, t) THEN 1 ELSE 0)
    BY ONLY <1>8, <1>9, <1>10, <1>11, <1>12
  <1> QED BY <1>6, <1>7, <1>8, <1>9, <1>13, <1>14

\* What a pass in the middle of its work changes about a row that is not the
\* one in hand: it may give it up.
LEMMA OtherRows ==
    ASSUME TypeOK, NEW r \in Runners, pass[r].pc # "idle", NEW t \in Targets, t # Row(r),
           kind' = kind, Shrinks(r)
    PROVE  (Before(r, t)' => Before(r, t)) /\ ~DoneAt(r, t) /\ ~DoneAt(r, t)'
  <1>1. pass'[r].rows = pass[r].rows => Row(r)' = Row(r)
    BY DEF Row
  <1>2. ~DoneAt(r, t) /\ ~DoneAt(r, t)'
    BY <1>1 DEF DoneAt, Shrinks
  <1>3. Before(r, t)' => Before(r, t)
    BY <1>1 DEF Before, Shrinks
  <1> QED BY <1>2, <1>3

\* A step of a pass: what is left to look at is the row in hand.
LEMMA CountOnRow ==
    ASSUME TypeOK, IsFiniteSet(Runners), NEW r \in Runners, pass[r].pc # "idle", kind' = kind,
           NEW u \in Targets, u = Row(r), \A s \in Runners \ {r} : pass'[s] = pass[s], Shrinks(r),
           mishaps' \in Nat, mishaps <= mishaps',
           \A t \in Targets \ {u} :
              effect'[t] = effect[t] /\ mark'[t] = mark[t] /\ (t \in ledger => t \in ledger'),
           \A t \in Targets : Counted(t), Counted(u)'
    PROVE  \A t \in Targets : Counted(t)'
  <1> SUFFICES ASSUME NEW t \in Targets \ {u} PROVE Counted(t)'
    OBVIOUS
  <1>1. (Before(r, t)' => Before(r, t)) /\ ~DoneAt(r, t) /\ ~DoneAt(r, t)'
    BY OtherRows
  <1>2. /\ Cardinality(Coming(t)) \in Nat /\ Cardinality(Coming(t)') \in Nat
        /\ Cardinality(Doing(t)) \in Nat /\ Cardinality(Doing(t)') = Cardinality(Doing(t))
        /\ Cardinality(Coming(t)') <= Cardinality(Coming(t))
    <2>1. /\ Cardinality(Coming(t)) \in Nat /\ Cardinality(Coming(t)') \in Nat
          /\ Cardinality(Doing(t)) \in Nat /\ Cardinality(Doing(t)') \in Nat
          /\ Cardinality(Coming(t)') = Cardinality(Coming(t))
                + (IF Before(r, t)' THEN 1 ELSE 0) - (IF Before(r, t) THEN 1 ELSE 0)
          /\ Cardinality(Doing(t)') = Cardinality(Doing(t))
                + (IF DoneAt(r, t)' THEN 1 ELSE 0) - (IF DoneAt(r, t) THEN 1 ELSE 0)
      BY OnlyOneMoves
    <2> QED BY <1>1, <2>1
  <1>3. Served(t) => Served(t)'
    BY DEF Served
  <1>4. effect[t] \in Nat /\ effect'[t] = effect[t] /\ mishaps \in Nat /\ Cardinality(Runners) \in Nat
    BY FS_CardinalityType DEF TypeOK
  <1>5. Price \in Nat /\ Price' \in Nat /\ Price <= Price'
    BY <1>4 DEF Price
  <1>6. Counted(t)
    OBVIOUS
  <1> QED BY <1>2, <1>3, <1>4, <1>5, <1>6 DEF Counted

\* A scan takes a row only when what was done to it is being written down, or
\* was paid for.
LEMMA ScanCounted ==
    ASSUME TypeOK, IsFiniteSet(Runners), \A t \in Targets : Counted(t), NEW r \in Runners, Scan(r)
    PROVE  \A t \in Targets : Counted(t)'
  <1> SUFFICES ASSUME NEW t \in Targets PROVE Counted(t)'
    OBVIOUS
  <1>0. pass \in [Runners -> [pc : Pcs, rows : SUBSET Targets]] /\ matches \in SUBSET Targets
    BY DEF TypeOK, Pcs
  <1>1. PICK b \in Batches : pass' = [pass EXCEPT ![r] = [pc |-> "row", rows |-> b]]
    BY DEF Scan
  <1>2. pass[r].rows = {} /\ UNCHANGED <<kind, ledger, effect, mark, mishaps>> /\ b \in SUBSET Due
    BY <1>0, <1>1, BatchInLimit DEF Scan, TypeOK
  <1>3. pass'[r] = [pc |-> "row", rows |-> b] /\ \A s \in Runners \ {r} : pass'[s] = pass[s]
    BY <1>0, <1>1
  <1>4. ~Before(r, t) /\ ~DoneAt(r, t) /\ ~DoneAt(r, t)' /\ (Before(r, t)' => ~Asks(t) /\ ~Served(t))
    BY <1>2, <1>3 DEF Before, DoneAt, Due
  <1>5. /\ Cardinality(Coming(t)) \in Nat /\ Cardinality(Coming(t)') \in Nat
        /\ Cardinality(Doing(t)) \in Nat /\ Cardinality(Doing(t)') \in Nat
        /\ Cardinality(Coming(t)') = Cardinality(Coming(t)) + (IF Before(r, t)' THEN 1 ELSE 0)
        /\ Cardinality(Doing(t)') = Cardinality(Doing(t))
    <2>1. /\ Cardinality(Coming(t)) \in Nat /\ Cardinality(Coming(t)') \in Nat
          /\ Cardinality(Doing(t)) \in Nat /\ Cardinality(Doing(t)') \in Nat
          /\ Cardinality(Coming(t)') = Cardinality(Coming(t))
                + (IF Before(r, t)' THEN 1 ELSE 0) - (IF Before(r, t) THEN 1 ELSE 0)
          /\ Cardinality(Doing(t)') = Cardinality(Doing(t))
                + (IF DoneAt(r, t)' THEN 1 ELSE 0) - (IF DoneAt(r, t) THEN 1 ELSE 0)
      BY <1>2, <1>3, OnlyOneMoves
    <2> QED BY <1>4, <2>1
  <1>6. effect[t] \in Nat /\ mishaps \in Nat /\ Cardinality(Runners) \in Nat /\ (Served(t)' <=> Served(t))
        /\ Price' = Price /\ (kind # "issue" => Price = mishaps)
    BY <1>2, FS_CardinalityType DEF TypeOK, Served, Price
  <1>7. Counted(t)
    OBVIOUS
  <1>8. CASE ~Before(r, t)'
    BY <1>2, <1>5, <1>6, <1>7, <1>8 DEF Counted
  <1>9. CASE Before(r, t)' /\ kind = "issue"
    BY <1>2, <1>4, <1>9 DEF Counted, Seen
  <1>10. CASE Before(r, t)' /\ kind # "issue"
    <2>1. Coming(t)' \in SUBSET Runners /\ Doing(t)' \in SUBSET Runners
      BY DEF Coming, Doing
    <2>2. Coming(t)' \intersect Doing(t)' = {}
      BY <1>2, <1>4, <1>10 DEF Coming, Doing, Before, DoneAt
    <2>3. Cardinality(Coming(t)') + Cardinality(Doing(t)') <= Cardinality(Runners)
      BY <2>1, <2>2, CountDisjoint
    <2>4. kind # "issue" /\ ~Served(t)
      BY <1>4, <1>10
    <2>5. CASE kind = "renewal"
      BY <1>2, <1>5, <1>6, <1>7, <2>3, <2>5 DEF Counted
    <2>6. CASE kind # "renewal"
      <3>1. effect[t] <= Cardinality(Doing(t)) + mishaps
        BY <1>7, <2>4, <2>6 DEF Counted
      <3>2. effect'[t] + Cardinality(Coming(t)') <= Cardinality(Runners) + Price'
        BY <1>2, <1>5, <1>6, <2>3, <2>4, <3>1
      <3> QED BY <1>2, <1>5, <1>6, <1>7, <2>6, <3>1, <3>2 DEF Counted
    <2> QED BY <2>5, <2>6
  <1> QED BY <1>8, <1>9, <1>10

\* The question and the deed: one that was coming came.
LEMMA DeedCounted ==
    ASSUME TypeOK, IsFiniteSet(Runners), \A t \in Targets : Counted(t), NEW r \in Runners,
           \/ MakeTask(r) \/ AskIssue(r) \/ MakeIssue(r) \/ PostInvoiceOrMail(r) \/ Notify(r)
    PROVE  \A t \in Targets : Counted(t)'
  <1>0. pass[r].pc # "idle" /\ UNCHANGED <<kind, ledger, mark, mishaps>>
    BY DEF MakeTask, AskIssue, MakeIssue, PostInvoiceOrMail, Notify, At
  <1>1. PICK u \in Targets : u = Row(r) /\ u \in pass[r].rows
    BY <1>0, RowIsHeld
  <1>2. PICK pc \in {"act", "mark", "record"} : Goto(r, pc)
    BY DEF MakeTask, AskIssue, MakeIssue, PostInvoiceOrMail, Notify
  <1>3. pass'[r] = [pc |-> pc, rows |-> pass[r].rows] /\ \A s \in Runners \ {r} : pass'[s] = pass[s]
    BY <1>2, GoesOnShrinks
  <1>4. Row(r)' = Row(r)
    BY <1>3 DEF Row
  <1>5. effect \in [Targets -> Nat] /\ kind \in Kinds /\ mishaps \in Nat /\ Cardinality(Runners) \in Nat
        /\ Price' = Price /\ Price \in Nat
    BY <1>0, FS_CardinalityType DEF TypeOK, Price
  <1>6. effect' = [effect EXCEPT ![u] = effect[u] + 1] \/ effect' = effect
    BY <1>1 DEF MakeTask, AskIssue, MakeIssue, PostInvoiceOrMail, Notify, Make
  <1>7. /\ Cardinality(Coming(u)) \in Nat /\ Cardinality(Coming(u)') \in Nat
        /\ Cardinality(Doing(u)) \in Nat /\ Cardinality(Doing(u)') \in Nat
        /\ Cardinality(Coming(u)') = Cardinality(Coming(u))
              + (IF Before(r, u)' THEN 1 ELSE 0) - (IF Before(r, u) THEN 1 ELSE 0)
        /\ Cardinality(Doing(u)') = Cardinality(Doing(u))
              + (IF DoneAt(r, u)' THEN 1 ELSE 0) - (IF DoneAt(r, u) THEN 1 ELSE 0)
    BY <1>0, <1>3, OnlyOneMoves
  <1>8. Counted(u)
    OBVIOUS
  <1>9. Counted(u)'
    <2>0. CASE AskIssue(r) /\ ~Seen(u)
      BY <1>0, <2>0 DEF AskIssue, At, Counted, Seen
    <2>1. CASE AskIssue(r) /\ Seen(u)
      <3>1. kind = "issue" /\ effect' = effect /\ ~Before(r, u)
        BY <1>1, <2>1 DEF AskIssue, At, Before
      <3>2. Before(r, u)' => effect[u] = 0
        <4>1. PICK found \in Answers(Row(r)) : Goto(r, IF found THEN "record" ELSE "act")
          BY <2>1 DEF AskIssue
        <4>2. pass'[r].pc = IF found THEN "record" ELSE "act"
          BY <4>1, GoesOnShrinks
        <4>3. ~found => effect[u] = 0
          BY <1>1, <2>1, <4>1 DEF Answers, Seen
        <4> QED BY <1>0, <1>5, <2>1, <3>1, <4>2, <4>3 DEF Before
      <3>3. Cardinality(Coming(u)') <= Cardinality(Runners)
        BY ComingBounded
      <3>4. effect'[u] + Cardinality(Coming(u)') <= Cardinality(Runners) + Price'
        <4>1. CASE Before(r, u)'
          BY <1>5, <1>7, <3>1, <3>2, <3>3, <4>1
        <4>2. CASE ~Before(r, u)'
          BY <1>5, <1>7, <1>8, <2>1, <3>1, <4>2 DEF Counted
        <4> QED BY <4>1, <4>2
      <3> QED BY <1>0, <3>1, <3>4 DEF Counted
    <2>2. CASE ~AskIssue(r)
      <3>1. kind # "renewal" /\ Before(r, u) /\ ~DoneAt(r, u)
        BY <1>1, <2>2 DEF Before, DoneAt, MakeTask, MakeIssue, PostInvoiceOrMail, Notify, At
      <3>2. pc # "act"
        <4>1. Goto(r, "mark") \/ Goto(r, "record")
          BY <2>2 DEF MakeTask, MakeIssue, PostInvoiceOrMail, Notify
        <4>2. pass'[r].pc = "mark" \/ pass'[r].pc = "record"
          BY <4>1, GoesOnShrinks
        <4>3. pass'[r].pc = pc
          BY <1>3
        <4> QED BY <4>2, <4>3
      <3>3. ~Before(r, u)' /\ DoneAt(r, u)'
        BY <1>0, <1>1, <1>3, <1>4, <3>2 DEF Before, DoneAt
      <3>4. effect'[u] \in Nat /\ effect'[u] <= effect[u] + 1 /\ effect[u] <= effect'[u]
        BY <1>5, <1>6
      <3>5. Served(u) => Served(u)'
        BY <1>0, <1>5, <3>4 DEF Served
      <3> QED BY <1>0, <1>5, <1>7, <1>8, <3>1, <3>3, <3>4, <3>5 DEF Counted
    <2> QED BY <2>0, <2>1, <2>2
  <1>10. \A t \in Targets \ {u} : effect'[t] = effect[t]
    BY <1>5, <1>6
  <1> QED BY <1>0, <1>1, <1>3, <1>5, <1>9, <1>10, CountOnRow DEF Shrinks

\* The renewal rule makes nothing.
LEMMA RenewalCounted ==
    ASSUME TypeOK, IsFiniteSet(Runners), \A t \in Targets : Counted(t), NEW r \in Runners,
           AlreadyFired(r) \/ FlipStage(r)
    PROVE  \A t \in Targets : Counted(t)'
  <1> SUFFICES ASSUME NEW t \in Targets PROVE Counted(t)'
    OBVIOUS
  <1>1. kind = "renewal" /\ UNCHANGED <<kind, effect, mishaps>> /\ mishaps \in Nat
    BY DEF AlreadyFired, FlipStage, At, TypeOK
  <1>2. effect'[t] = 0
    BY <1>1 DEF Counted
  <1>3. /\ Cardinality(Runners) \in Nat /\ Cardinality(Coming(t)') <= Cardinality(Runners)
        /\ Cardinality(Coming(t)') \in Nat
    BY ComingBounded, FS_Subset, FS_CardinalityType DEF Coming
  <1> QED BY <1>1, <1>2, <1>3 DEF Counted, Price

\* Writing down what was done: the scan does not take the row again.
LEMMA WriteCounted ==
    ASSUME TypeOK, Written, IsFiniteSet(Runners), \A t \in Targets : Counted(t), NEW r \in Runners,
           StoreMark(r) \/ RecordRun(r)
    PROVE  \A t \in Targets : Counted(t)'
  <1>0. pass[r].pc \in {"mark", "record"} /\ UNCHANGED <<kind, effect, mishaps>> /\ kind \in Kinds
    BY DEF StoreMark, RecordRun, At, TypeOK
  <1>1. PICK u \in Targets : u = Row(r) /\ u \in pass[r].rows
    BY <1>0, RowIsHeld
  <1>2. Shrinks(r) /\ (\A s \in Runners \ {r} : pass'[s] = pass[s]) /\ ~Before(r, u)'
    <2>1. CASE NextRow(r)
      BY <1>1, <2>1, GoesOnShrinks DEF Shrinks, Before
    <2>2. CASE ~NextRow(r)
      <3>1. Goto(r, "record")
        BY <2>2 DEF StoreMark, RecordRun
      <3>2. pass'[r] = [pc |-> "record", rows |-> pass[r].rows] /\ \A s \in Runners \ {r} : pass'[s] = pass[s]
        BY <3>1, GoesOnShrinks
      <3>3. Row(r)' = u
        BY <1>1, <3>2 DEF Row
      <3> QED BY <3>2, <3>3 DEF Shrinks, Before
    <2> QED BY <2>1, <2>2
  <1>3. ~Before(r, u)
    BY <1>0, <1>1 DEF Before
  <1>4. /\ Cardinality(Coming(u)) \in Nat /\ Cardinality(Coming(u)') = Cardinality(Coming(u))
        /\ Cardinality(Doing(u)') \in Nat
    <2>1. /\ Cardinality(Coming(u)) \in Nat
          /\ Cardinality(Doing(u)') \in Nat
          /\ Cardinality(Coming(u)') = Cardinality(Coming(u))
                + (IF Before(r, u)' THEN 1 ELSE 0) - (IF Before(r, u) THEN 1 ELSE 0)
      BY <1>0, <1>2, OnlyOneMoves
    <2> QED BY <1>2, <1>3, <2>1
  <1>5. \A t \in Targets \ {u} : mark'[t] = mark[t] /\ (t \in ledger => t \in ledger')
    BY <1>1 DEF StoreMark, RecordRun, Set, Enter, TypeOK
  <1>6. effect[u] \in Nat /\ mishaps \in Nat
    BY DEF TypeOK
  <1>7. kind \notin {"issue", "renewal"} => Served(u)' \/ effect'[u] = 0
    <2>1. CASE StoreMark(r)
      <3>1. kind \in {"invoice", "send"} /\ mark'[u] # "none"
        BY <1>1, <2>1 DEF StoreMark, At, Set, TypeOK
      <3> QED BY <1>0, <3>1 DEF Served
    <2>2. CASE RecordRun(r)
      <3>1. u \in ledger' /\ kind # "send"
        BY <1>1, <2>2 DEF RecordRun, Enter, Written
      <3> QED BY <1>0, <1>6, <3>1 DEF Served, Kinds
    <2> QED BY <2>1, <2>2
  <1>8. Counted(u)'
    <2>1. Counted(u) /\ Price' = Price
      BY <1>0 DEF Price
    <2> QED BY <1>0, <1>4, <1>6, <1>7, <2>1 DEF Counted
  <1> QED BY <1>0, <1>1, <1>2, <1>5, <1>6, <1>8, CountOnRow

\* A failure pays for the record it may cost.
LEMMA FailureCounted ==
    ASSUME TypeOK, IsFiniteSet(Runners), \A t \in Targets : Counted(t), NEW r \in Runners,
           RowFails(r) \/ AnswerLost(r) \/ Dies(r)
    PROVE  \A t \in Targets : Counted(t)'
  <1>0. pass[r].pc # "idle" /\ kind' = kind /\ kind \in Kinds /\ ledger \subseteq ledger'
    BY DEF RowFails, AnswerLost, Dies, At, Enter, TypeOK
  <1>1. PICK u \in Targets : u = Row(r) /\ u \in pass[r].rows
    BY <1>0, RowIsHeld
  <1>2. Shrinks(r) /\ (\A s \in Runners \ {r} : pass'[s] = pass[s]) /\ ~Before(r, u)' /\ ~DoneAt(r, u)'
    <2>1. NextRow(r) \/ pass' = [pass EXCEPT ![r] = IdlePass]
      BY DEF RowFails, AnswerLost, Dies
    <2> QED BY <1>1, <2>1, GoesOnShrinks DEF Shrinks, Before, DoneAt
  <1>3. /\ Cardinality(Coming(u)) \in Nat /\ Cardinality(Doing(u)) \in Nat
        /\ Cardinality(Coming(u)') \in Nat /\ Cardinality(Doing(u)') \in Nat
        /\ Cardinality(Coming(u)') = Cardinality(Coming(u)) - (IF Before(r, u) THEN 1 ELSE 0)
        /\ Cardinality(Doing(u)') = Cardinality(Doing(u)) - (IF DoneAt(r, u) THEN 1 ELSE 0)
    <2>1. /\ Cardinality(Coming(u)) \in Nat /\ Cardinality(Coming(u)') \in Nat
          /\ Cardinality(Doing(u)) \in Nat /\ Cardinality(Doing(u)') \in Nat
          /\ Cardinality(Coming(u)') = Cardinality(Coming(u))
                + (IF Before(r, u)' THEN 1 ELSE 0) - (IF Before(r, u) THEN 1 ELSE 0)
          /\ Cardinality(Doing(u)') = Cardinality(Doing(u))
                + (IF DoneAt(r, u)' THEN 1 ELSE 0) - (IF DoneAt(r, u) THEN 1 ELSE 0)
      BY <1>0, <1>2, OnlyOneMoves
    <2> QED BY <1>2, <2>1
  <1>4. \A t \in Targets \ {u} : effect'[t] = effect[t] /\ mark'[t] = mark[t]
    BY <1>1 DEF RowFails, AnswerLost, Dies, Make, Set, TypeOK
  <1>5. /\ effect \in [Targets -> Nat] /\ mishaps \in Nat /\ Cardinality(Runners) \in Nat
        /\ mark \in [Targets -> {"none", "set", "moved"}]
    BY FS_CardinalityType DEF TypeOK
  <1>6. \/ mishaps' = mishaps + 1
        \/ mishaps' = mishaps /\ effect' = effect /\ ~DoneAt(r, u)
    BY <1>1 DEF RowFails, AnswerLost, Dies, Mishap, DoneAt
  <1>7. \/ effect'[u] = effect[u]
        \/ /\ effect'[u] = effect[u] + 1 /\ mishaps' = mishaps + 1
           /\ Before(r, u) /\ ~DoneAt(r, u) /\ kind # "renewal"
    <2>1. CASE effect' = effect
      BY <2>1
    <2>2. CASE effect' # effect
      <3>1. /\ AnswerLost(r) /\ Mishap /\ Make(r)
            /\ \/ At(r, "row", {"task", "survey", "invoice", "send"})
               \/ At(r, "act", {"issue"})
        BY <2>2 DEF RowFails, AnswerLost, Dies
      <3> QED BY <1>1, <1>5, <3>1 DEF Make, At, Mishap, Before, DoneAt
    <2> QED BY <2>1, <2>2
  <1>8. Served(u) => Served(u)'
    <2>1. mark[u] # "none" => mark'[u] # "none"
      BY <1>1, <1>5 DEF RowFails, AnswerLost, Dies, Set
    <2>2. effect[u] > 0 => effect'[u] > 0
      BY <1>5, <1>7
    <2> QED BY <1>0, <2>1, <2>2 DEF Served
  <1>9. Counted(u)'
    <2>1. Counted(u) /\ effect[u] \in Nat
      BY <1>5
    <2>2. Price' = (IF kind = "issue" THEN 0 ELSE mishaps') /\ Price = (IF kind = "issue" THEN 0 ELSE mishaps)
      BY <1>0 DEF Price
    <2>3. kind = "renewal" => effect'[u] = 0
      BY <1>7, <2>1 DEF Counted
    <2>4. ASSUME kind = "issue" => Seen(u)
          PROVE  effect'[u] + Cardinality(Coming(u)') <= Cardinality(Runners) + Price'
      <3>1. effect[u] + Cardinality(Coming(u)) <= Cardinality(Runners) + Price
        BY <2>1, <2>4 DEF Counted
      <3> QED BY <1>3, <1>5, <1>6, <1>7, <2>1, <2>2, <3>1
    <2>5. ASSUME kind \notin {"issue", "renewal"}, ~Served(u)'
          PROVE  effect'[u] <= Cardinality(Doing(u)') + mishaps'
      <3>1. effect[u] <= Cardinality(Doing(u)) + mishaps
        BY <1>8, <2>1, <2>5 DEF Counted
      <3> QED BY <1>3, <1>5, <1>6, <1>7, <2>1, <3>1
    <2> QED BY <1>0, <2>3, <2>4, <2>5 DEF Counted, Seen
  <1> QED BY <1>0, <1>1, <1>2, <1>4, <1>5, <1>6, <1>9, CountOnRow

\* Users and the clock: a window that ends is counted among the mishaps, and
\* an invoice in the ledger has its id on the deal.
LEMMA WorldCounted ==
    ASSUME TypeOK, Written, IsFiniteSet(Runners), \A t \in Targets : Counted(t), NEW u \in Targets,
           Change(u) \/ CloseIssue(u) \/ MoveStage(u) \/ WindowPasses(u)
    PROVE  \A t \in Targets : Counted(t)'
  <1> SUFFICES ASSUME NEW t \in Targets PROVE Counted(t)'
    OBVIOUS
  <1>1. pass' = pass /\ kind' = kind /\ kind \in Kinds
    BY DEF Change, CloseIssue, MoveStage, WindowPasses, TypeOK
  <1>2. /\ effect \in [Targets -> Nat] /\ mishaps \in Nat /\ mishaps' \in Nat /\ mishaps <= mishaps'
        /\ Cardinality(Runners) \in Nat
    BY FS_CardinalityType DEF TypeOK, Change, CloseIssue, MoveStage, WindowPasses, Mishap
  <1>3. Coming(t)' = Coming(t) /\ Doing(t)' = Doing(t)
    BY <1>1 DEF Coming, Before, Doing, DoneAt, Row
  <1>4. Cardinality(Coming(t)) \in Nat /\ Cardinality(Doing(t)) \in Nat
    BY FS_Subset, FS_CardinalityType DEF Coming, Doing
  <1>5. effect'[t] \in Nat /\ effect'[t] <= effect[t]
    BY <1>2 DEF Change, CloseIssue, MoveStage, WindowPasses, hist
  <1>6. kind \notin {"issue", "renewal"} /\ ~Served(t)' => ~Served(t) \/ effect'[t] = 0
    <2>1. CASE Change(u) \/ CloseIssue(u) \/ MoveStage(u)
      <3>1. kind \notin {"issue", "renewal"} => UNCHANGED <<ledger, mark, effect>>
        BY <2>1 DEF Change, CloseIssue, MoveStage
      <3> QED BY <1>1, <3>1 DEF Served
    <2>2. CASE WindowPasses(u)
      <3>1. ledger' = ledger \ {u} /\ mark' = mark
        BY <2>2 DEF WindowPasses
      <3>2. CASE kind \in {"task", "notify"}
        <4>1. effect' = [effect EXCEPT ![u] = 0]
          BY <2>2, <3>2 DEF WindowPasses
        <4> QED BY <1>1, <1>2, <3>1, <3>2, <4>1 DEF Served
      <3>3. CASE kind \notin {"task", "notify"}
        <4>1. effect' = effect
          BY <2>2, <3>3 DEF WindowPasses
        <4> QED BY <1>1, <3>1, <3>3, <4>1 DEF Served, Written, Kinds
      <3> QED BY <3>2, <3>3
    <2> QED BY <2>1, <2>2
  <1>7. Counted(t) /\ effect[t] \in Nat
    BY <1>2
  <1>8. Price \in Nat /\ Price' \in Nat /\ Price <= Price'
    BY <1>1, <1>2 DEF Price
  <1> QED BY <1>1, <1>2, <1>3, <1>4, <1>5, <1>6, <1>7, <1>8 DEF Counted

CountInv == Written /\ \A t \in Targets : Counted(t)

\* However often passes repeat and overlap, a target is served once per
\* instance and once per mishap at most; open issues do not even pay for those.
THEOREM DoublesDoNotPileUp ==
    ASSUME IsFiniteSet(Runners)
    PROVE  Spec => []ServedBounded
  <1>1. Init => CountInv
    <2> SUFFICES ASSUME Init PROVE CountInv
      OBVIOUS
    <2>1. Written
      BY DEF Init, IdlePass, Written
    <2>2. ASSUME NEW t \in Targets PROVE Counted(t)
      <3>1. /\ Cardinality(Runners) \in Nat /\ Cardinality(Coming(t)) <= Cardinality(Runners)
            /\ Cardinality(Coming(t)) \in Nat /\ Cardinality(Doing(t)) \in Nat
        BY ComingBounded, FS_Subset, FS_CardinalityType DEF Coming, Doing
      <3>2. effect[t] = 0 /\ mishaps = 0
        BY DEF Init
      <3> QED BY <3>1, <3>2 DEF Counted, Price
    <2> QED BY <2>1, <2>2 DEF CountInv
  <1>2. TypeOK /\ CountInv /\ [Next]_vars => CountInv'
    <2> SUFFICES ASSUME TypeOK, CountInv, [Next]_vars PROVE CountInv'
      OBVIOUS
    <2>1. Written /\ Written' /\ \A t \in Targets : Counted(t)
      BY WrittenStep DEF CountInv
    <2>2. CASE Next
      <3>1. \A t \in Targets : Counted(t)'
        BY <2>1, <2>2, ScanCounted, DeedCounted, RenewalCounted, WriteCounted, FailureCounted, WorldCounted
           DEF Next, Work
      <3> QED BY <2>1, <3>1 DEF CountInv
    <2>3. CASE UNCHANGED vars
      BY <2>1, <2>3 DEF vars, CountInv, Counted, Coming, Before, Doing, DoneAt, Row, Price, Served
    <2> QED BY <2>2, <2>3
  <1>3. TypeOK /\ CountInv => ServedBounded
    <2> SUFFICES ASSUME TypeOK, CountInv PROVE ServedBounded
      OBVIOUS
    <2>0. mishaps \in Nat /\ Cardinality(Runners) \in Nat
      BY FS_CardinalityType DEF TypeOK
    <2> SUFFICES ASSUME NEW t \in Targets, kind = "issue" => Seen(t)
                 PROVE  effect[t] <= Cardinality(Runners) + Price
      BY <2>0 DEF ServedBounded, Price
    <2>1. Counted(t) /\ effect[t] \in Nat /\ mishaps \in Nat
      BY DEF CountInv, TypeOK
    <2>2. Cardinality(Coming(t)) \in Nat /\ Cardinality(Runners) \in Nat
      BY FS_Subset, FS_CardinalityType DEF Coming
    <2>3. Price \in Nat
      BY <2>1 DEF Price
    <2>4. effect[t] + Cardinality(Coming(t)) <= Cardinality(Runners) + Price
      BY <2>1 DEF Counted
    <2> QED BY <2>1, <2>2, <2>3, <2>4
  <1> QED BY <1>1, <1>2, <1>3, AutomationTypeCorrect, PTL DEF Spec
=============================================================================
