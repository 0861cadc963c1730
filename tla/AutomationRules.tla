-------------------------- MODULE AutomationRules --------------------------
(***************************************************************************)
(* The triggered-automation engine, services/automation.js: every instance *)
(* and every POST /automation/run executes runAll, with no lease and no    *)
(* guard against overlap.  A rule scans for at most Limit targets that     *)
(* match and were not served yet, acts on each and records the run in      *)
(* automation_runs; a row whose statement throws is skipped unrecorded,    *)
(* and found again by the next pass.                                       *)
(*                                                                         *)
(* Rules touch disjoint rows of the ledger, so one rule is followed.  Its  *)
(* kind is any of the engine's and chosen initially:                       *)
(*   "task"     createTaskForOrg: quote_expiring_7d, case_sla_breach,      *)
(*              dormant_customer_outreach, service_contract_renewal_due,   *)
(*              create_task of user rules                                  *)
(*   "issue"    ensureIssueForDeal: vendor_rfq_30d_stale,                  *)
(*              hot_deal_stale_7d, commission_payable_30d (two quotes of   *)
(*              one vendor on one deal, which share an issue, left out)    *)
(*   "invoice"  qb_create_invoice_on_invoiced                              *)
(*   "survey"   invoiced_queue_survey                                      *)
(*   "send"     survey_send_pending                                        *)
(*   "renewal"  service_contract_renewal_at_risk                           *)
(*   "notify"   notify of user rules                                       *)
(* set_hot_flag, which may be repeated without harm, is left out.          *)
(***************************************************************************)
EXTENDS Naturals, FiniteSets, FiniteSetsExt

CONSTANTS
    Runners,    \* passes that may be under way at the same time
    NumTargets, \* rows the rule may match, numbered by id
    Limit,      \* LIMIT of the scan
    Broken,     \* rows that match and on which the rule's statement always fails
    Orgless,    \* rows whose org_id is NULL
    Retitled,   \* rows whose title, or vendor's name, users edit at times
    MaxMishaps  \* bound: failing statements, dying processes and dedupe windows
                \* that pass

Targets == 1..NumTargets
Kinds   == {"task", "issue", "invoice", "survey", "send", "renewal", "notify"}

ASSUME AutomationAssumption ==
    /\ NumTargets \in Nat \ {0} /\ Limit \in Nat \ {0}
    /\ Broken \subseteq Targets /\ Orgless \union Retitled \subseteq Targets
    /\ MaxMishaps \in Nat

VARIABLES
    kind,       \* the rule's kind
    matches,    \* targets that meet the rule's condition
    ledger,     \* targets with a row in automation_runs inside the window
    effect,     \* tasks, open issues, invoices, invitations, mails per target
    mark,       \* the target's own column: qb_invoice_id, sent_at, renewal_stage
    pass,       \* each runner: program counter and rows still to handle
    mishaps,    \* so far
    overlapped, \* history: targets that two passes held at one time
    lost        \* history: targets served, of which the ledger does not tell
                \* (any more)

hist == <<overlapped, lost>>
vars == <<kind, matches, ledger, effect, mark, pass, mishaps, hist>>

IdlePass == [pc |-> "idle", rows |-> {}]

Init ==
    /\ kind \in Kinds
    /\ matches = Broken
    /\ ledger = {}
    /\ effect = [t \in Targets |-> 0]
    /\ mark = [t \in Targets |-> "none"]
    /\ pass = [r \in Runners |-> IdlePass]
    /\ mishaps = 0
    /\ overlapped = {} /\ lost = {}

\* Rows are handled in the order of their ids.
Row(r) == Min(pass[r].rows)

Goto(r, pc) == pass' = [pass EXCEPT ![r] = [pc |-> pc, rows |-> pass[r].rows]]

NextRow(r) ==
    LET rest == pass[r].rows \ {Row(r)}
    IN  pass' = [pass EXCEPT ![r] =
                    IF rest = {} THEN IdlePass ELSE [pc |-> "row", rows |-> rest]]

Mishap == mishaps < MaxMishaps /\ mishaps' = mishaps + 1

At(r, pc, kinds) == pass[r].pc = pc /\ kind \in kinds

-----------------------------------------------------------------------------
(* The scan.                                                               *)

\* Mutant of Served: the ledger is not asked.
ServedByMark(t) ==
    CASE kind \in {"invoice", "send", "renewal"} -> mark[t] # "none"
      [] kind = "survey" -> effect[t] > 0
      [] OTHER -> FALSE

\* What the scan's WHERE excludes: NOT EXISTS over automation_runs or over
\* survey_invitations, or the target's own column.
Served(t) ==
    CASE kind = "invoice" -> t \in ledger \/ mark[t] # "none"
      [] kind \in {"send", "renewal"} -> mark[t] # "none"
      [] kind = "survey" -> effect[t] > 0
      [] OTHER -> t \in ledger

Due == {t \in matches : ~Served(t)}

\* Mutant of Batches: no LIMIT.
BatchOfDue == {Due}

\* Mutant of Batches: the ledger is asked after the LIMIT.
BatchesOfAll ==
    {b \in SUBSET Due : \A t \in b : Cardinality({u \in matches : u < t}) < Limit}

\* ORDER BY id LIMIT n; survey_send_pending has no ORDER BY.
Batches ==
    {b \in SUBSET Due :
        /\ Cardinality(b) = Min({Limit, Cardinality(Due)})
        /\ kind # "send" => \A t \in b, u \in Due \ b : t < u}

Scan(r) ==
    /\ pass[r].pc = "idle"
    /\ \E b \in Batches \ {{}} :
          /\ pass' = [pass EXCEPT ![r] = [pc |-> "row", rows |-> b]]
          /\ overlapped' = overlapped \union
                           (b \intersect UNION {pass[o].rows : o \in Runners \ {r}})
    /\ UNCHANGED <<kind, matches, ledger, effect, mark, mishaps, lost>>

-----------------------------------------------------------------------------
(* What the rule does to one row, statement by statement.                  *)

\* What the statement at hand leaves behind.
Make(r)  == effect' = [effect EXCEPT ![Row(r)] = effect[Row(r)] + 1]
Set(r)   == mark' = [mark EXCEPT ![Row(r)] = "set"]
Enter(r) == ledger' = ledger \union {Row(r)}

Works(r) == Row(r) \notin Broken

MakeTask(r) ==
    /\ At(r, "row", {"task", "survey"}) /\ Works(r)
    /\ Make(r)
    /\ Goto(r, "record")
    /\ UNCHANGED <<kind, matches, ledger, mark, mishaps, hist>>

\* Mutant of AskIssue: every run makes its issue.
AskNothing(r) ==
    /\ At(r, "row", {"issue"})
    /\ Goto(r, "act")
    /\ UNCHANGED <<kind, matches, ledger, effect, mark, mishaps, hist>>

\* ensureIssueForDeal asks for an open issue with the row's org_id and title.
\* NULL equals nothing, so without an org none is found; and where the title is
\* edited an open one may have that of the row or another.
Answers(t) ==
    IF effect[t] = 0 \/ t \in Orgless THEN {FALSE}
    ELSE IF t \in Retitled THEN {TRUE, FALSE} ELSE {TRUE}

AskIssue(r) ==
    /\ At(r, "row", {"issue"})
    /\ \E found \in Answers(Row(r)) : Goto(r, IF found THEN "record" ELSE "act")
    /\ UNCHANGED <<kind, matches, ledger, effect, mark, mishaps, hist>>

MakeIssue(r) ==
    /\ At(r, "act", {"issue"}) /\ Works(r)
    /\ Make(r)
    /\ Goto(r, "record")
    /\ UNCHANGED <<kind, matches, ledger, mark, mishaps, hist>>

\* createInvoiceForDeal, or the mail of a survey.  The row in hand was scanned
\* without qb_invoice_id, so the check for one at its head never fires.
PostInvoiceOrMail(r) ==
    /\ At(r, "row", {"invoice", "send"}) /\ Works(r)
    /\ Make(r)
    /\ Goto(r, "mark")
    /\ UNCHANGED <<kind, matches, ledger, mark, mishaps, hist>>

\* qb_invoice_id, or sent_at, which ends the row: no run is recorded for it.
StoreMark(r) ==
    /\ At(r, "mark", {"invoice", "send"})
    /\ Set(r)
    /\ IF kind = "send" THEN NextRow(r) ELSE Goto(r, "record")
    /\ UNCHANGED <<kind, matches, ledger, effect, mishaps, hist>>

\* alreadyFired of the renewal rule, outside the scan.
AlreadyFired(r) ==
    /\ At(r, "row", {"renewal"})
    /\ IF Row(r) \in ledger THEN NextRow(r) ELSE Goto(r, "act")
    /\ UNCHANGED <<kind, matches, ledger, effect, mark, mishaps, hist>>

\* The UPDATE asks for the stage again; the run is recorded either way.
FlipStage(r) ==
    /\ At(r, "act", {"renewal"}) /\ Works(r)
    /\ IF mark[Row(r)] = "none" THEN Set(r) ELSE UNCHANGED mark
    /\ Goto(r, "record")
    /\ UNCHANGED <<kind, matches, ledger, effect, mishaps, hist>>

\* A failing notification is swallowed, and the run recorded.
Notify(r) ==
    /\ At(r, "row", {"notify"})
    /\ (Works(r) /\ Make(r)) \/ UNCHANGED effect
    /\ Goto(r, "record")
    /\ UNCHANGED <<kind, matches, ledger, mark, mishaps, hist>>

RecordRun(r) ==
    /\ pass[r].pc = "record"
    /\ Enter(r)
    /\ NextRow(r)
    /\ UNCHANGED <<kind, matches, effect, mark, mishaps, hist>>

-----------------------------------------------------------------------------
(* Failures.  "mark" and "record" come after the deed.                     *)

Lose(r) == lost' = IF pass[r].pc \in {"mark", "record"} THEN lost \union {Row(r)} ELSE lost

\* A statement fails without effect; on a broken row the rule's own always does.
\* Where a pass asks alreadyFired, outside the try, an error ends the pass (Dies);
\* what a notification throws is swallowed.
RowFails(r) ==
    /\ pass[r].pc # "idle" /\ ~At(r, "row", {"renewal", "notify"})
    /\ IF ~Works(r) /\ pass[r].pc \in {"row", "act"}
       THEN UNCHANGED mishaps
       ELSE Mishap
    /\ Lose(r)
    /\ NextRow(r)
    /\ UNCHANGED <<kind, matches, ledger, effect, mark, overlapped>>

\* A statement is committed, and its answer lost.
AnswerLost(r) ==
    /\ Mishap
    /\ \/ /\ \/ At(r, "row", {"task", "survey", "invoice", "send"})
             \/ At(r, "act", {"issue"})
          /\ Works(r) /\ Make(r)
          /\ lost' = lost \union {Row(r)}
          /\ UNCHANGED <<ledger, mark>>
       \/ /\ \/ pass[r].pc = "mark"
             \/ At(r, "act", {"renewal"}) /\ Works(r) /\ mark[Row(r)] = "none"
          /\ Set(r)
          /\ UNCHANGED <<ledger, effect, lost>>
       \/ /\ pass[r].pc = "record" /\ Enter(r)
          /\ UNCHANGED <<effect, mark, lost>>
    /\ NextRow(r)
    /\ UNCHANGED <<kind, matches, overlapped>>

\* The process dies, or the pass over this rule throws.
Dies(r) ==
    /\ pass[r].pc # "idle"
    /\ Mishap
    /\ Lose(r)
    /\ pass' = [pass EXCEPT ![r] = IdlePass]
    /\ UNCHANGED <<kind, matches, ledger, effect, mark, overlapped>>

-----------------------------------------------------------------------------
(* The world around the engine.                                            *)

\* Users edit a target so that it matches, or no longer does.
Change(t) ==
    /\ t \notin Broken
    /\ matches' = IF t \in matches THEN matches \ {t} ELSE matches \union {t}
    /\ UNCHANGED <<kind, ledger, effect, mark, pass, mishaps, hist>>

\* An issue is resolved.
CloseIssue(t) ==
    /\ kind = "issue" /\ effect[t] > 0
    /\ effect' = [effect EXCEPT ![t] = effect[t] - 1]
    /\ UNCHANGED <<kind, matches, ledger, mark, pass, mishaps, hist>>

\* A user drags a renewal to another stage, or back to upcoming.
MoveStage(t) ==
    /\ kind = "renewal"
    /\ mark' = [mark EXCEPT ![t] = IF mark[t] = "moved" THEN "none" ELSE "moved"]
    /\ UNCHANGED <<kind, matches, ledger, effect, pass, mishaps, hist>>

\* The dedupe window of a target ends, 7 days at least, which no pass lasts.
\* What was made in it is no longer counted.  Invoices are known by their mark
\* all the same, and of an issue that is still open the ledger does not tell.
WindowPasses(t) ==
    /\ t \in ledger /\ \A r \in Runners : t \notin pass[r].rows
    /\ Mishap
    /\ ledger' = ledger \ {t}
    /\ IF kind \in {"task", "notify"}
       THEN /\ effect' = [effect EXCEPT ![t] = 0]
            /\ overlapped' = overlapped \ {t} /\ lost' = lost \ {t}
       ELSE /\ lost' = IF kind = "issue" /\ effect[t] > 0 THEN lost \union {t} ELSE lost
            /\ UNCHANGED <<effect, overlapped>>
    /\ UNCHANGED <<kind, matches, mark, pass>>

-----------------------------------------------------------------------------
Work(r) ==
    \/ MakeTask(r)
    \/ AskIssue(r)
    \/ MakeIssue(r)
    \/ PostInvoiceOrMail(r)
    \/ StoreMark(r)
    \/ AlreadyFired(r)
    \/ FlipStage(r)
    \/ Notify(r)
    \/ RecordRun(r)

Next ==
    \/ \E r \in Runners : Scan(r) \/ Work(r) \/ RowFails(r) \/ AnswerLost(r) \/ Dies(r)
    \/ \E t \in Targets : Change(t) \/ CloseIssue(t) \/ MoveStage(t) \/ WindowPasses(t)

Spec == Init /\ [][Next]_vars

\* The scheduler starts pass after pass, and a pass handles row after row.  A
\* row that is broken fails in its turn.
Fairness == \A r \in Runners : WF_vars(Scan(r)) /\ WF_vars(Work(r) \/ RowFails(r))

FairSpec == Spec /\ Fairness
=============================================================================
