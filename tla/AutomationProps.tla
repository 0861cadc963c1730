-------------------------- MODULE AutomationProps --------------------------
(***************************************************************************)
(* What the rules of AutomationRules owe to the users of the CRM: a match  *)
(* is served, and it is served once, as far as the code sees to it.        *)
(***************************************************************************)
EXTENDS AutomationRules

\* Rows under way are targets, and a runner is at a step of the rule's kind.
TypeOK ==
    /\ kind \in Kinds
    /\ matches \in SUBSET Targets /\ ledger \in SUBSET Targets
    /\ effect \in [Targets -> Nat]
    /\ mark \in [Targets -> {"none", "set", "moved"}]
    /\ pass \in [Runners -> [pc : {"idle", "row", "act", "mark", "record"},
                             rows : SUBSET Targets]]
    /\ mishaps \in 0..MaxMishaps
    /\ overlapped \in SUBSET Targets /\ lost \in SUBSET Targets
    /\ \A r \in Runners :
          /\ pass[r].pc = "idle" <=> pass[r].rows = {}
          /\ Cardinality(pass[r].rows) <= Limit
          /\ pass[r].pc = "act" => kind \in {"issue", "renewal"}
          /\ pass[r].pc = "mark" => kind \in {"invoice", "send"}

\* automation.js:10-11, the ledger: one target is served twice in a window only
\* if two passes held it at one time, or a pass served it and its record was
\* lost, or it has an issue open that an earlier window knew of.  Nothing else,
\* neither the order of rows nor edits of the target while a pass holds it,
\* makes a second task, invoice, invitation or mail.
FiredOnce == \A t \in Targets : effect[t] > 1 => t \in overlapped \union lost

\* Targets of which an open issue is found when it is asked for.
Seen(t) == t \notin Orgless \union Retitled

\* automation.js:75-77, "defence in depth on top of automation_runs deduping":
\* where the question can find an issue, neither a lost record nor the end of a
\* window piles them up, whatever is retried; two open ones need two passes on
\* one deal.  Without an org, or under another title, the question finds none.
IssuesOnlyByOverlap ==
    kind = "issue" => \A t \in Targets : Seen(t) /\ effect[t] > 1 => t \in overlapped

\* Rows that take a place in the scan and are never served: broken ones, and
\* contracts moved back to upcoming after their rule fired.
Blocking ==
    {t \in Due : t \in Broken \/ (kind = "renewal" /\ t \in ledger)}

\* automation.js:32-38, "rows past the limit aren't starved": as long as the
\* rows that fail for ever are fewer than the LIMIT, a target that goes on
\* matching does not go on unserved.
Waiting(t) == t \in Due \ Blocking /\ Cardinality(Blocking) < Limit

EveryMatchServed == \A t \in Targets : ~ <>[]Waiting(t)

\* quickbooks.js:225-226 and migration 045:50: the invoice id is stored on the
\* deal "so we don't double-fire".
OneInvoicePerDeal == kind = "invoice" => \A t \in Targets : effect[t] <= 1

(* automation.js:938-972, what the missing lease costs at worst: a target is
   served at most once by each instance, and once more for every mishap, be it a
   failure or a window that ended; open issues, where they are found when asked
   for, stay within the number of instances.  However often the passes repeat,
   doubles do not pile up.  (Of a deal without an org, or renamed, every window
   and every lost record may leave another open issue.) *)
ServedBounded ==
    \A t \in Targets :
        /\ kind # "issue" => effect[t] <= Cardinality(Runners) + mishaps
        /\ kind = "issue" /\ Seen(t) => effect[t] <= Cardinality(Runners)
=============================================================================
