---------------------------- MODULE DripSequences ----------------------------
(***************************************************************************)
(* The e-mail sequence ("drip") engine: services/sequences.js with the     *)
(* tables of migrations 132/133.  Users create, edit, pause and delete     *)
(* sequences, enroll contacts and stop enrollments; several worker ticks   *)
(* run processDueEnrollments at the same time.  A tick takes a snapshot of *)
(* the due enrollments and then handles its rows one by one, with an await *)
(* between the statements of each row: everything below that is called a   *)
(* row or a step list of a tick is such a snapshot and may be stale.       *)
(*                                                                         *)
(* A step list is the sequence of its delay_days; a step is known by its   *)
(* position, its text is left out.  A time is "due" (<= NOW()), "later"    *)
(* or "null".                                                              *)
(***************************************************************************)
EXTENDS Naturals, Sequences, FiniteSets

CONSTANTS
    Seqs,             \* sequence ids
    Contacts,         \* contact ids, each with an address of its own
    Workers,          \* ticks that may run at the same time
    StepLists,        \* the step lists a user may save
    MaxSteps,         \* normalizeSteps' cap on the length of a list
    MaxPerRun,        \* the due scan's LIMIT
    EmailConfigured,  \* email.isConfigured()
    MaxFaults,        \* bound: failing statements, failing sends, crashes
    NoRow             \* a tick between two rows

Enrollments == Seqs \X Contacts
StepIndex   == 0..(MaxSteps - 1)
Terminal    == {"completed", "stopped", "unsubscribed"}
Times       == {"due", "later", "null"}
Row         == [e : Enrollments, current_step : 0..MaxSteps, mailable : BOOLEAN]

ASSUME ConstantsAssumption ==
    /\ MaxSteps \in Nat \ {0} /\ MaxPerRun \in Nat \ {0} /\ MaxFaults \in Nat
    /\ StepLists \subseteq {l \in Seq(Nat) : Len(l) <= MaxSteps}
    /\ EmailConfigured \in BOOLEAN
    /\ NoRow \notin Row

VARIABLES
    seq,        \* sequences + sequence_steps, by sequence
    contact,    \* what the contacts table says of each contact's address
    suppressed, \* contacts whose address has a confirmed opt-out
    enr,        \* sequence_enrollments, by (sequence, contact)
    tick,       \* each worker's program counter and snapshots
    sends,      \* rows of email_sends, by enrollment and step
    mail,       \* messages the transport accepted, by enrollment and step
    notified,   \* enrollments whose owner was told that they completed
    late,       \* history: messages accepted after the contact's opt-out
    faults      \* faults so far

db   == <<seq, contact, suppressed>>
out  == <<sends, mail, notified, late>>
vars == <<seq, contact, suppressed, enr, tick, sends, mail, notified, late, faults>>

IdleTick == [pc |-> "idle", due |-> {}, row |-> NoRow, steps |-> <<>>]

Init ==
    /\ seq = [s \in Seqs |-> [state |-> "new", is_active |-> FALSE, steps |-> <<>>]]
    /\ contact = [c \in Contacts |-> "mailable"]
    /\ suppressed = {}
    /\ enr = [e \in Enrollments |->
                [status |-> "absent", current_step |-> 0, next_send_at |-> "null"]]
    /\ tick = [w \in Workers |-> IdleTick]
    /\ sends = [e \in Enrollments |-> [k \in StepIndex |-> 0]]
    /\ mail = [e \in Enrollments |-> [k \in StepIndex |-> 0]]
    /\ notified = {}
    /\ late = [c \in Contacts |-> 0]
    /\ faults = 0

-----------------------------------------------------------------------------
(* What the users and the recipients do.                                   *)

\* NOW() + delay_days
After(delay) == IF delay = 0 THEN "due" ELSE "later"

CreateSequence(s, active, l) ==
    /\ seq[s].state = "new"
    /\ seq' = [seq EXCEPT ![s] = [state |-> "live", is_active |-> active, steps |-> l]]
    /\ UNCHANGED <<contact, suppressed, enr, tick, out, faults>>

\* Mutant of UpdateSequence: the new steps are inserted, the old ones kept.
UpdateAppends(s, active, l) ==
    /\ seq[s].state = "live"
    /\ seq' = [seq EXCEPT ![s].is_active = active, ![s].steps = @ \o l]
    /\ UNCHANGED <<contact, suppressed, enr, tick, out, faults>>

\* name aside, the patch sets is_active and replaces the whole step list; an
\* omitted part keeps its value.  Enrollments keep their index.
UpdateSequence(s, active, l) ==
    /\ seq[s].state = "live"
    /\ seq' = [seq EXCEPT ![s].is_active = active, ![s].steps = l]
    /\ UNCHANGED <<contact, suppressed, enr, tick, out, faults>>

\* ON DELETE CASCADE: the enrollments in E go with their parent row.
CascadeDelete(E) ==
    enr' = [e \in Enrollments |->
              IF e \in E /\ enr[e].status # "absent"
              THEN [enr[e] EXCEPT !.status = "removed", !.next_send_at = "null"]
              ELSE enr[e]]

DeleteSequence(s) ==
    /\ seq[s].state = "live"
    /\ seq' = [seq EXCEPT ![s] = [state |-> "deleted", is_active |-> FALSE, steps |-> <<>>]]
    /\ CascadeDelete({s} \X Contacts)
    /\ UNCHANGED <<contact, suppressed, tick, out, faults>>

\* Mutant of Enroll: without the UNIQUE constraint an ended contact restarts.
EnrollAgain(s, l, C) ==
    /\ seq[s].state = "live"
    /\ l # <<>>
    /\ enr' = [e \in Enrollments |->
                IF /\ e \in {s} \X C /\ contact[e[2]] # "deleted"
                   /\ enr[e].status \in Terminal \union {"absent"}
                THEN [status |-> "active", current_step |-> 0, next_send_at |-> After(Head(l))]
                ELSE enr[e]]
    /\ UNCHANGED <<db, tick, out, faults>>

\* The INSERT of an enroll that has read list l of the sequence in a SELECT of
\* its own.  The list may have been replaced since, and as users may save any
\* list at any time, l may be any.  A list without steps is refused, a paused
\* sequence is not; contacts that are enrolled already (in whatever status) are
\* skipped.  (The sequence deleted since: the INSERT throws.)
Enroll(s, l, C) ==
    /\ seq[s].state = "live"
    /\ l # <<>>
    /\ enr' = [e \in Enrollments |->
                IF e \in {s} \X C /\ contact[e[2]] # "deleted" /\ enr[e].status = "absent"
                THEN [status |-> "active", current_step |-> 0, next_send_at |-> After(Head(l))]
                ELSE enr[e]]
    /\ UNCHANGED <<db, tick, out, faults>>

\* Mutant of EndEnrollment: no status guard.
EndUnguarded(e, status) ==
    enr' = [enr EXCEPT ![e].status = status, ![e].next_send_at = "null"]

\* UPDATE ... WHERE id = e AND status = 'active': a terminal status stays.
EndEnrollment(e, status) ==
    enr' = IF enr[e].status = "active"
           THEN [enr EXCEPT ![e].status = status, ![e].next_send_at = "null"]
           ELSE enr

Stop(e) ==
    /\ enr[e].status = "active"
    /\ EndEnrollment(e, "stopped")
    /\ UNCHANGED <<db, tick, out, faults>>

EditContact(c) ==
    /\ contact[c] # "deleted"
    /\ contact' = [contact EXCEPT ![c] = IF @ = "mailable" THEN "no_email" ELSE "mailable"]
    /\ UNCHANGED <<seq, suppressed, enr, tick, out, faults>>

DeleteContact(c) ==
    /\ contact[c] # "deleted"
    /\ contact' = [contact EXCEPT ![c] = "deleted"]
    /\ CascadeDelete(Seqs \X {c})
    /\ UNCHANGED <<seq, suppressed, tick, out, faults>>

\* The recipient follows an unsubscribe link: permanent, and not told to the
\* enrollments.
Unsubscribe(c) ==
    /\ c \notin suppressed
    /\ suppressed' = suppressed \union {c}
    /\ UNCHANGED <<seq, contact, enr, tick, out, faults>>

DaysPass(e) ==
    /\ enr[e].next_send_at = "later"
    /\ enr' = [enr EXCEPT ![e].next_send_at = "due"]
    /\ UNCHANGED <<db, tick, out, faults>>

-----------------------------------------------------------------------------
(* One tick: processDueEnrollments and, row by row, processOneEnrollment.  *)

DueRows ==
    {[e |-> e, current_step |-> enr[e].current_step,
      mailable |-> contact[e[2]] = "mailable"] :
        e \in {d \in Enrollments : /\ enr[d].status = "active"
                                   /\ enr[d].next_send_at = "due"
                                   /\ seq[d[1]].is_active}}

\* The due scan.  ORDER BY next_send_at LIMIT maxPerRun may pick any rows
\* here, since every due time is just "due".
StartTick(w) ==
    /\ tick[w].pc = "idle"
    /\ EmailConfigured
    /\ \E R \in SUBSET DueRows :
          /\ R # {}
          /\ Cardinality(R) <= MaxPerRun
          /\ R = DueRows \/ Cardinality(R) = MaxPerRun
          /\ tick' = [tick EXCEPT ![w] =
                [pc |-> "loop", due |-> R, row |-> NoRow, steps |-> <<>>]]
    /\ UNCHANGED <<db, enr, out, faults>>

FinishTick(w) ==
    /\ tick[w].pc = "loop"
    /\ tick[w].due = {}
    /\ tick' = [tick EXCEPT ![w] = IdleTick]
    /\ UNCHANGED <<db, enr, out, faults>>

Goto(w, pc) == tick' = [tick EXCEPT ![w].pc = pc]

\* processOneEnrollment returned or threw: on to the next row.
NextRow(w) ==
    tick' = [tick EXCEPT ![w] = [@ EXCEPT !.pc = "loop", !.row = NoRow, !.steps = <<>>]]

LoadSteps(w) ==
    /\ tick[w].pc = "loop"
    /\ \E r \in tick[w].due :
          tick' = [tick EXCEPT ![w] = [pc |-> "loaded", due |-> @.due \ {r}, row |-> r,
                                       steps |-> seq[r.e[1]].steps]]
    /\ UNCHANGED <<db, enr, out, faults>>

HasStep(w) == tick[w].row.current_step < Len(tick[w].steps)
HasNext(w) == tick[w].row.current_step + 1 < Len(tick[w].steps)

\* No step at this index (the list was edited): nothing left to send.
CompleteEmpty(w) ==
    /\ tick[w].pc = "loaded"
    /\ ~HasStep(w)
    /\ EndEnrollment(tick[w].row.e, "completed")
    /\ NextRow(w)
    /\ UNCHANGED <<db, out, faults>>

\* Mutant of StopNoEmail: the row is skipped and the enrollment left due.
SkipNoEmail(w) ==
    /\ tick[w].pc = "loaded"
    /\ HasStep(w)
    /\ ~tick[w].row.mailable
    /\ NextRow(w)
    /\ UNCHANGED <<db, enr, out, faults>>

\* The contact had no address when the tick started.
StopNoEmail(w) ==
    /\ tick[w].pc = "loaded"
    /\ HasStep(w)
    /\ ~tick[w].row.mailable
    /\ EndEnrollment(tick[w].row.e, "stopped")
    /\ NextRow(w)
    /\ UNCHANGED <<db, out, faults>>

\* Mutant of CheckSuppression: no check.
CheckNothing(w) ==
    /\ tick[w].pc = "loaded"
    /\ HasStep(w)
    /\ tick[w].row.mailable
    /\ Goto(w, "clear")
    /\ UNCHANGED <<db, enr, out, faults>>

CheckSuppression(w) ==
    /\ tick[w].pc = "loaded"
    /\ HasStep(w)
    /\ tick[w].row.mailable
    /\ Goto(w, IF tick[w].row.e[2] \in suppressed THEN "optedOut" ELSE "clear")
    /\ UNCHANGED <<db, enr, out, faults>>

FlipUnsubscribed(w) ==
    /\ tick[w].pc = "optedOut"
    /\ EndEnrollment(tick[w].row.e, "unsubscribed")
    /\ NextRow(w)
    /\ UNCHANGED <<db, out, faults>>

\* Mutant of ClaimMatches: without "AND current_step = <expected>".
ClaimMatchesAnyStep(e, step) == enr[e].status = "active"

\* The predicate of the atomic advance.
ClaimMatches(e, step) ==
    /\ enr[e].status = "active"
    /\ enr[e].current_step = step

ClaimStep(w) ==
    /\ tick[w].pc = "clear"
    /\ LET e == tick[w].row.e
           k == tick[w].row.current_step
       IN  /\ ClaimMatches(e, k)
           /\ enr' = [enr EXCEPT ![e] =
                IF HasNext(w)
                THEN [status |-> "active", current_step |-> @.current_step + 1,
                      next_send_at |-> After(tick[w].steps[k + 2])]
                ELSE [status |-> "completed", current_step |-> @.current_step + 1,
                      next_send_at |-> "null"]]
    /\ Goto(w, "claimed")
    /\ UNCHANGED <<db, out, faults>>

\* Somebody else sent this step, or the enrollment ended.
LoseClaim(w) ==
    /\ tick[w].pc = "clear"
    /\ ~ClaimMatches(tick[w].row.e, tick[w].row.current_step)
    /\ NextRow(w)
    /\ UNCHANGED <<db, enr, out, faults>>

\* Both rows below are inserted under foreign keys.
ParentsExist(e) == seq[e[1]].state = "live" /\ contact[e[2]] # "deleted"

\* The unsubscribe token and the email_sends row.
RecordSend(w) ==
    /\ tick[w].pc = "claimed"
    /\ ParentsExist(tick[w].row.e)
    /\ sends' = [sends EXCEPT ![tick[w].row.e][tick[w].row.current_step] = @ + 1]
    /\ Goto(w, "recorded")
    /\ UNCHANGED <<db, enr, mail, notified, late, faults>>

\* The contact or the sequence was deleted since the claim: the INSERT throws.
RecordViolatesKey(w) ==
    /\ tick[w].pc = "claimed"
    /\ ~ParentsExist(tick[w].row.e)
    /\ NextRow(w)
    /\ UNCHANGED <<db, enr, out, faults>>

\* Mutant of NotifyIfLast: told after every step.
NotifyAlways(w) == notified' = notified \union {tick[w].row.e}

\* After the send, failed or not, the owner is told if it was the last step.
NotifyIfLast(w) ==
    notified' = IF HasNext(w) THEN notified ELSE notified \union {tick[w].row.e}

Transport(w) ==
    /\ tick[w].pc = "recorded"
    /\ LET e == tick[w].row.e
       IN  /\ mail' = [mail EXCEPT ![e][tick[w].row.current_step] = @ + 1]
           /\ late' = IF e[2] \in suppressed THEN [late EXCEPT ![e[2]] = @ + 1] ELSE late
    /\ NotifyIfLast(w)
    /\ NextRow(w)
    /\ UNCHANGED <<db, enr, sends, faults>>

Fault == faults < MaxFaults /\ faults' = faults + 1

\* sendMail rejects: logged, and the step counts as consumed.
TransportFails(w) ==
    /\ tick[w].pc = "recorded"
    /\ Fault
    /\ NotifyIfLast(w)
    /\ NextRow(w)
    /\ UNCHANGED <<db, enr, sends, mail, late>>

\* A statement of the row throws: counted as failed, the loop goes on.  (A
\* statement that commits and then throws is that statement followed by this.)
RowThrows(w) ==
    /\ tick[w].pc \in {"loaded", "optedOut", "clear", "claimed"}
    /\ Fault
    /\ NextRow(w)
    /\ UNCHANGED <<db, enr, out>>

\* The process dies with its snapshots.
Crash(w) ==
    /\ tick[w].pc # "idle"
    /\ Fault
    /\ tick' = [tick EXCEPT ![w] = IdleTick]
    /\ UNCHANGED <<db, enr, out>>

-----------------------------------------------------------------------------
UserNext ==
    \/ \E s \in Seqs, active \in BOOLEAN, l \in StepLists : CreateSequence(s, active, l)
    \/ \E s \in Seqs, active \in BOOLEAN :
          \E l \in StepLists \union {seq[s].steps} : UpdateSequence(s, active, l)
    \/ \E s \in Seqs : DeleteSequence(s)
    \/ \E s \in Seqs, l \in StepLists : \E C \in SUBSET Contacts : Enroll(s, l, C)
    \/ \E e \in Enrollments : Stop(e)
    \/ \E c \in Contacts : EditContact(c)
    \/ \E c \in Contacts : DeleteContact(c)
    \/ \E c \in Contacts : Unsubscribe(c)
    \/ \E e \in Enrollments : DaysPass(e)

RowNext(w) ==
    \/ LoadSteps(w)
    \/ CompleteEmpty(w)
    \/ StopNoEmail(w)
    \/ CheckSuppression(w)
    \/ FlipUnsubscribed(w)
    \/ ClaimStep(w)
    \/ LoseClaim(w)
    \/ RecordSend(w)
    \/ RecordViolatesKey(w)
    \/ Transport(w)
    \/ FinishTick(w)

FaultNext(w) == TransportFails(w) \/ RowThrows(w) \/ Crash(w)

Next ==
    \/ UserNext
    \/ \E w \in Workers : StartTick(w) \/ RowNext(w) \/ FaultNext(w)

Spec == Init /\ [][Next]_vars
=============================================================================
