------------------------- MODULE DripSequencesProps -------------------------
(***************************************************************************)
(* What the drip engine of DripSequences is supposed to guarantee.         *)
(***************************************************************************)
EXTENDS DripSequences

(* Every table and every snapshot keeps its shape. *)
TypeOK ==
    /\ seq \in [Seqs -> [state : {"new", "live", "deleted"}, is_active : BOOLEAN,
                         steps : StepLists \union {<<>>}]]
    /\ contact \in [Contacts -> {"mailable", "no_email", "deleted"}]
    /\ suppressed \subseteq Contacts
    /\ enr \in [Enrollments -> [status : {"absent", "active", "removed"} \union Terminal,
                                current_step : 0..MaxSteps, next_send_at : Times]]
    /\ tick \in [Workers ->
         [pc : {"idle", "loop", "loaded", "optedOut", "clear", "claimed", "recorded"},
          due : SUBSET Row, row : Row \union {NoRow}, steps : StepLists \union {<<>>}]]
    /\ sends \in [Enrollments -> [StepIndex -> Nat]]
    /\ mail \in [Enrollments -> [StepIndex -> Nat]]
    /\ notified \subseteq Enrollments
    /\ late \in [Contacts -> Nat]
    /\ faults \in 0..MaxFaults

\* Worker w has won the claim of step k of e and not yet finished its row.
Holds(w, e, k) ==
    /\ tick[w].pc \in {"claimed", "recorded"}
    /\ tick[w].row.e = e
    /\ tick[w].row.current_step = k

(* sequences.js:25-30, guardrail 2: however many ticks run at once, whatever
   is edited, stopped, deleted or lost under them, no step of an enrollment is
   recorded or accepted by the transport twice. *)
NoDoubleSend ==
    \A e \in Enrollments, k \in StepIndex : mail[e][k] <= 1 /\ sends[e][k] <= 1

\* A tick that handles a row has it, and past the first checks it has a step.
RowInv ==
    \A w \in Workers :
      /\ tick[w].pc \notin {"idle", "loop"} => tick[w].row \in Row
      /\ tick[w].pc \in {"optedOut", "clear", "claimed", "recorded"} => HasStep(w)

\* Only an active enrollment has a next send time.
NextInv ==
    \A e \in Enrollments : enr[e].status # "active" => enr[e].next_send_at = "null"

\* What was recorded or accepted lies below the enrollment's position.
SentInv ==
    \A e \in Enrollments :
      /\ enr[e].status = "absent" => enr[e].current_step = 0
      /\ \A k \in StepIndex :
            /\ sends[e][k] \in {0, 1}
            /\ mail[e][k] <= sends[e][k]
            /\ sends[e][k] = 1 => k < enr[e].current_step

\* A claimed step lies below the position too, has one holder, and nothing of
\* it is recorded or accepted before its holder does it.
HoldInv ==
    \A w \in Workers, e \in Enrollments, k \in StepIndex :
      Holds(w, e, k) =>
        /\ k < enr[e].current_step
        /\ mail[e][k] = 0
        /\ tick[w].pc = "claimed" => sends[e][k] = 0
        /\ tick[w].pc = "recorded" => sends[e][k] = 1
        /\ \A v \in Workers \ {w} : ~Holds(v, e, k)

(* Why NoDoubleSend holds: every step that was recorded, sent or claimed lies
   below current_step, and the claim's predicate only admits the step at
   current_step, so a stale snapshot cannot win it again. *)
ClaimInv == RowInv /\ NextInv /\ SentInv /\ HoldInv

(* sequences.js:293 "terminal states stay", and the claim's WHERE clause: an
   enrollment that completed, was stopped or was unsubscribed keeps status and
   position for good, also against ticks that still hold it in a snapshot; only
   a cascading delete removes it. *)
TerminalStays ==
    [][\A e \in Enrollments : enr[e].status \in Terminal =>
          \/ enr'[e] = enr[e]
          \/ enr'[e].status = "removed"]_vars

(* The opt-out is checked per row and not again before the transport call, so a
   mail can still leave after the recipient opted out; but each tick can be past
   the check with one row only.  After an opt-out a contact gets at most one
   message per tick that was running. *)
OptOutWindow == \A c \in Contacts : late[c] <= Cardinality(Workers)

(* The owner hears of a completion only for an enrollment that did complete. *)
NoticeMeansCompleted ==
    \A e \in notified : enr[e].status \in {"completed", "removed"}

\* Steps an enrollment has passed that were not mailed and that no tick has in
\* hand.  An enrollment that went with its sequence or contact is not counted.
Lost ==
    {d \in Enrollments \X StepIndex :
        /\ enr[d[1]].status # "removed" /\ d[2] < enr[d[1]].current_step
        /\ mail[d[1]][d[2]] = 0
        /\ \A w \in Workers : ~Holds(w, d[1], d[2])}

(* sequences.js:559-566, a step that was claimed and not mailed is consumed: the
   price of at most once.  It is paid for faults only, one step for each: no two
   ticks, stale snapshots, edits or opt-outs between them pass over a step. *)
LossesAreFaults == Cardinality(Lost) <= faults

Promise == INSTANCE DripPromise WITH
    status    <- [e \in Enrollments |-> enr[e].status],
    position  <- [e \in Enrollments |-> enr[e].current_step],
    delivered <- mail

(* The engine, tables, snapshots, faults and all, implements the life cycle of
   migration 133 with at-most-once delivery of each step. *)
KeepsPromise == Promise!PromiseSpec

-----------------------------------------------------------------------------
(* Liveness.  The scheduler keeps ticking (setInterval), a running tick keeps
   being scheduled, and time passes.  Users need not do anything. *)
Fairness ==
    /\ \A w \in Workers : WF_vars(StartTick(w)) /\ WF_vars(RowNext(w))
    /\ \A e \in Enrollments : WF_vars(DaysPass(e))

FairSpec == Spec /\ Fairness

(* An active enrollment does not stay where it is for ever while its sequence
   is active: the step is claimed, the enrollment ends, or somebody pauses or
   edits what it depends on. *)
Stuck(e, k) ==
    /\ enr[e].status = "active" /\ enr[e].current_step = k
    /\ seq[e[1]].is_active

Progress == \A e \in Enrollments, k \in StepIndex : ~ <>[]Stuck(e, k)
=============================================================================
