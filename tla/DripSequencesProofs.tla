------------------------- MODULE DripSequencesProofs -------------------------
(***************************************************************************)
(* Proofs, for any sets of sequences, contacts and workers and any number  *)
(* of faults, of the safety properties of DripSequencesProps.              *)
(***************************************************************************)
EXTENDS DripSequencesProps, FiniteSetTheorems, TLAPS

\* The inductive invariant.
IInv == TypeOK /\ ClaimInv

-----------------------------------------------------------------------------
(* The pieces actions share: what they do to one variable.                 *)

LEMMA Constants ==
    /\ MaxSteps \in Nat \ {0}
    /\ \A l \in StepLists \union {<<>>} : l \in Seq(Nat) /\ Len(l) \in 0..MaxSteps
    /\ NoRow \notin Row
<1>1. ASSUME NEW l \in StepLists
      PROVE  l \in Seq(Nat) /\ Len(l) \in 0..MaxSteps
  BY ConstantsAssumption DEF ConstantsAssumption
<1>2. <<>> \in Seq(Nat) /\ Len(<<>>) \in 0..MaxSteps
  BY ConstantsAssumption DEF ConstantsAssumption
<1> QED
  BY <1>1, <1>2, ConstantsAssumption DEF ConstantsAssumption

(* A guarded status update keeps the table's shape and moves no position. *)
LEMMA EndKeepsType ==
    ASSUME TypeOK, NEW e \in Enrollments, NEW st \in Terminal, EndEnrollment(e, st)
    PROVE  /\ enr' \in [Enrollments -> [status : {"absent", "active", "removed"} \union Terminal,
                                        current_step : 0..MaxSteps, next_send_at : Times]]
           /\ \A d \in Enrollments :
                 /\ enr'[d].current_step = enr[d].current_step
                 /\ enr'[d].status = "absent" <=> enr[d].status = "absent"
                 /\ enr[d].status # "active" => enr'[d] = enr[d]
  BY DEF TypeOK, EndEnrollment, Terminal, Times

(* So does a cascading delete. *)
LEMMA CascadeKeepsType ==
    ASSUME TypeOK, NEW E, CascadeDelete(E)
    PROVE  /\ enr' \in [Enrollments -> [status : {"absent", "active", "removed"} \union Terminal,
                                        current_step : 0..MaxSteps, next_send_at : Times]]
           /\ \A d \in Enrollments :
                 /\ enr'[d].current_step = enr[d].current_step
                 /\ enr'[d].status = "absent" <=> enr[d].status = "absent"
                 /\ enr'[d] = enr[d] \/ enr'[d].status = "removed"
<1> DEFINE RowType == [status : {"absent", "active", "removed"} \union Terminal,
                       current_step : 0..MaxSteps, next_send_at : Times]
<1>1. enr \in [Enrollments -> RowType] /\ "null" \in Times
  BY DEF TypeOK, Times
<1>2. ASSUME NEW d \in Enrollments
      PROVE  \/ enr'[d] = enr[d]
             \/ /\ enr[d].status # "absent"
                /\ enr'[d] = [enr[d] EXCEPT !.status = "removed", !.next_send_at = "null"]
  BY DEF CascadeDelete
<1>3. ASSUME NEW r \in RowType
      PROVE  /\ [r EXCEPT !.status = "removed", !.next_send_at = "null"] \in RowType
             /\ [r EXCEPT !.status = "removed", !.next_send_at = "null"].status = "removed"
             /\ [r EXCEPT !.status = "removed", !.next_send_at = "null"].current_step = r.current_step
  BY <1>1, <1>3
<1> HIDE DEF RowType
<1>4. \A d \in Enrollments :
         /\ enr'[d] \in RowType
         /\ enr'[d].current_step = enr[d].current_step
         /\ enr'[d].status = "absent" <=> enr[d].status = "absent"
         /\ enr'[d] = enr[d] \/ enr'[d].status = "removed"
  <2> SUFFICES ASSUME NEW d \in Enrollments
               PROVE  /\ enr'[d] \in RowType
                      /\ enr'[d].current_step = enr[d].current_step
                      /\ enr'[d].status = "absent" <=> enr[d].status = "absent"
                      /\ enr'[d] = enr[d] \/ enr'[d].status = "removed"
    OBVIOUS
  <2>1. enr[d] \in RowType
    BY <1>1
  <2>2. CASE enr'[d] = enr[d]
    BY <2>1, <2>2
  <2>3. CASE /\ enr[d].status # "absent"
             /\ enr'[d] = [enr[d] EXCEPT !.status = "removed", !.next_send_at = "null"]
    <3>1. /\ enr'[d] \in RowType /\ enr'[d].status = "removed"
          /\ enr'[d].current_step = enr[d].current_step
      BY <1>3, <2>1, <2>3
    <3> QED BY <2>3, <3>1
  <2> QED BY <1>2, <2>2, <2>3
<1>5. enr' = [d \in Enrollments |-> enr'[d]]
  BY DEF CascadeDelete
<1>6. enr' \in [Enrollments -> RowType]
  BY <1>4, <1>5
<1> QED BY <1>4, <1>6 DEF RowType

TickType ==
    [pc : {"idle", "loop", "loaded", "optedOut", "clear", "claimed", "recorded"},
     due : SUBSET Row, row : Row \union {NoRow}, steps : StepLists \union {<<>>}]

(* Leaving a row keeps the worker's record well formed. *)
LEMMA NextRowKeepsType ==
    ASSUME TypeOK, NEW w \in Workers, NextRow(w)
    PROVE  /\ tick' \in [Workers -> TickType]
           /\ tick'[w].pc = "loop"
           /\ \A v \in Workers \ {w} : tick'[v] = tick[v]
  BY DEF TypeOK, NextRow, TickType

(* So does a jump to another program point. *)
LEMMA GotoKeepsType ==
    ASSUME TypeOK, NEW w \in Workers,
           NEW pc \in {"optedOut", "clear", "claimed", "recorded"}, Goto(w, pc)
    PROVE  /\ tick' \in [Workers -> TickType]
           /\ tick'[w].pc = pc
           /\ tick'[w].row = tick[w].row
           /\ tick'[w].steps = tick[w].steps
           /\ \A v \in Workers \ {w} : tick'[v] = tick[v]
  BY DEF TypeOK, Goto, TickType

-----------------------------------------------------------------------------
(* The types, and that a tick in the middle of a row has a row.            *)

EnrType == [Enrollments -> [status : {"absent", "active", "removed"} \union Terminal,
                            current_step : 0..MaxSteps, next_send_at : Times]]

(* The users' actions keep every table well formed and touch no tick. *)
LEMMA UserType ==
    ASSUME TypeOK, RowInv, UserNext
    PROVE  TypeOK' /\ RowInv'
<1> USE DEF db, out
<1>1. UNCHANGED tick => RowInv'
  BY DEF RowInv, HasStep
<1>2. ASSUME NEW s \in Seqs, NEW active \in BOOLEAN, NEW l \in StepLists,
             CreateSequence(s, active, l)
      PROVE  TypeOK' /\ RowInv'
  BY <1>1, <1>2 DEF CreateSequence, TypeOK
<1>3. ASSUME NEW s \in Seqs, NEW active \in BOOLEAN,
             NEW l \in StepLists \union {seq[s].steps}, UpdateSequence(s, active, l)
      PROVE  TypeOK' /\ RowInv'
  <2>1. seq[s] \in [state : {"new", "live", "deleted"}, is_active : BOOLEAN,
                    steps : StepLists \union {<<>>}]
    BY DEF TypeOK
  <2>2. seq' \in [Seqs -> [state : {"new", "live", "deleted"}, is_active : BOOLEAN,
                           steps : StepLists \union {<<>>}]]
    BY <1>3, <2>1 DEF UpdateSequence, TypeOK
  <2> QED
    BY <1>1, <1>3, <2>2 DEF UpdateSequence, TypeOK
<1>4. ASSUME NEW s \in Seqs, DeleteSequence(s)
      PROVE  TypeOK' /\ RowInv'
  <2>1. enr' \in EnrType
    BY <1>4, CascadeKeepsType DEF DeleteSequence, EnrType
  <2>2. seq' \in [Seqs -> [state : {"new", "live", "deleted"}, is_active : BOOLEAN,
                           steps : StepLists \union {<<>>}]]
    BY <1>4 DEF DeleteSequence, TypeOK
  <2> QED
    BY <1>1, <1>4, <2>1, <2>2 DEF DeleteSequence, TypeOK, EnrType
<1>5. ASSUME NEW s \in Seqs, NEW l \in StepLists, NEW C \in SUBSET Contacts, Enroll(s, l, C)
      PROVE  TypeOK' /\ RowInv'
  <2>1. enr' \in EnrType
    BY <1>5, Constants DEF Enroll, After, EnrType, TypeOK, Times
  <2> QED
    BY <1>1, <1>5, <2>1 DEF Enroll, TypeOK, EnrType
<1>6. ASSUME NEW e \in Enrollments, Stop(e)
      PROVE  TypeOK' /\ RowInv'
  <2>1. enr' \in EnrType
    BY <1>6, EndKeepsType DEF Stop, EnrType, Terminal
  <2> QED
    BY <1>1, <1>6, <2>1 DEF Stop, TypeOK, EnrType
<1>7. ASSUME NEW c \in Contacts, EditContact(c)
      PROVE  TypeOK' /\ RowInv'
  BY <1>1, <1>7 DEF EditContact, TypeOK
<1>8. ASSUME NEW c \in Contacts, DeleteContact(c)
      PROVE  TypeOK' /\ RowInv'
  <2>1. enr' \in EnrType
    BY <1>8, CascadeKeepsType DEF DeleteContact, EnrType
  <2> QED
    BY <1>1, <1>8, <2>1 DEF DeleteContact, TypeOK, EnrType
<1>9. ASSUME NEW c \in Contacts, Unsubscribe(c)
      PROVE  TypeOK' /\ RowInv'
  BY <1>1, <1>9 DEF Unsubscribe, TypeOK
<1>10. ASSUME NEW e \in Enrollments, DaysPass(e)
       PROVE  TypeOK' /\ RowInv'
  <2>1. enr' \in EnrType
    BY <1>10 DEF DaysPass, EnrType, TypeOK, Times
  <2> QED
    BY <1>1, <1>10, <2>1 DEF DaysPass, TypeOK, EnrType
<1> QED
  BY <1>2, <1>3, <1>4, <1>5, <1>6, <1>7, <1>8, <1>9, <1>10 DEF UserNext

(* Worker w leaves its row or tick, and possibly ends an enrollment: what most
   of the worker's actions do. *)
LEMMA LeaveRow ==
    ASSUME TypeOK, RowInv, NEW w \in Workers,
           NextRow(w) \/ tick' = [tick EXCEPT ![w] = IdleTick],
           UNCHANGED db,
           enr' \in EnrType,
           sends' \in [Enrollments -> [StepIndex -> Nat]],
           mail' \in [Enrollments -> [StepIndex -> Nat]],
           notified' \subseteq Enrollments,
           late' \in [Contacts -> Nat],
           faults' \in 0..MaxFaults
    PROVE  TypeOK' /\ RowInv'
<1>1. tick' \in [Workers -> TickType] /\ tick'[w].pc \in {"idle", "loop"}
      /\ \A v \in Workers \ {w} : tick'[v] = tick[v]
  <2>1. CASE NextRow(w)
    BY <2>1, NextRowKeepsType
  <2>2. CASE tick' = [tick EXCEPT ![w] = IdleTick]
    BY <2>2 DEF TypeOK, TickType, IdleTick
  <2> QED
    BY <2>1, <2>2
<1>2. RowInv'
  BY <1>1 DEF RowInv, HasStep
<1> QED
  BY <1>1, <1>2 DEF TypeOK, TickType, EnrType, db

(* A worker enters or moves inside its row. *)
LEMMA StayInRow ==
    ASSUME TypeOK, RowInv, NEW w \in Workers,
           NEW pc \in {"optedOut", "clear", "claimed", "recorded"},
           Goto(w, pc), HasStep(w), tick[w].row \in Row
    PROVE  tick' \in [Workers -> TickType] /\ RowInv'
<1>1. /\ tick' \in [Workers -> TickType]
      /\ tick'[w].pc = pc
      /\ tick'[w].row = tick[w].row
      /\ tick'[w].steps = tick[w].steps
      /\ \A v \in Workers \ {w} : tick'[v] = tick[v]
  BY GotoKeepsType
<1> QED
  BY <1>1 DEF RowInv, HasStep

(* The steps of one tick keep every table and every snapshot well formed. *)
LEMMA WorkerType ==
    ASSUME TypeOK, RowInv, NEW w \in Workers,
           StartTick(w) \/ RowNext(w) \/ FaultNext(w)
    PROVE  TypeOK' /\ RowInv'
<1> USE DEF db, out
<1>0. /\ enr \in EnrType
      /\ sends \in [Enrollments -> [StepIndex -> Nat]]
      /\ mail \in [Enrollments -> [StepIndex -> Nat]]
      /\ notified \subseteq Enrollments /\ late \in [Contacts -> Nat]
      /\ faults \in 0..MaxFaults
  BY DEF TypeOK, EnrType
<1>a. tick[w].pc \notin {"idle", "loop"} =>
        /\ tick[w].row \in Row
        /\ tick[w].row.e \in Enrollments
        /\ tick[w].row.e[2] \in Contacts
        /\ tick[w].row.current_step \in 0..MaxSteps
  BY DEF RowInv, Row, Enrollments
<1>b. Fault => faults' \in 0..MaxFaults
  BY ConstantsAssumption, <1>0 DEF Fault, ConstantsAssumption
<1>c. ASSUME tick[w].pc \in {"optedOut", "clear", "claimed", "recorded"}
      PROVE  /\ tick[w].row.current_step \in StepIndex
             /\ tick[w].row.current_step + 1 \in 0..MaxSteps
  <2>1. tick[w].row.current_step < Len(tick[w].steps)
    BY <1>c DEF RowInv, HasStep
  <2>2. Len(tick[w].steps) \in 0..MaxSteps
    BY Constants DEF TypeOK
  <2> QED
    BY <1>a, <1>c, <2>1, <2>2, Constants DEF StepIndex
<1>d. ASSUME NotifyIfLast(w), tick[w].pc = "recorded"
      PROVE  notified' \subseteq Enrollments
  BY <1>0, <1>a, <1>d DEF NotifyIfLast
<1>1. CASE StartTick(w)
  <2>1. PICK R \in SUBSET DueRows :
          tick' = [tick EXCEPT ![w] =
            [pc |-> "loop", due |-> R, row |-> NoRow, steps |-> <<>>]]
    BY <1>1 DEF StartTick
  <2>2. R \subseteq Row
    <3> SUFFICES ASSUME NEW r \in R PROVE r \in Row
      OBVIOUS
    <3>1. PICK d \in Enrollments :
            r = [e |-> d, current_step |-> enr[d].current_step,
                 mailable |-> contact[d[2]] = "mailable"]
      BY <2>1 DEF DueRows
    <3>2. enr[d].current_step \in 0..MaxSteps
      BY DEF TypeOK
    <3>3. (contact[d[2]] = "mailable") \in BOOLEAN
      OBVIOUS
    <3> QED
      BY <3>1, <3>2, <3>3 DEF Row
  <2>3. [pc |-> "loop", due |-> R, row |-> NoRow, steps |-> <<>>] \in TickType
    BY <2>2 DEF TickType
  <2>4. tick' \in [Workers -> TickType] /\ tick'[w].pc = "loop"
        /\ \A v \in Workers \ {w} : tick'[v] = tick[v]
    BY <2>1, <2>3 DEF TypeOK, TickType
  <2>5. RowInv'
    BY <2>4 DEF RowInv, HasStep
  <2> QED
    BY <1>1, <2>4, <2>5 DEF StartTick, TypeOK, TickType
<1>2. CASE FinishTick(w)
  BY <1>0, <1>2, LeaveRow DEF FinishTick
<1>3. CASE LoadSteps(w)
  <2>1. PICK r \in tick[w].due :
          tick' = [tick EXCEPT ![w] = [pc |-> "loaded", due |-> @.due \ {r}, row |-> r,
                                       steps |-> seq[r.e[1]].steps]]
    BY <1>3 DEF LoadSteps
  <2>2. r \in Row /\ r.e[1] \in Seqs
    BY <2>1 DEF TypeOK, Row, Enrollments
  <2>3. tick' \in [Workers -> TickType] /\ tick'[w].pc = "loaded" /\ tick'[w].row = r
        /\ \A v \in Workers \ {w} : tick'[v] = tick[v]
    BY <2>1, <2>2 DEF TypeOK, TickType
  <2>4. RowInv'
    BY <2>2, <2>3 DEF RowInv, HasStep
  <2> QED
    BY <1>3, <2>3, <2>4 DEF LoadSteps, TypeOK, TickType
<1>4. ASSUME NEW st \in Terminal, tick[w].pc \in {"loaded", "optedOut"},
             EndEnrollment(tick[w].row.e, st), NextRow(w), UNCHANGED <<db, out, faults>>
      PROVE  TypeOK' /\ RowInv'
  <2>1. enr' \in EnrType
    BY <1>4, <1>a, EndKeepsType DEF EnrType
  <2> QED
    BY <1>0, <1>4, <2>1, LeaveRow
<1>5. CASE CompleteEmpty(w)
  BY <1>4, <1>5 DEF CompleteEmpty, Terminal
<1>6. CASE StopNoEmail(w)
  BY <1>4, <1>6 DEF StopNoEmail, Terminal
<1>7. CASE FlipUnsubscribed(w)
  BY <1>4, <1>7 DEF FlipUnsubscribed, Terminal
<1>8. CASE CheckSuppression(w)
  <2>1. tick' \in [Workers -> TickType] /\ RowInv'
    BY <1>8, <1>a, StayInRow DEF CheckSuppression
  <2> QED
    BY <1>8, <2>1 DEF CheckSuppression, TypeOK, TickType
<1>9. CASE ClaimStep(w)
  <2> DEFINE e == tick[w].row.e
             k == tick[w].row.current_step
  <2>1. HasStep(w)
    BY <1>9 DEF ClaimStep, RowInv
  <2>2. tick' \in [Workers -> TickType] /\ RowInv'
    BY <1>9, <1>a, <2>1, StayInRow DEF ClaimStep
  <2>3. enr[e].current_step + 1 \in 0..MaxSteps
    BY <1>9, <1>c DEF ClaimStep, ClaimMatches
  <2>4. enr' \in EnrType
    <3>1. e \in Enrollments
      BY <1>9, <1>a DEF ClaimStep
    <3>2. PICK t \in Times, st \in {"active", "completed"} :
            enr' = [enr EXCEPT ![e] = [status |-> st, current_step |-> @.current_step + 1,
                                       next_send_at |-> t]]
      BY <1>9 DEF ClaimStep, After, Times
    <3>3. [status |-> st, current_step |-> enr[e].current_step + 1, next_send_at |-> t]
            \in [status : {"absent", "active", "removed"} \union Terminal,
                current_step : 0..MaxSteps, next_send_at : Times]
      BY <2>3 DEF Terminal
    <3> HIDE DEF e
    <3> QED
      BY <1>0, <3>1, <3>2, <3>3 DEF EnrType
  <2> QED
    BY <1>9, <2>2, <2>4 DEF ClaimStep, TypeOK, TickType, EnrType
<1>10. CASE LoseClaim(w)
  BY <1>0, <1>10, LeaveRow DEF LoseClaim
<1>11. CASE RecordSend(w)
  <2>1. HasStep(w)
    BY <1>11 DEF RecordSend, RowInv
  <2>2. tick' \in [Workers -> TickType] /\ RowInv'
    BY <1>11, <1>a, <2>1, StayInRow DEF RecordSend
  <2>3. sends' \in [Enrollments -> [StepIndex -> Nat]]
    <3> DEFINE e == tick[w].row.e
               k == tick[w].row.current_step
    <3>1. e \in Enrollments /\ k \in StepIndex
      BY <1>11, <1>a, <1>c DEF RecordSend
    <3>2. sends' = [sends EXCEPT ![e][k] = @ + 1]
      BY <1>11 DEF RecordSend
    <3> HIDE DEF e, k
    <3> QED
      BY <1>0, <3>1, <3>2
  <2> QED
    BY <1>11, <2>2, <2>3 DEF RecordSend, TypeOK, TickType
<1>12. CASE RecordViolatesKey(w)
  BY <1>0, <1>12, LeaveRow DEF RecordViolatesKey
<1>13. CASE Transport(w)
  <2>1. mail' \in [Enrollments -> [StepIndex -> Nat]] /\ late' \in [Contacts -> Nat]
    BY <1>0, <1>13, <1>a, <1>c DEF Transport
  <2> QED
    BY <1>0, <1>13, <1>d, <2>1, LeaveRow DEF Transport
<1>14. CASE TransportFails(w)
  BY <1>0, <1>14, <1>b, <1>d, LeaveRow DEF TransportFails
<1>15. CASE RowThrows(w)
  BY <1>0, <1>15, <1>b, LeaveRow DEF RowThrows
<1>16. CASE Crash(w)
  BY <1>0, <1>16, <1>b, LeaveRow DEF Crash
<1> QED
  BY <1>1, <1>2, <1>3, <1>5, <1>6, <1>7, <1>8, <1>9, <1>10, <1>11, <1>12, <1>13,
     <1>14, <1>15, <1>16 DEF RowNext, FaultNext

(* Every write of a status that is not 'active' clears next_send_at. *)
LEMMA NextStep ==
    ASSUME TypeOK, RowInv, NextInv, [Next]_vars
    PROVE  NextInv'
<1> USE DEF db, out
<1>1. CASE UNCHANGED enr
  BY <1>1 DEF NextInv
<1>2. CASE \E E : CascadeDelete(E)
  <2> SUFFICES ASSUME NEW e \in Enrollments, enr'[e].status # "active"
               PROVE  enr'[e].next_send_at = "null"
    BY DEF NextInv
  <2>1. enr'[e] = enr[e] \/ enr'[e] = [enr[e] EXCEPT !.status = "removed", !.next_send_at = "null"]
    BY <1>2 DEF CascadeDelete
  <2> QED
    BY <2>1 DEF NextInv, TypeOK
<1>3. CASE \E s \in Seqs, l \in StepLists : \E C \in SUBSET Contacts : Enroll(s, l, C)
  BY <1>3 DEF Enroll, NextInv
<1>4. ASSUME NEW e \in Enrollments, NEW st \in Terminal, EndEnrollment(e, st)
      PROVE  NextInv'
  BY <1>4 DEF EndEnrollment, NextInv, TypeOK
<1>5. CASE \E e \in Enrollments : DaysPass(e)
  BY <1>5 DEF DaysPass, NextInv, TypeOK
<1>6. CASE UserNext
  BY <1>1, <1>2, <1>3, <1>4, <1>5, <1>6
     DEF UserNext, CreateSequence, UpdateSequence, DeleteSequence, Stop, EditContact,
         DeleteContact, Unsubscribe, Terminal
<1>7. ASSUME NEW w \in Workers, StartTick(w) \/ RowNext(w) \/ FaultNext(w)
      PROVE  NextInv'
  <2>1. tick[w].pc \in {"loaded", "optedOut", "clear"} => tick[w].row.e \in Enrollments
    BY DEF RowInv, Row
  <2>2. CASE ClaimStep(w)
    BY <2>1, <2>2 DEF ClaimStep, NextInv, TypeOK
  <2> QED
    BY <1>1, <1>4, <1>7, <2>1, <2>2
       DEF StartTick, RowNext, FaultNext, FinishTick, LoadSteps, CompleteEmpty, StopNoEmail,
           CheckSuppression, FlipUnsubscribed, LoseClaim, RecordSend, RecordViolatesKey,
           Transport, TransportFails, RowThrows, Crash, Terminal
<1> QED
  BY <1>1, <1>6, <1>7 DEF Next, vars

(* Type correctness, for every instance. *)
THEOREM TypeCorrect == Spec => [](TypeOK /\ RowInv /\ NextInv)
<1>1. Init => TypeOK /\ RowInv /\ NextInv
  <2>1. Init => TypeOK
    BY ConstantsAssumption, Constants
       DEF Init, TypeOK, IdleTick, Times, Enrollments, ConstantsAssumption
  <2> QED
    BY <2>1 DEF Init, RowInv, NextInv, HasStep, IdleTick
<1>2. TypeOK /\ RowInv /\ NextInv /\ [Next]_vars => (TypeOK /\ RowInv /\ NextInv)'
  <2>1. ASSUME TypeOK, RowInv, UNCHANGED vars
        PROVE  (TypeOK /\ RowInv)'
    BY <2>1 DEF vars, TypeOK, RowInv, HasStep
  <2> QED
    BY <2>1, UserType, WorkerType, NextStep DEF Next
<1> QED
  BY <1>1, <1>2, PTL DEF Spec

-----------------------------------------------------------------------------
(* At most once.  A step of the system is quiet for the claims unless it   *)
(* is ClaimStep, RecordSend or Transport.                                  *)

\* No position moves, nothing is recorded or accepted, and whoever holds a
\* claim afterwards held it before.
Quiet ==
    /\ \A e \in Enrollments :
          /\ enr'[e].current_step = enr[e].current_step
          /\ enr'[e].status = "absent" => enr[e].status = "absent"
    /\ UNCHANGED <<sends, mail>>
    /\ \A w \in Workers :
          tick'[w].pc \in {"claimed", "recorded"} => tick'[w] = tick[w]

(* Quiet steps keep the invariant. *)
LEMMA QuietKeeps ==
    ASSUME SentInv, HoldInv, Quiet
    PROVE  SentInv' /\ HoldInv'
<1>1. SentInv'
  BY DEF SentInv, Quiet
<1>2. ASSUME NEW w \in Workers, NEW e \in Enrollments, NEW k \in StepIndex, Holds(w, e, k)'
      PROVE  Holds(w, e, k) /\ tick'[w] = tick[w]
  BY <1>2 DEF Holds, Quiet
<1>3. HoldInv'
  BY <1>2 DEF HoldInv, Quiet
<1> QED
  BY <1>1, <1>3

(* The users' actions are quiet. *)
LEMMA UserQuiet ==
    ASSUME TypeOK, SentInv, UserNext
    PROVE  Quiet
<1> USE DEF db, out
<1>1. UNCHANGED <<sends, mail, tick>>
  BY DEF UserNext, CreateSequence, UpdateSequence, DeleteSequence, Enroll, Stop, EditContact,
         DeleteContact, Unsubscribe, DaysPass
<1>2. ASSUME NEW e \in Enrollments
      PROVE  /\ enr'[e].current_step = enr[e].current_step
             /\ enr'[e].status = "absent" => enr[e].status = "absent"
  <2>1. CASE UNCHANGED enr
    BY <2>1
  <2>2. CASE \E E : CascadeDelete(E)
    BY <2>2, CascadeKeepsType
  <2>3. CASE \E s \in Seqs, l \in StepLists : \E C \in SUBSET Contacts : Enroll(s, l, C)
    BY <2>3 DEF Enroll, SentInv
  <2>4. CASE \E d \in Enrollments : Stop(d)
    BY <2>4, EndKeepsType DEF Stop, Terminal
  <2>5. CASE \E d \in Enrollments : DaysPass(d)
    BY <2>5 DEF DaysPass, TypeOK
  <2> QED
    BY <2>1, <2>2, <2>3, <2>4, <2>5
       DEF UserNext, CreateSequence, UpdateSequence, DeleteSequence, EditContact,
           DeleteContact, Unsubscribe
<1> QED
  BY <1>1, <1>2 DEF Quiet

(* So is everything a worker does outside the three steps. *)
LEMMA WorkerQuiet ==
    ASSUME TypeOK, RowInv, NEW w \in Workers,
           StartTick(w) \/ RowNext(w) \/ FaultNext(w),
           ~ClaimStep(w), ~RecordSend(w), ~Transport(w)
    PROVE  Quiet
<1> USE DEF db, out
<1>1. UNCHANGED <<sends, mail>>
  BY DEF StartTick, RowNext, FaultNext, FinishTick, LoadSteps, CompleteEmpty, StopNoEmail,
         CheckSuppression, FlipUnsubscribed, LoseClaim, RecordViolatesKey, TransportFails,
         RowThrows, Crash
<1>2. ASSUME NEW e \in Enrollments
      PROVE  /\ enr'[e].current_step = enr[e].current_step
             /\ enr'[e].status = "absent" => enr[e].status = "absent"
  <2>1. CASE UNCHANGED enr
    BY <2>1
  <2>2. ASSUME NEW st \in Terminal, tick[w].pc \in {"loaded", "optedOut"},
               EndEnrollment(tick[w].row.e, st)
        PROVE  /\ enr'[e].current_step = enr[e].current_step
               /\ enr'[e].status = "absent" => enr[e].status = "absent"
    <3>1. tick[w].row.e \in Enrollments
      BY <2>2 DEF RowInv, Row
    <3> QED
      BY <2>2, <3>1, EndKeepsType
  <2> QED
    BY <2>1, <2>2
       DEF StartTick, RowNext, FaultNext, FinishTick, LoadSteps, CompleteEmpty, StopNoEmail,
           CheckSuppression, FlipUnsubscribed, LoseClaim, RecordViolatesKey, TransportFails,
           RowThrows, Crash, Terminal
<1>3. /\ tick'[w].pc \notin {"claimed", "recorded"}
      /\ \A v \in Workers \ {w} : tick'[v] = tick[v]
  <2>1. CASE NextRow(w)
    BY <2>1, NextRowKeepsType
  <2>2. CASE tick' = [tick EXCEPT ![w] = IdleTick]
    BY <2>2 DEF TypeOK, IdleTick
  <2>3. CASE StartTick(w)
    BY <2>3 DEF StartTick, TypeOK
  <2>4. CASE LoadSteps(w)
    BY <2>4 DEF LoadSteps, TypeOK
  <2>5. CASE CheckSuppression(w)
    BY <2>5, GotoKeepsType DEF CheckSuppression
  <2> QED
    BY <2>1, <2>2, <2>3, <2>4, <2>5
       DEF RowNext, FaultNext, FinishTick, CompleteEmpty, StopNoEmail, FlipUnsubscribed,
           LoseClaim, RecordViolatesKey, TransportFails, RowThrows, Crash
<1> QED
  BY <1>1, <1>2, <1>3 DEF Quiet

(* The claim: it takes the step at current_step, which by SentInv and HoldInv
   nobody has recorded, accepted or claimed, and moves the position past it. *)
LEMMA ClaimKeeps ==
    ASSUME TypeOK, ClaimInv, NEW w \in Workers, ClaimStep(w)
    PROVE  SentInv' /\ HoldInv'
<1> DEFINE e == tick[w].row.e
           k == tick[w].row.current_step
<1>1. e \in Enrollments /\ k \in Nat
  BY DEF ClaimStep, ClaimInv, RowInv, Row
<1>2. /\ enr[e].status = "active" /\ enr[e].current_step = k
      /\ enr'[e].status # "absent" /\ enr'[e].current_step = k + 1
      /\ \A d \in Enrollments \ {e} : enr'[d] = enr[d]
  BY <1>1 DEF ClaimStep, ClaimMatches, TypeOK
<1>3. UNCHANGED <<sends, mail>>
  BY DEF ClaimStep, out
<1>4. /\ tick'[w].pc = "claimed" /\ tick'[w].row = tick[w].row
      /\ \A v \in Workers \ {w} : tick'[v] = tick[v]
  BY GotoKeepsType DEF ClaimStep
<1> HIDE DEF e, k
<1>5. SentInv'
  <2> SUFFICES ASSUME NEW d \in Enrollments
               PROVE  /\ enr'[d].status = "absent" => enr'[d].current_step = 0
                      /\ \A j \in StepIndex :
                            /\ sends[d][j] \in {0, 1}
                            /\ mail[d][j] <= sends[d][j]
                            /\ sends[d][j] = 1 => j < enr'[d].current_step
    BY <1>3 DEF SentInv
  <2>1. CASE d = e
    BY <1>1, <1>2, <2>1 DEF ClaimInv, SentInv, StepIndex
  <2>2. CASE d # e
    BY <1>2, <2>2 DEF ClaimInv, SentInv
  <2> QED
    BY <2>1, <2>2
<1>6. ASSUME NEW d \in Enrollments, NEW j \in StepIndex, NEW v \in Workers \ {w},
             Holds(v, d, j)'
      PROVE  Holds(v, d, j) /\ ~Holds(w, d, j)' /\ j < enr'[d].current_step
  <2>1. Holds(v, d, j)
    BY <1>4, <1>6 DEF Holds
  <2>2. j < enr[d].current_step
    BY <2>1 DEF ClaimInv, HoldInv
  <2> QED
    BY <1>1, <1>2, <1>4, <2>1, <2>2 DEF Holds, e, k, StepIndex
<1>7. ASSUME NEW d \in Enrollments, NEW j \in StepIndex, Holds(w, d, j)'
      PROVE  d = e /\ j = k /\ mail[d][j] = 0 /\ sends[d][j] = 0 /\ j < enr'[d].current_step
  <2>1. d = e /\ j = k
    BY <1>4, <1>7 DEF Holds, e, k
  <2> QED
    BY <1>1, <1>2, <2>1 DEF ClaimInv, SentInv, TypeOK
<1>8. HoldInv'
  <2> SUFFICES ASSUME NEW v \in Workers, NEW d \in Enrollments, NEW j \in StepIndex,
                      Holds(v, d, j)'
               PROVE  /\ j < enr'[d].current_step
                      /\ mail'[d][j] = 0
                      /\ tick'[v].pc = "claimed" => sends'[d][j] = 0
                      /\ tick'[v].pc = "recorded" => sends'[d][j] = 1
                      /\ \A u \in Workers \ {v} : ~Holds(u, d, j)'
    BY DEF HoldInv
  <2>1. CASE v = w
    BY <1>3, <1>4, <1>6, <1>7, <2>1
  <2>2. CASE v # w
    <3>1. Holds(v, d, j) /\ ~Holds(w, d, j)' /\ j < enr'[d].current_step
      BY <1>6, <2>2
    <3>2. \A u \in Workers \ {v, w} : ~Holds(u, d, j)'
      BY <1>4, <3>1 DEF Holds, ClaimInv, HoldInv
    <3> QED
      BY <1>3, <1>4, <2>2, <3>1, <3>2 DEF ClaimInv, HoldInv
  <2> QED
    BY <2>1, <2>2
<1> QED
  BY <1>5, <1>8

(* The record: only the claim's holder writes it, and once. *)
LEMMA RecordKeeps ==
    ASSUME TypeOK, ClaimInv, NEW w \in Workers, RecordSend(w)
    PROVE  SentInv' /\ HoldInv'
<1> DEFINE e == tick[w].row.e
           k == tick[w].row.current_step
<1>1. e \in Enrollments /\ k \in StepIndex
  <2>1. /\ e \in Enrollments /\ k \in 0..MaxSteps
        /\ k < Len(tick[w].steps)
    BY DEF RecordSend, ClaimInv, RowInv, Row, HasStep
  <2>2. Len(tick[w].steps) \in 0..MaxSteps
    BY Constants DEF TypeOK
  <2> QED
    BY <2>1, <2>2, Constants DEF StepIndex
<1>2. sends' = [sends EXCEPT ![e][k] = @ + 1]
  BY DEF RecordSend
<1>3. UNCHANGED <<enr, mail>>
  BY DEF RecordSend
<1>4. /\ tick'[w].pc = "recorded" /\ tick'[w].row = tick[w].row
      /\ \A v \in Workers \ {w} : tick'[v] = tick[v]
  BY GotoKeepsType DEF RecordSend
<1>5. Holds(w, e, k) /\ tick[w].pc = "claimed"
  BY DEF Holds, RecordSend
<1> HIDE DEF e, k
<1>6. sends[e][k] = 0 /\ mail[e][k] = 0 /\ k < enr[e].current_step
  BY <1>1, <1>5 DEF ClaimInv, HoldInv
<1>7. \A d \in Enrollments, j \in StepIndex :
        sends'[d][j] = IF d = e /\ j = k THEN 1 ELSE sends[d][j]
  BY <1>1, <1>2, <1>6 DEF TypeOK
<1>8. SentInv'
  BY <1>1, <1>3, <1>6, <1>7 DEF ClaimInv, SentInv
<1>9. \A v \in Workers, d \in Enrollments, j \in StepIndex :
        Holds(v, d, j)' <=> Holds(v, d, j)
  BY <1>4, <1>5 DEF Holds
<1>10. \A d \in Enrollments, j \in StepIndex : Holds(w, d, j) => d = e /\ j = k
  BY DEF Holds, e, k
<1>11. HoldInv'
  <2> SUFFICES ASSUME NEW v \in Workers, NEW d \in Enrollments, NEW j \in StepIndex,
                      Holds(v, d, j)
               PROVE  /\ j < enr[d].current_step
                      /\ mail[d][j] = 0
                      /\ tick'[v].pc = "claimed" => sends'[d][j] = 0
                      /\ tick'[v].pc = "recorded" => sends'[d][j] = 1
                      /\ \A u \in Workers \ {v} : ~Holds(u, d, j)
    BY <1>3, <1>9 DEF HoldInv
  <2>1. CASE v = w
    BY <1>4, <1>7, <1>10, <2>1 DEF ClaimInv, HoldInv
  <2>2. CASE v # w
    <3>1. ~(d = e /\ j = k)
      BY <1>5, <2>2 DEF ClaimInv, HoldInv
    <3> QED
      BY <1>4, <1>7, <2>2, <3>1 DEF ClaimInv, HoldInv
  <2> QED
    BY <2>1, <2>2
<1> QED
  BY <1>8, <1>11

(* The send: the holder delivers what it recorded and lets go. *)
LEMMA TransportKeeps ==
    ASSUME TypeOK, ClaimInv, NEW w \in Workers, Transport(w)
    PROVE  SentInv' /\ HoldInv'
<1> DEFINE e == tick[w].row.e
           k == tick[w].row.current_step
<1>1. e \in Enrollments /\ k \in StepIndex
  <2>1. /\ e \in Enrollments /\ k \in 0..MaxSteps
        /\ k < Len(tick[w].steps)
    BY DEF Transport, ClaimInv, RowInv, Row, HasStep
  <2>2. Len(tick[w].steps) \in 0..MaxSteps
    BY Constants DEF TypeOK
  <2> QED
    BY <2>1, <2>2, Constants DEF StepIndex
<1>2. mail' = [mail EXCEPT ![e][k] = @ + 1]
  BY DEF Transport
<1>3. UNCHANGED <<enr, sends>>
  BY DEF Transport
<1>4. tick'[w].pc = "loop" /\ \A v \in Workers \ {w} : tick'[v] = tick[v]
  BY NextRowKeepsType DEF Transport
<1>5. Holds(w, e, k) /\ tick[w].pc = "recorded"
  BY DEF Holds, Transport
<1> HIDE DEF e, k
<1>6. sends[e][k] = 1 /\ mail[e][k] = 0
  BY <1>1, <1>5 DEF ClaimInv, HoldInv
<1>7. \A d \in Enrollments, j \in StepIndex :
        mail'[d][j] = IF d = e /\ j = k THEN 1 ELSE mail[d][j]
  BY <1>1, <1>2, <1>6 DEF TypeOK
<1>8. SentInv'
  BY <1>3, <1>6, <1>7 DEF ClaimInv, SentInv
<1>9. \A v \in Workers, d \in Enrollments, j \in StepIndex :
        Holds(v, d, j)' => Holds(v, d, j) /\ v # w /\ tick'[v] = tick[v] /\ ~(d = e /\ j = k)
  BY <1>1, <1>4, <1>5 DEF Holds, ClaimInv, HoldInv
<1>10. HoldInv'
  BY <1>3, <1>7, <1>9 DEF ClaimInv, HoldInv
<1> QED
  BY <1>8, <1>10

(* The claim invariant holds in every state. *)
THEOREM ClaimsHold == Spec => [](TypeOK /\ ClaimInv)
<1>1. Init => SentInv /\ HoldInv
  BY ConstantsAssumption DEF Init, SentInv, HoldInv, Holds, IdleTick, ConstantsAssumption
<1>2. TypeOK /\ ClaimInv /\ [Next]_vars => (SentInv /\ HoldInv)'
  <2>1. ASSUME SentInv, HoldInv, UNCHANGED vars
        PROVE  (SentInv /\ HoldInv)'
    BY <2>1 DEF vars, SentInv, HoldInv, Holds
  <2>2. ASSUME TypeOK, ClaimInv, NEW w \in Workers,
               StartTick(w) \/ RowNext(w) \/ FaultNext(w)
        PROVE  (SentInv /\ HoldInv)'
    BY <2>2, ClaimKeeps, RecordKeeps, TransportKeeps, WorkerQuiet, QuietKeeps DEF ClaimInv
  <2> QED
    BY <2>1, <2>2, UserQuiet, QuietKeeps DEF Next, ClaimInv
<1> QED
  BY <1>1, <1>2, TypeCorrect, PTL DEF Spec, ClaimInv

(* sequences.js:25-30: no step of an enrollment is recorded or sent twice,
   with any number of concurrent ticks, users and faults. *)
THEOREM NoStepTwice == Spec => []NoDoubleSend
<1>1. TypeOK /\ ClaimInv => NoDoubleSend
  <2> SUFFICES ASSUME TypeOK, ClaimInv, NEW e \in Enrollments, NEW k \in StepIndex
               PROVE  mail[e][k] <= 1 /\ sends[e][k] <= 1
    BY DEF NoDoubleSend
  <2>1. mail[e][k] \in Nat /\ sends[e][k] \in {0, 1} /\ mail[e][k] <= sends[e][k]
    BY DEF TypeOK, ClaimInv, SentInv
  <2> QED
    BY <2>1
<1> QED
  BY <1>1, ClaimsHold, PTL

-----------------------------------------------------------------------------
(* What one step may do to an enrollment.                                  *)

(* sequences.js:293: an enrollment that ended keeps its status and position
   for good, unless its contact or sequence is deleted. *)
THEOREM EndedForGood == Spec => TerminalStays
<1> DEFINE Stays == \A e \in Enrollments : enr[e].status \in Terminal =>
                       \/ enr'[e] = enr[e]
                       \/ enr'[e].status = "removed"
<1> USE DEF db, out
<1>1. ASSUME TypeOK, NextInv, UserNext PROVE Stays
  <2>1. CASE UNCHANGED enr
    BY <2>1
  <2>2. CASE \E E : CascadeDelete(E)
    BY <1>1, <2>2, CascadeKeepsType
  <2>3. CASE \E s \in Seqs, l \in StepLists : \E C \in SUBSET Contacts : Enroll(s, l, C)
    BY <2>3 DEF Enroll, Terminal
  <2>4. CASE \E d \in Enrollments : Stop(d)
    BY <1>1, <2>4, EndKeepsType DEF Stop, Terminal
  <2>5. CASE \E d \in Enrollments : DaysPass(d)
    BY <1>1, <2>5 DEF DaysPass, TypeOK, NextInv, Terminal
  <2> QED
    BY <1>1, <2>1, <2>2, <2>3, <2>4, <2>5
       DEF UserNext, CreateSequence, UpdateSequence, DeleteSequence, EditContact,
           DeleteContact, Unsubscribe
<1>2. ASSUME TypeOK, RowInv, NEW w \in Workers, StartTick(w) \/ RowNext(w) \/ FaultNext(w)
      PROVE  Stays
  <2>1. CASE UNCHANGED enr
    BY <2>1
  <2>2. ASSUME NEW st \in Terminal, tick[w].pc \in {"loaded", "optedOut"},
               EndEnrollment(tick[w].row.e, st)
        PROVE  Stays
    <3>1. tick[w].row.e \in Enrollments
      BY <1>2, <2>2 DEF RowInv, Row
    <3> QED
      BY <1>2, <2>2, <3>1, EndKeepsType DEF Terminal
  <2>3. CASE ClaimStep(w)
    BY <1>2, <2>3 DEF ClaimStep, ClaimMatches, TypeOK, Terminal
  <2> QED
    BY <1>2, <2>1, <2>2, <2>3
       DEF StartTick, RowNext, FaultNext, FinishTick, LoadSteps, CompleteEmpty, StopNoEmail,
           CheckSuppression, FlipUnsubscribed, LoseClaim, RecordSend, RecordViolatesKey,
           Transport, TransportFails, RowThrows, Crash, Terminal
<1>3. TypeOK /\ RowInv /\ NextInv /\ [Next]_vars => [Stays]_vars
  BY <1>1, <1>2 DEF Next
<1> QED
  BY <1>3, TypeCorrect, PTL DEF Spec, TerminalStays

-----------------------------------------------------------------------------
(* No step is passed over.  What lies below the position of an enrollment and
   was not mailed has a holder, and a holder lets go without mailing it only by
   a fault, or when the foreign keys refuse the row of a removed enrollment. *)

\* An enrollment that is not removed has its sequence and its contact.
ParentsInv ==
    \A e \in Enrollments : enr[e].status \notin {"absent", "removed"} => ParentsExist(e)

\* A removed enrollment stays so.
RemovedStays == \A e \in Enrollments : enr[e].status = "removed" => enr'[e].status = "removed"

(* A cascading delete removes the enrollments of the parent and no others. *)
LEMMA CascadeRemoves ==
  ASSUME TypeOK, NEW E, CascadeDelete(E), NEW e \in Enrollments
  PROVE  /\ enr'[e].status = enr[e].status \/ enr'[e].status = "removed"
         /\ e \in E => enr'[e].status \in {"absent", "removed"}
<1>1. enr[e] \in [status : {"absent", "active", "removed"} \union Terminal,
                  current_step : 0..MaxSteps, next_send_at : Times]
  BY DEF TypeOK
<1>2. \/ e \in E /\ enr[e].status # "absent"
         /\ enr'[e] = [enr[e] EXCEPT !.status = "removed", !.next_send_at = "null"]
      \/ ~(e \in E /\ enr[e].status # "absent") /\ enr'[e] = enr[e]
  BY DEF CascadeDelete
<1> QED BY ONLY <1>1, <1>2

(* Deleting a parent takes its enrollments along, and nobody enrolls under a
   parent that is gone. *)
LEMMA UserKeepsParents ==
  ASSUME TypeOK, ParentsInv, UserNext
  PROVE  ParentsInv' /\ RemovedStays
<1> USE DEF ParentsInv, ParentsExist, RemovedStays, db, TypeOK
<1>0. \A e \in Enrollments : e[1] \in Seqs /\ e[2] \in Contacts /\ e = <<e[1], e[2]>>
  BY DEF Enrollments
<1>1. ASSUME NEW s \in Seqs, NEW active \in BOOLEAN, NEW l \in StepLists, CreateSequence(s, active, l)
      PROVE  ParentsInv' /\ RemovedStays
  BY <1>0, <1>1 DEF CreateSequence
<1>2. ASSUME NEW s \in Seqs, NEW active \in BOOLEAN, NEW l, UpdateSequence(s, active, l)
      PROVE  ParentsInv' /\ RemovedStays
  <2>1. \A t \in Seqs : seq'[t].state = seq[t].state
    BY <1>2 DEF UpdateSequence
  <2> QED BY <1>0, <1>2, <2>1 DEF UpdateSequence
<1>3. ASSUME NEW s \in Seqs, DeleteSequence(s)
      PROVE  ParentsInv' /\ RemovedStays
  <2>1. \A e \in Enrollments : e[1] = s => enr'[e].status \in {"absent", "removed"}
    <3>1. \A e \in Enrollments : e[1] = s => e \in {s} \X Contacts
      BY <1>0
    <3> QED BY <1>3, <3>1, CascadeRemoves DEF DeleteSequence
  <2>2. \A e \in Enrollments : enr'[e].status = enr[e].status \/ enr'[e].status = "removed"
    BY <1>3, CascadeRemoves DEF DeleteSequence
  <2>3. contact' = contact /\ \A t \in Seqs : t # s => seq'[t] = seq[t]
    BY <1>3 DEF DeleteSequence
  <2> QED BY <1>0, <2>1, <2>2, <2>3
<1>4. ASSUME NEW c \in Contacts, DeleteContact(c)
      PROVE  ParentsInv' /\ RemovedStays
  <2>1. \A e \in Enrollments : e[2] = c => enr'[e].status \in {"absent", "removed"}
    <3>1. \A e \in Enrollments : e[2] = c => e \in Seqs \X {c}
      BY <1>0
    <3> QED BY <1>4, <3>1, CascadeRemoves DEF DeleteContact
  <2>2. \A e \in Enrollments : enr'[e].status = enr[e].status \/ enr'[e].status = "removed"
    BY <1>4, CascadeRemoves DEF DeleteContact
  <2>3. seq' = seq /\ \A d \in Contacts : d # c => contact'[d] = contact[d]
    BY <1>4 DEF DeleteContact
  <2> QED BY <1>0, <2>1, <2>2, <2>3
<1>5. ASSUME NEW s \in Seqs, NEW l \in StepLists, NEW C \in SUBSET Contacts, Enroll(s, l, C)
      PROVE  ParentsInv' /\ RemovedStays
  <2>1. \A e \in Enrollments : \/ enr'[e] = enr[e]
                               \/ enr[e].status = "absent" /\ seq[e[1]].state = "live" /\ contact[e[2]] # "deleted"
    BY <1>0, <1>5 DEF Enroll
  <2>2. seq' = seq /\ contact' = contact
    BY <1>5 DEF Enroll
  <2> QED BY <2>1, <2>2
<1>6. ASSUME NEW e \in Enrollments, Stop(e) \/ DaysPass(e)
      PROVE  ParentsInv' /\ RemovedStays
  <2>1. \A d \in Enrollments : enr'[d].status = enr[d].status \/ (d = e /\ enr[e].status = "active")
    <3> TAKE d \in Enrollments
    <3>1. enr \in [Enrollments -> [status : {"absent", "active", "removed"} \union Terminal,
                                  current_step : 0..MaxSteps, next_send_at : Times]]
      OBVIOUS
    <3>2. CASE DaysPass(e)
      <4>1. enr' = [enr EXCEPT ![e] = [enr[e] EXCEPT !.next_send_at = "due"]]
        BY <3>2 DEF DaysPass
      <4>2. d # e => enr'[d] = enr[d]
        BY ONLY <3>1, <4>1
      <4>3. enr'[e] = [enr[e] EXCEPT !.next_send_at = "due"]
        BY ONLY <3>1, <4>1, e \in Enrollments
      <4>4. enr'[e].status = enr[e].status
        BY ONLY <3>1, <4>3, e \in Enrollments
      <4> QED BY <4>2, <4>4
    <3>3. CASE Stop(e)
      <4>1. d # e => enr'[d] = enr[d]
        <5>1. \/ enr' = enr
              \/ enr' = [enr EXCEPT ![e].status = "stopped", ![e].next_send_at = "null"]
          BY <3>3 DEF Stop, EndEnrollment
        <5> QED BY <5>1
      <4> QED BY <3>3, <4>1 DEF Stop
    <3> QED BY <1>6, <3>2, <3>3
  <2>2. seq' = seq /\ contact' = contact
    BY <1>6 DEF Stop, DaysPass
  <2> QED BY <2>1, <2>2
<1>7. ASSUME NEW c \in Contacts, EditContact(c) \/ Unsubscribe(c)
      PROVE  ParentsInv' /\ RemovedStays
  BY <1>0, <1>7 DEF EditContact, Unsubscribe
<1> QED BY <1>1, <1>2, <1>3, <1>4, <1>5, <1>6, <1>7 DEF UserNext

(* A tick ends or advances active enrollments only. *)
LEMMA WorkerKeepsParents ==
  ASSUME TypeOK, RowInv, ParentsInv, NEW w \in Workers,
         StartTick(w) \/ RowNext(w) \/ FaultNext(w)
  PROVE  ParentsInv' /\ RemovedStays
<1> USE DEF db, out
<1>1. seq' = seq /\ contact' = contact
  BY DEF StartTick, RowNext, FaultNext, FinishTick, LoadSteps, CompleteEmpty, StopNoEmail,
         CheckSuppression, FlipUnsubscribed, ClaimStep, LoseClaim, RecordSend, RecordViolatesKey,
         Transport, TransportFails, RowThrows, Crash
<1>2. ASSUME NEW e \in Enrollments
      PROVE  enr'[e] = enr[e] \/ enr[e].status = "active"
  <2>1. CASE UNCHANGED enr
    BY <2>1
  <2>2. ASSUME NEW d, NEW st \in Terminal, EndEnrollment(d, st)
        PROVE  enr'[e] = enr[e] \/ enr[e].status = "active"
    <3>1. enr' = enr \/ (enr[d].status = "active"
                          /\ enr' = [enr EXCEPT ![d].status = st, ![d].next_send_at = "null"])
      BY <2>2 DEF EndEnrollment
    <3>2. d # e => enr'[e] = enr[e]
      BY <3>1 DEF TypeOK
    <3> QED BY <3>1, <3>2
  <2>3. CASE ClaimStep(w)
    <3> DEFINE d == tick[w].row.e
    <3>1. enr[d].status = "active"
      BY <2>3 DEF ClaimStep, ClaimMatches
    <3>2. \E x : enr' = [enr EXCEPT ![d] = x]
      BY <2>3 DEF ClaimStep
    <3> HIDE DEF d
    <3> QED BY <3>1, <3>2 DEF TypeOK
  <2> QED BY <2>1, <2>2, <2>3
       DEF StartTick, RowNext, FaultNext, FinishTick, LoadSteps, CompleteEmpty, StopNoEmail,
           CheckSuppression, FlipUnsubscribed, LoseClaim, RecordSend, RecordViolatesKey,
           Transport, TransportFails, RowThrows, Crash, Terminal
<1> QED BY <1>1, <1>2 DEF ParentsInv, ParentsExist, RemovedStays

\* The step at hand in tick w.
Hand(w) == <<tick[w].row.e, tick[w].row.current_step>>

(* A step of a tick loses at most what it has in hand. *)
LEMMA LoseOnlyHand ==
  ASSUME TypeOK, RowInv, RemovedStays, NEW w \in Workers, Quiet,
         \A v \in Workers \ {w} : tick'[v] = tick[v]
  PROVE  Lost' \subseteq Lost \union {Hand(w)}
<1> SUFFICES ASSUME NEW d \in Lost', d # Hand(w)
             PROVE  d \in Lost
  OBVIOUS
<1>1. /\ d \in Enrollments \X StepIndex
      /\ enr'[d[1]].status # "removed" /\ d[2] < enr'[d[1]].current_step /\ mail'[d[1]][d[2]] = 0
      /\ \A v \in Workers : ~Holds(v, d[1], d[2])'
  BY DEF Lost
<1>2. d = <<d[1], d[2]>> /\ d[1] \in Enrollments
  BY <1>1
<1>3. \A v \in Workers : ~Holds(v, d[1], d[2])
  <2>1. ASSUME NEW v \in Workers \ {w}
        PROVE  ~Holds(v, d[1], d[2])
    BY <1>1 DEF Holds
  <2>2. ~Holds(w, d[1], d[2])
    BY <1>2 DEF Holds, Hand
  <2> QED BY <2>1, <2>2
<1> QED BY <1>1, <1>2, <1>3 DEF Lost, Quiet, RemovedStays

(* If it still has it in hand, or had nothing claimed, it loses nothing. *)
LEMMA LoseNothing ==
  ASSUME TypeOK, RowInv, RemovedStays, NEW w \in Workers, Quiet,
         \A v \in Workers \ {w} : tick'[v] = tick[v],
         tick[w].pc \in {"claimed", "recorded"} =>
            tick'[w].pc \in {"claimed", "recorded"} /\ tick'[w].row = tick[w].row
  PROVE  Lost' \subseteq Lost
<1> SUFFICES ASSUME NEW d \in Lost'
             PROVE  d \in Lost
  OBVIOUS
<1>1. /\ d \in Enrollments \X StepIndex
      /\ enr'[d[1]].status # "removed" /\ d[2] < enr'[d[1]].current_step /\ mail'[d[1]][d[2]] = 0
      /\ \A v \in Workers : ~Holds(v, d[1], d[2])'
  BY DEF Lost
<1>2. d[1] \in Enrollments
  BY <1>1
<1>3. \A v \in Workers : ~Holds(v, d[1], d[2])
  BY <1>1 DEF Holds
<1> QED BY <1>1, <1>2, <1>3 DEF Lost, Quiet, RemovedStays

(* Mailing the step in hand is not losing it. *)
LEMMA MailLosesNothing ==
  ASSUME TypeOK, RowInv, RemovedStays, NEW w \in Workers, Transport(w)
  PROVE  Lost' \subseteq Lost
<1> DEFINE e == tick[w].row.e
           k == tick[w].row.current_step
<1>1. e \in Enrollments /\ k \in StepIndex
  <2>1. tick[w].row \in Row /\ HasStep(w) /\ tick[w].steps \in StepLists \union {<<>>}
    BY DEF Transport, RowInv, TypeOK
  <2>2. Len(tick[w].steps) \in 0..MaxSteps /\ MaxSteps \in Nat
    BY <2>1, Constants
  <2> QED BY <2>1, <2>2 DEF HasStep, Row, StepIndex
<1>2. /\ mail' = [mail EXCEPT ![e][k] = mail[e][k] + 1] /\ enr' = enr
      /\ \A v \in Workers \ {w} : tick'[v] = tick[v]
  BY DEF Transport, NextRow
<1>3. mail'[e][k] # 0
  BY <1>1, <1>2 DEF TypeOK
<1> SUFFICES ASSUME NEW d \in Lost'
             PROVE  d \in Lost
  OBVIOUS
<1>4. /\ d \in Enrollments \X StepIndex
      /\ enr'[d[1]].status # "removed" /\ d[2] < enr'[d[1]].current_step /\ mail'[d[1]][d[2]] = 0
      /\ \A v \in Workers : ~Holds(v, d[1], d[2])'
  BY DEF Lost
<1>5. d[1] \in Enrollments /\ d[2] \in StepIndex
  BY <1>4
<1>6. ~(d[1] = e /\ d[2] = k)
  BY <1>3, <1>4
<1>7. mail[d[1]][d[2]] = 0
  BY <1>2, <1>4, <1>5, <1>6 DEF TypeOK
<1>8. \A v \in Workers : ~Holds(v, d[1], d[2])
  BY <1>2, <1>4, <1>6 DEF Holds
<1> QED BY <1>2, <1>4, <1>7, <1>8 DEF Lost

(* A claim moves the position past the step it takes in hand. *)
LEMMA ClaimLosesNothing ==
  ASSUME TypeOK, RowInv, RemovedStays, NEW w \in Workers, ClaimStep(w)
  PROVE  Lost' \subseteq Lost
<1> DEFINE e == tick[w].row.e
           k == tick[w].row.current_step
<1>1. e \in Enrollments /\ k \in Nat
  BY DEF ClaimStep, RowInv, Row
<1>2. /\ mail' = mail /\ tick' = [tick EXCEPT ![w].pc = "claimed"]
      /\ enr[e].current_step = k /\ enr[e].status = "active"
  BY DEF ClaimStep, Goto, ClaimMatches, out
<1>3. /\ enr'[e].current_step = k + 1
      /\ \A d \in Enrollments \ {e} : enr'[d] = enr[d]
  <2>1. PICK st, t : enr' = [enr EXCEPT ![e] = [status |-> st, current_step |-> @.current_step + 1,
                                               next_send_at |-> t]]
    BY DEF ClaimStep
  <2> HIDE DEF e, k
  <2>2. enr' = [enr EXCEPT ![e] = [status |-> st, current_step |-> k + 1, next_send_at |-> t]]
    BY <1>2, <2>1
  <2>3. enr \in [Enrollments -> [status : {"absent", "active", "removed"} \union Terminal,
                                current_step : 0..MaxSteps, next_send_at : Times]]
    BY DEF TypeOK
  <2> QED BY ONLY <1>1, <2>2, <2>3
<1>4. tick'[w].pc = "claimed" /\ tick'[w].row = tick[w].row
  BY <1>2 DEF TypeOK
<1> SUFFICES ASSUME NEW d \in Lost'
             PROVE  d \in Lost
  OBVIOUS
<1>5. /\ d \in Enrollments \X StepIndex
      /\ enr'[d[1]].status # "removed" /\ d[2] < enr'[d[1]].current_step /\ mail'[d[1]][d[2]] = 0
      /\ \A v \in Workers : ~Holds(v, d[1], d[2])'
  BY DEF Lost
<1>6. d[1] \in Enrollments /\ d[2] \in Nat
  BY <1>5 DEF StepIndex
<1>7. ~(d[1] = e /\ d[2] = k)
  BY <1>4, <1>5 DEF Holds
<1>8. d[2] < enr[d[1]].current_step
  <2>1. CASE d[1] = e
    BY <1>1, <1>2, <1>3, <1>5, <1>6, <1>7, <2>1
  <2>2. CASE d[1] # e
    BY <1>3, <1>5, <1>6, <2>2
  <2> QED BY <2>1, <2>2
<1>9. \A v \in Workers : ~Holds(v, d[1], d[2])
  <2>1. \A v \in Workers \ {w} : tick'[v] = tick[v]
    BY <1>2
  <2>2. tick[w].pc = "clear"
    BY DEF ClaimStep
  <2> QED BY <1>5, <2>1, <2>2 DEF Holds
<1> QED BY <1>2, <1>5, <1>6, <1>8, <1>9 DEF Lost, RemovedStays

(* The foreign keys refuse a row only for an enrollment that is removed. *)
LEMMA RefusedIsRemoved ==
  ASSUME TypeOK, ClaimInv, ParentsInv, RemovedStays, NEW w \in Workers, RecordViolatesKey(w)
  PROVE  Lost' \subseteq Lost
<1> DEFINE e == tick[w].row.e
           k == tick[w].row.current_step
<1>1. e \in Enrollments /\ k \in StepIndex
  <2>1. tick[w].row \in Row /\ HasStep(w) /\ tick[w].steps \in StepLists \union {<<>>}
    BY DEF RecordViolatesKey, ClaimInv, RowInv, TypeOK
  <2>2. Len(tick[w].steps) \in 0..MaxSteps /\ MaxSteps \in Nat
    BY <2>1, Constants
  <2> QED BY <2>1, <2>2 DEF HasStep, Row, StepIndex
<1>2. Holds(w, e, k) /\ ~ParentsExist(e)
  BY DEF RecordViolatesKey, Holds
<1>3. k < enr[e].current_step
  BY <1>1, <1>2 DEF ClaimInv, HoldInv
<1>4. enr[e].status = "removed"
  <2>1. enr[e].status # "absent"
    BY <1>1, <1>3 DEF ClaimInv, SentInv, StepIndex
  <2> QED BY <1>1, <1>2, <2>1 DEF ParentsInv
<1>5. Quiet /\ \A v \in Workers \ {w} : tick'[v] = tick[v]
  <2>1. Quiet
    BY WorkerQuiet DEF RecordViolatesKey, RowNext, ClaimInv, ClaimStep, RecordSend, Transport
  <2> QED BY <2>1 DEF RecordViolatesKey, NextRow
<1>6. Lost' \subseteq Lost \union {Hand(w)}
  BY <1>5, LoseOnlyHand DEF ClaimInv
<1>7. Hand(w) \notin Lost'
  BY <1>1, <1>4 DEF Lost, Hand, RemovedStays
<1> QED BY <1>6, <1>7

(* A step loses nothing, or one step of an enrollment for one more fault. *)
LEMMA LossStep ==
  ASSUME TypeOK, ClaimInv, ParentsInv, RemovedStays, [Next]_vars
  PROVE  \/ Lost' \subseteq Lost /\ faults' = faults
         \/ \E x : Lost' \subseteq Lost \union {x} /\ faults' = faults + 1
<1> USE DEF db, out
<1>1. CASE UserNext
  <2>1. Quiet
    BY <1>1, UserQuiet DEF ClaimInv
  <2>2. tick' = tick /\ faults' = faults
    BY <1>1 DEF UserNext, CreateSequence, UpdateSequence, DeleteSequence, Enroll, Stop, EditContact,
           DeleteContact, Unsubscribe, DaysPass
  <2>3. Lost' \subseteq Lost
    BY <2>1, <2>2 DEF Lost, Quiet, RemovedStays, Holds
  <2> QED BY <2>2, <2>3
<1>2. ASSUME NEW w \in Workers, StartTick(w) \/ RowNext(w)
      PROVE  Lost' \subseteq Lost /\ faults' = faults
  <2>1. faults' = faults
    BY <1>2 DEF StartTick, RowNext, FinishTick, LoadSteps, CompleteEmpty, StopNoEmail,
         CheckSuppression, FlipUnsubscribed, ClaimStep, LoseClaim, RecordSend, RecordViolatesKey,
         Transport
  <2>2. CASE ClaimStep(w) \/ Transport(w) \/ RecordViolatesKey(w)
    BY <2>1, <2>2, ClaimLosesNothing, MailLosesNothing, RefusedIsRemoved DEF ClaimInv
  <2>3. CASE RecordSend(w)
    <3>1. /\ mail' = mail /\ enr' = enr
          /\ \A v \in Workers \ {w} : tick'[v] = tick[v]
          /\ tick'[w].pc = "recorded" /\ tick'[w].row = tick[w].row
      BY <2>3 DEF RecordSend, Goto, TypeOK
    <3>2. \A d, v : v \in Workers /\ Holds(v, d[1], d[2]) => Holds(v, d[1], d[2])'
      BY <3>1 DEF Holds
    <3> QED BY <2>1, <3>1, <3>2 DEF Lost
  <2>4. CASE /\ ~(ClaimStep(w) \/ Transport(w) \/ RecordViolatesKey(w) \/ RecordSend(w))
    <3>1. Quiet
      BY <1>2, <2>4, WorkerQuiet DEF ClaimInv
    <3>2. tick[w].pc \notin {"claimed", "recorded"}
      BY <1>2, <2>4 DEF StartTick, RowNext, FinishTick, LoadSteps, CompleteEmpty, StopNoEmail,
         CheckSuppression, FlipUnsubscribed, LoseClaim
    <3>3. \E x : tick' = [tick EXCEPT ![w] = x]
      BY <1>2, <2>4 DEF StartTick, RowNext, FinishTick, LoadSteps, CompleteEmpty, StopNoEmail,
         CheckSuppression, FlipUnsubscribed, LoseClaim, Goto, NextRow
    <3>4. \A v \in Workers \ {w} : tick'[v] = tick[v]
      BY <3>3 DEF TypeOK
    <3> QED BY <2>1, <3>1, <3>2, <3>4, LoseNothing DEF ClaimInv
  <2> QED BY <2>2, <2>3, <2>4
<1>3. ASSUME NEW w \in Workers, FaultNext(w)
      PROVE  Lost' \subseteq Lost \union {Hand(w)} /\ faults' = faults + 1
  <2>0. faults \in Nat
    BY ConstantsAssumption DEF TypeOK, ConstantsAssumption
  <2>1. faults' = faults + 1
    BY <1>3 DEF FaultNext, TransportFails, RowThrows, Crash, Fault
  <2>2. \A v \in Workers \ {w} : tick'[v] = tick[v]
    <3>1. CASE NextRow(w)
      BY <3>1, NextRowKeepsType
    <3>2. CASE Crash(w)
      BY <3>2 DEF Crash, TypeOK
    <3> QED BY <1>3, <3>1, <3>2 DEF FaultNext, TransportFails, RowThrows
  <2>3. ~ClaimStep(w) /\ ~RecordSend(w) /\ ~Transport(w)
    <3>1. faults' # faults
      BY <2>0, <2>1
    <3> QED BY <3>1 DEF ClaimStep, RecordSend, Transport
  <2>4. Quiet
    BY <1>3, <2>3, WorkerQuiet DEF ClaimInv
  <2> QED BY <2>1, <2>2, <2>4, LoseOnlyHand DEF ClaimInv
<1>4. CASE UNCHANGED vars
  BY <1>4 DEF vars, Lost, Holds
<1> QED BY <1>1, <1>2, <1>3, <1>4 DEF Next

(* sequences.js:533-546, the other half of "exactly once": a step that an
   enrollment has passed was mailed, or a tick is about to, or it cost a fault of
   its own, unless the enrollment was deleted with its sequence or contact. *)
THEOREM NoStepSkipped == Spec => []LossesAreFaults
<1> DEFINE LossInv == IsFiniteSet(Lost) /\ Cardinality(Lost) <= faults
<1>1. Init => ParentsInv /\ LossInv
  <2> SUFFICES ASSUME Init
               PROVE  ParentsInv /\ LossInv
    OBVIOUS
  <2>1. Lost = {}
    BY DEF Init, Lost, StepIndex
  <2> QED BY <2>1, FS_EmptySet DEF Init, ParentsInv
<1>2. TypeOK /\ ClaimInv /\ ParentsInv /\ [Next]_vars => ParentsInv' /\ RemovedStays
  <2>1. ASSUME ParentsInv, UNCHANGED vars
        PROVE  ParentsInv' /\ RemovedStays
    BY <2>1 DEF vars, ParentsInv, ParentsExist, RemovedStays
  <2> QED BY <2>1, UserKeepsParents, WorkerKeepsParents DEF Next, ClaimInv
<1>3. TypeOK /\ ClaimInv /\ ParentsInv /\ LossInv /\ [Next]_vars => LossInv'
  <2> SUFFICES ASSUME TypeOK, ClaimInv, ParentsInv, LossInv, [Next]_vars
               PROVE  LossInv'
    OBVIOUS
  <2>1. \/ Lost' \subseteq Lost /\ faults' = faults
        \/ \E x : Lost' \subseteq Lost \union {x} /\ faults' = faults + 1
    BY <1>2, LossStep
  <2>2. faults \in Nat /\ Cardinality(Lost) \in Nat
    BY ConstantsAssumption, FS_CardinalityType DEF TypeOK, ConstantsAssumption
  <2>3. CASE Lost' \subseteq Lost /\ faults' = faults
    <3>1. IsFiniteSet(Lost') /\ Cardinality(Lost') <= Cardinality(Lost) /\ Cardinality(Lost') \in Nat
      BY <2>3, FS_Subset, FS_CardinalityType
    <3> QED BY <2>2, <2>3, <3>1
  <2>4. ASSUME NEW x, Lost' \subseteq Lost \union {x}, faults' = faults + 1
        PROVE  LossInv'
    <3>1. /\ IsFiniteSet(Lost \union {x})
          /\ Cardinality(Lost \union {x}) \in {Cardinality(Lost), Cardinality(Lost) + 1}
      BY FS_AddElement
    <3>2. /\ IsFiniteSet(Lost') /\ Cardinality(Lost') <= Cardinality(Lost \union {x})
          /\ Cardinality(Lost') \in Nat
      BY <2>4, <3>1, FS_Subset, FS_CardinalityType
    <3> QED BY <2>2, <2>4, <3>1, <3>2
  <2> QED BY <2>1, <2>3, <2>4
<1>4. LossInv => LossesAreFaults
  BY DEF LossesAreFaults
<1> HIDE DEF LossInv
<1> QED BY <1>1, <1>2, <1>3, <1>4, ClaimsHold, PTL DEF Spec
=============================================================================
