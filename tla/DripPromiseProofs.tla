-------------------------- MODULE DripPromiseProofs --------------------------
(***************************************************************************)
(* Proofs that the drip engine implements DripPromise, that its owner is   *)
(* told the truth about completions, and that an opt-out bites, for any    *)
(* sets of sequences and contacts, step lists, ticks and faults.           *)
(***************************************************************************)
EXTENDS DripSequencesProofs, FiniteSetTheorems

-----------------------------------------------------------------------------
(* Refinement.                                                             *)

Refines == [Promise!PromiseNext]_(Promise!promiseVars)

(* A step that leaves the table and the transport alone is a stutter. *)
LEMMA Stutter ==
    ASSUME \A e \in Enrollments : /\ enr'[e].status = enr[e].status
                                  /\ enr'[e].current_step = enr[e].current_step,
           UNCHANGED mail
    PROVE  Refines
  BY DEF Refines, Promise!promiseVars

(* A guarded end of an enrollment is the promise's End, or a stutter. *)
LEMMA EndRefines ==
    ASSUME TypeOK, NEW e \in Enrollments, NEW st \in Terminal,
           EndEnrollment(e, st), UNCHANGED mail
    PROVE  Refines
<1>1. CASE enr[e].status # "active"
  <2>1. enr' = enr
    BY <1>1 DEF EndEnrollment
  <2> QED
    BY <2>1, Stutter
<1>2. CASE enr[e].status = "active"
  <2>1. enr' = [enr EXCEPT ![e].status = st, ![e].next_send_at = "null"]
    BY <1>2 DEF EndEnrollment
  <2>2. \A d \in Enrollments : /\ enr'[d].status = IF d = e THEN st ELSE enr[d].status
                               /\ enr'[d].current_step = enr[d].current_step
    BY <2>1 DEF TypeOK
  <2>3. Promise!End(e, st)
    BY <1>2, <2>2 DEF Promise!End
  <2> QED
    BY <2>3 DEF Refines, Promise!PromiseNext, Promise!Ended, Terminal
<1> QED
  BY <1>1, <1>2

(* A cascading delete is the promise's Remove. *)
LEMMA CascadeRefines ==
    ASSUME TypeOK, NEW E \in SUBSET Enrollments, CascadeDelete(E), UNCHANGED mail
    PROVE  Refines
<1>1. \A d \in Enrollments :
        /\ enr'[d].status = IF d \in E /\ enr[d].status # "absent" THEN "removed" ELSE enr[d].status
        /\ enr'[d].current_step = enr[d].current_step
  BY DEF CascadeDelete, TypeOK
<1>2. Promise!Remove(E)
  BY <1>1 DEF Promise!Remove
<1> QED
  BY <1>2 DEF Refines, Promise!PromiseNext

(* The users' actions refine the promise. *)
LEMMA UserRefines ==
    ASSUME TypeOK, ClaimInv, UserNext
    PROVE  Refines
<1> USE DEF db, out
<1>1. UNCHANGED mail
  BY DEF UserNext, CreateSequence, UpdateSequence, DeleteSequence, Enroll, Stop, EditContact,
         DeleteContact, Unsubscribe, DaysPass
<1>2. CASE UNCHANGED enr
  BY <1>1, <1>2, Stutter
<1>3. ASSUME NEW s \in Seqs, DeleteSequence(s)
      PROVE  Refines
  <2>1. {s} \X Contacts \in SUBSET Enrollments
    BY DEF Enrollments
  <2> QED
    BY <1>1, <1>3, <2>1, CascadeRefines DEF DeleteSequence
<1>4. ASSUME NEW c \in Contacts, DeleteContact(c)
      PROVE  Refines
  <2>1. Seqs \X {c} \in SUBSET Enrollments
    BY DEF Enrollments
  <2> QED
    BY <1>1, <1>4, <2>1, CascadeRefines DEF DeleteContact
<1>5. ASSUME NEW s \in Seqs, NEW l \in StepLists, NEW C \in SUBSET Contacts, Enroll(s, l, C)
      PROVE  Refines
  <2> DEFINE E == {e \in Enrollments :
                     e \in {s} \X C /\ contact[e[2]] # "deleted" /\ enr[e].status = "absent"}
  <2>1. \A d \in Enrollments :
          /\ enr'[d].status = IF d \in E THEN "active" ELSE enr[d].status
          /\ enr'[d].current_step = enr[d].current_step
    BY <1>5 DEF Enroll, ClaimInv, SentInv
  <2>2. Promise!Begin(E)
    BY <1>1, <2>1 DEF Promise!Begin
  <2>3. E \in SUBSET Enrollments
    OBVIOUS
  <2>4. \E D \in SUBSET Enrollments : Promise!Begin(D)
    BY <2>2, <2>3 DEF Promise!Begin
  <2> QED
    BY <2>4 DEF Refines, Promise!PromiseNext
<1>6. ASSUME NEW e \in Enrollments, Stop(e)
      PROVE  Refines
  BY <1>1, <1>6, EndRefines DEF Stop, Terminal
<1>7. ASSUME NEW e \in Enrollments, DaysPass(e)
      PROVE  Refines
  <2>1. \A d \in Enrollments : /\ enr'[d].status = enr[d].status
                               /\ enr'[d].current_step = enr[d].current_step
    BY <1>7 DEF DaysPass, TypeOK
  <2> QED
    BY <1>1, <2>1, Stutter
<1> QED
  BY <1>2, <1>3, <1>4, <1>5, <1>6, <1>7
     DEF UserNext, CreateSequence, UpdateSequence, EditContact, Unsubscribe

(* The claim is the promise's Consume, the transport its Deliver; an ended row
   is an End, and all else a worker does is a stutter. *)
LEMMA WorkerRefines ==
    ASSUME TypeOK, ClaimInv, NEW w \in Workers,
           StartTick(w) \/ RowNext(w) \/ FaultNext(w)
    PROVE  Refines
<1> USE DEF db, out
<1> DEFINE e == tick[w].row.e
           k == tick[w].row.current_step
<1>1. ASSUME tick[w].pc \notin {"idle", "loop"}
      PROVE  e \in Enrollments
  BY <1>1 DEF ClaimInv, RowInv, Row
<1>2. ASSUME tick[w].pc \in {"clear", "recorded"}
      PROVE  k \in StepIndex /\ k < MaxSteps
  <2>1. k \in 0..MaxSteps /\ k < Len(tick[w].steps)
    BY <1>2 DEF ClaimInv, RowInv, Row, HasStep
  <2>2. Len(tick[w].steps) \in 0..MaxSteps
    BY Constants DEF TypeOK
  <2> QED
    BY <2>1, <2>2, Constants DEF StepIndex
<1>3. CASE UNCHANGED <<enr, mail>>
  BY <1>3, Stutter
<1>4. ASSUME NEW st \in Terminal, tick[w].pc \in {"loaded", "optedOut"},
             EndEnrollment(e, st), UNCHANGED mail
      PROVE  Refines
  BY <1>1, <1>4, EndRefines
<1>5. CASE ClaimStep(w)
  <2>1. e \in Enrollments /\ k \in StepIndex /\ k < MaxSteps
    BY <1>1, <1>2, <1>5 DEF ClaimStep
  <2>2. /\ enr[e].status = "active" /\ enr[e].current_step = k
        /\ enr'[e].status \in {"active", "completed"} /\ enr'[e].current_step = k + 1
        /\ \A d \in Enrollments \ {e} : enr'[d] = enr[d]
        /\ UNCHANGED mail
    BY <1>5, <2>1 DEF ClaimStep, ClaimMatches, TypeOK
  <2> HIDE DEF e, k
  <2>3. PICK st \in {"active", "completed"} : enr'[e].status = st
    BY <2>2
  <2>4. [d \in Enrollments |-> enr'[d].status]
          = [[d \in Enrollments |-> enr[d].status] EXCEPT ![e] = st]
    BY <2>1, <2>2, <2>3
  <2>5. [d \in Enrollments |-> enr'[d].current_step]
          = [[d \in Enrollments |-> enr[d].current_step] EXCEPT ![e] = @ + 1]
    BY <2>1, <2>2
  <2>6. Promise!Consume(e)
    BY <2>1, <2>2, <2>4, <2>5 DEF Promise!Consume
  <2>7. \E d \in Enrollments : Promise!Consume(d)
    BY <2>1, <2>6 DEF Promise!Consume
  <2> QED
    BY <2>7 DEF Refines, Promise!PromiseNext
<1>6. CASE Transport(w)
  <2>1. e \in Enrollments /\ k \in StepIndex
    BY <1>1, <1>2, <1>6 DEF Transport
  <2>2. mail' = [mail EXCEPT ![e][k] = @ + 1] /\ UNCHANGED enr
    BY <1>6 DEF Transport
  <2>3. Holds(w, e, k)
    BY <1>6 DEF Holds, Transport
  <2> HIDE DEF e, k
  <2>4. mail[e][k] = 0 /\ k < enr[e].current_step
    BY <2>1, <2>3 DEF ClaimInv, HoldInv
  <2>5. mail' = [mail EXCEPT ![e][k] = 1]
    BY <2>1, <2>2, <2>4 DEF TypeOK
  <2>6. Promise!Deliver(e, k)
    BY <2>1, <2>2, <2>4, <2>5 DEF Promise!Deliver
  <2> QED
    BY <2>1, <2>6 DEF Refines, Promise!PromiseNext, StepIndex
<1> QED
  BY <1>3, <1>4, <1>5, <1>6
     DEF StartTick, RowNext, FaultNext, FinishTick, LoadSteps, CompleteEmpty, StopNoEmail,
         CheckSuppression, FlipUnsubscribed, LoseClaim, RecordSend, RecordViolatesKey,
         TransportFails, RowThrows, Crash, Terminal

(* Migration 133 and sequences.js:25-30: the engine with its tables, snapshots
   and faults implements the promise, for every instance. *)
THEOREM PromiseKept == Spec => KeepsPromise
<1>1. Init => Promise!PromiseInit
  BY DEF Init, Promise!PromiseInit, StepIndex
<1>2. TypeOK /\ ClaimInv /\ [Next]_vars => Refines
  <2>1. ASSUME UNCHANGED vars PROVE Refines
    BY <2>1, Stutter DEF vars
  <2> QED
    BY <2>1, UserRefines, WorkerRefines DEF Next
<1> QED
  BY <1>1, <1>2, ClaimsHold, PTL DEF Spec, KeepsPromise, Promise!PromiseSpec, Refines

-----------------------------------------------------------------------------
(* Completions.                                                            *)

Over(e) == enr[e].status \in {"completed", "removed"}

\* Between its claim and the notice, a tick at the last step holds an
\* enrollment that its claim completed.
NoticeInv ==
    /\ \A e \in notified : Over(e)
    /\ \A w \in Workers :
          tick[w].pc \in {"claimed", "recorded"} /\ ~HasNext(w) => Over(tick[w].row.e)

(* What is completed or removed stays so. *)
LEMMA OverStays ==
    ASSUME TypeOK, ClaimInv, [Next]_vars, NEW e \in Enrollments, Over(e)
    PROVE  Over(e)'
<1>1. CASE UNCHANGED enr
  BY <1>1 DEF Over
<1>2. CASE \E E : CascadeDelete(E)
  <2>1. enr'[e] = enr[e] \/ enr'[e].status = "removed"
    BY <1>2, CascadeKeepsType
  <2> QED
    BY <2>1 DEF Over
<1>3. CASE \E s \in Seqs, l \in StepLists : \E C \in SUBSET Contacts : Enroll(s, l, C)
  BY <1>3 DEF Enroll, Over
<1>4. ASSUME NEW d \in Enrollments, NEW st \in Terminal, EndEnrollment(d, st)
      PROVE  Over(e)'
  BY <1>4, EndKeepsType DEF Over
<1>5. CASE \E d \in Enrollments : DaysPass(d)
  BY <1>5 DEF DaysPass, Over, TypeOK, ClaimInv, NextInv
<1>6. CASE \E w \in Workers : ClaimStep(w)
  BY <1>6 DEF ClaimStep, ClaimMatches, Over, TypeOK
<1>7. CASE UserNext
  BY <1>1, <1>2, <1>3, <1>4, <1>5, <1>7
     DEF UserNext, CreateSequence, UpdateSequence, DeleteSequence, Stop, EditContact,
         DeleteContact, Unsubscribe, Terminal
<1>8. ASSUME NEW w \in Workers, StartTick(w) \/ RowNext(w) \/ FaultNext(w)
      PROVE  Over(e)'
  <2>1. tick[w].pc \in {"loaded", "optedOut"} => tick[w].row.e \in Enrollments
    BY DEF ClaimInv, RowInv, Row
  <2> QED
    BY <1>1, <1>4, <1>6, <1>8, <2>1
       DEF StartTick, RowNext, FaultNext, FinishTick, LoadSteps, CompleteEmpty, StopNoEmail,
           CheckSuppression, FlipUnsubscribed, LoseClaim, RecordSend, RecordViolatesKey,
           Transport, TransportFails, RowThrows, Crash, Terminal
<1> QED
  BY <1>1, <1>7, <1>8 DEF Next, vars

(* The claim of the last step completes the enrollment; the notice follows it. *)
LEMMA NoticeStep ==
    ASSUME TypeOK, ClaimInv, NoticeInv, [Next]_vars
    PROVE  NoticeInv'
<1> USE DEF db, out
<1>1. ASSUME NEW w \in Workers, tick[w].pc \in {"claimed", "recorded"}
      PROVE  tick[w].row.e \in Enrollments
  BY <1>1 DEF ClaimInv, RowInv, Row
<1>2. notified \subseteq Enrollments
  BY DEF TypeOK
<1>3. ASSUME UNCHANGED notified,
             \A w \in Workers : tick'[w].pc \in {"claimed", "recorded"} => tick'[w] = tick[w]
      PROVE  NoticeInv'
  BY <1>1, <1>2, <1>3, OverStays DEF NoticeInv, HasNext
<1>4. CASE UserNext \/ UNCHANGED vars
  BY <1>3, <1>4
     DEF UserNext, CreateSequence, UpdateSequence, DeleteSequence, Enroll, Stop, EditContact,
         DeleteContact, Unsubscribe, DaysPass, vars
<1>5. ASSUME NEW w \in Workers, NextRow(w), NotifyIfLast(w), tick[w].pc = "recorded"
      PROVE  NoticeInv'
  <2>1. tick'[w].pc = "loop" /\ \A v \in Workers \ {w} : tick'[v] = tick[v]
    BY <1>5, NextRowKeepsType
  <2>2. \A e \in notified' : e \in Enrollments /\ Over(e)
    BY <1>1, <1>2, <1>5 DEF NotifyIfLast, NoticeInv
  <2>3. \A e \in notified' : Over(e)'
    BY <2>2, OverStays
  <2>4. ASSUME NEW v \in Workers, tick'[v].pc \in {"claimed", "recorded"}, ~HasNext(v)'
        PROVE  Over(tick[v].row.e)' /\ tick'[v] = tick[v]
    <3>1. v # w /\ tick'[v] = tick[v]
      BY <2>1, <2>4
    <3>2. ~HasNext(v) /\ tick[v].pc \in {"claimed", "recorded"}
      BY <2>4, <3>1 DEF HasNext
    <3>3. tick[v].row.e \in Enrollments /\ Over(tick[v].row.e)
      BY <1>1, <3>2 DEF NoticeInv
    <3>4. enr'[tick[v].row.e].status \in {"completed", "removed"}
      BY <3>3, OverStays DEF Over
    <3> QED
      BY <3>1, <3>4 DEF Over
  <2> QED
    BY <2>3, <2>4 DEF NoticeInv, Over
<1>6. ASSUME NEW w \in Workers, NEW pc \in {"claimed", "recorded"}, Goto(w, pc),
             UNCHANGED notified,
             ~HasNext(w) => enr'[tick[w].row.e].status \in {"completed", "removed"}
      PROVE  NoticeInv'
  <2>1. /\ tick'[w].row = tick[w].row /\ tick'[w].steps = tick[w].steps
        /\ \A v \in Workers \ {w} : tick'[v] = tick[v]
    BY <1>6, GotoKeepsType
  <2>2. \A e \in notified' : Over(e)'
    BY <1>2, <1>6, OverStays DEF NoticeInv
  <2>3. ASSUME NEW v \in Workers, tick'[v].pc \in {"claimed", "recorded"}, ~HasNext(v)'
        PROVE  enr'[tick'[v].row.e].status \in {"completed", "removed"}
    <3>1. CASE v = w
      BY <1>6, <2>1, <2>3, <3>1 DEF HasNext, Over
    <3>2. CASE v # w
      <4>1. tick'[v] = tick[v]
        BY <2>1, <3>2
      <4>2. tick[v].row.e \in Enrollments /\ Over(tick[v].row.e)
        BY <1>1, <2>3, <4>1 DEF NoticeInv, HasNext
      <4> QED
        BY <4>1, <4>2, OverStays DEF Over
    <3> QED
      BY <3>1, <3>2
  <2> QED
    BY <2>2, <2>3 DEF NoticeInv, Over
<1>7. ASSUME NEW w \in Workers, ClaimStep(w)
      PROVE  NoticeInv'
  <2>1. tick[w].row.e \in Enrollments
    BY <1>7 DEF ClaimStep, ClaimInv, RowInv, Row
  <2>2. ~HasNext(w) => enr'[tick[w].row.e].status = "completed"
    BY <1>7, <2>1 DEF ClaimStep, TypeOK
  <2>3. Goto(w, "claimed") /\ UNCHANGED notified
    BY <1>7 DEF ClaimStep
  <2> QED
    BY <1>6, <2>2, <2>3
<1>8. ASSUME NEW w \in Workers, RecordSend(w)
      PROVE  NoticeInv'
  <2>1. tick[w].row.e \in Enrollments /\ UNCHANGED enr
    BY <1>1, <1>8 DEF RecordSend
  <2> QED
    BY <1>6, <1>8, <2>1 DEF RecordSend, NoticeInv, Over
<1>9. ASSUME NEW w \in Workers, StartTick(w) \/ RowNext(w) \/ FaultNext(w)
      PROVE  NoticeInv'
  <2>1. CASE Transport(w) \/ TransportFails(w)
    BY <1>5, <2>1 DEF Transport, TransportFails
  <2>2. CASE ~(ClaimStep(w) \/ RecordSend(w) \/ Transport(w) \/ TransportFails(w))
    <3>1. UNCHANGED notified
      BY <1>9, <2>2
         DEF StartTick, RowNext, FaultNext, FinishTick, LoadSteps, CompleteEmpty, StopNoEmail,
             CheckSuppression, FlipUnsubscribed, LoseClaim, RecordViolatesKey, RowThrows, Crash
    <3>2. \A v \in Workers : tick'[v].pc \in {"claimed", "recorded"} => tick'[v] = tick[v]
      BY <1>9, <2>2, WorkerQuiet DEF Quiet, ClaimInv
    <3> QED
      BY <1>3, <3>1, <3>2
  <2> QED
    BY <1>7, <1>8, <1>9, <2>1, <2>2
<1> QED
  BY <1>4, <1>9 DEF Next

(* sequences.js: the owner is told of a completion only if the enrollment did
   complete, whatever became of it, its sequence or its contact since. *)
THEOREM NoticesAreTrue == Spec => []NoticeMeansCompleted
<1>1. Init => NoticeInv
  BY DEF Init, NoticeInv, IdleTick
<1>2. TypeOK /\ ClaimInv /\ NoticeInv /\ [Next]_vars => NoticeInv'
  BY NoticeStep
<1>3. NoticeInv => NoticeMeansCompleted
  BY DEF NoticeInv, NoticeMeansCompleted, Over
<1> QED
  BY <1>1, <1>2, <1>3, ClaimsHold, PTL DEF Spec

-----------------------------------------------------------------------------
(* Opt-outs.                                                               *)

\* Ticks past the suppression check with a row of contact c.
Past(c) == {w \in Workers : tick[w].pc \in {"clear", "claimed", "recorded"}
                            /\ tick[w].row.e[2] = c}

\* After the opt-out nobody passes the check any more, so each mail uses up one
\* of the ticks that had.
OptOutInv ==
    \A c \in Contacts :
        IF c \in suppressed
        THEN late[c] + Cardinality(Past(c)) <= Cardinality(Workers)
        ELSE late[c] = 0

LEMMA PastFinite ==
    ASSUME IsFiniteSet(Workers), NEW c
    PROVE  /\ IsFiniteSet(Past(c)) /\ Cardinality(Past(c)) \in Nat
           /\ Cardinality(Past(c)) <= Cardinality(Workers)
           /\ Cardinality(Workers) \in Nat
<1>1. Past(c) \subseteq Workers
  BY DEF Past
<1> QED
  BY <1>1, FS_Subset, FS_CardinalityType

(* Nobody gets past the check for a contact that opted out. *)
LEMMA PastShrinks ==
    ASSUME TypeOK, ClaimInv, [Next]_vars, NEW c \in suppressed, NEW v \in Workers, v \in Past(c)'
    PROVE  v \in Past(c)
<1> USE DEF db, out
<1>1. CASE tick'[v] = tick[v]
  BY <1>1 DEF Past
<1>2. CASE UNCHANGED tick
  BY <1>1, <1>2
<1>3. ASSUME NEW w \in Workers, StartTick(w) \/ RowNext(w) \/ FaultNext(w), v # w
      PROVE  tick'[v] = tick[v]
  BY <1>3
     DEF TypeOK, StartTick, RowNext, FaultNext, FinishTick, LoadSteps, CompleteEmpty,
         StopNoEmail, CheckSuppression, FlipUnsubscribed, ClaimStep, LoseClaim, RecordSend,
         RecordViolatesKey, Transport, TransportFails, RowThrows, Crash, Goto, NextRow
<1>4. ASSUME NEW pc \in {"optedOut", "clear", "claimed", "recorded"}, Goto(v, pc),
             tick[v].pc \in {"clear", "claimed"}
      PROVE  v \in Past(c)
  <2>1. tick'[v].row = tick[v].row
    BY <1>4, GotoKeepsType
  <2> QED
    BY <1>4, <2>1 DEF Past
<1>5. CASE CheckSuppression(v)
  <2>1. tick'[v].pc = "clear" => tick[v].row.e[2] \notin suppressed
    BY <1>5 DEF CheckSuppression, Goto, TypeOK
  <2>2. tick'[v].row = tick[v].row
    BY <1>5, GotoKeepsType DEF CheckSuppression
  <2>3. tick'[v].pc \in {"optedOut", "clear"}
    BY <1>5, GotoKeepsType DEF CheckSuppression
  <2> QED
    BY <2>1, <2>2, <2>3 DEF Past
<1>6. CASE NextRow(v) \/ StartTick(v) \/ LoadSteps(v) \/ tick' = [tick EXCEPT ![v] = IdleTick]
  <2>1. tick'[v].pc \in {"loop", "loaded", "idle"}
    <3>1. CASE NextRow(v)
      BY <3>1, NextRowKeepsType
    <3>2. CASE StartTick(v)
      BY <3>2 DEF StartTick, TypeOK
    <3>3. CASE LoadSteps(v)
      BY <3>3 DEF LoadSteps, TypeOK
    <3>4. CASE tick' = [tick EXCEPT ![v] = IdleTick]
      BY <3>4 DEF IdleTick, TypeOK
    <3> QED
      BY <1>6, <3>1, <3>2, <3>3, <3>4
  <2> QED
    BY <2>1 DEF Past
<1>7. CASE StartTick(v) \/ RowNext(v) \/ FaultNext(v)
  BY <1>4, <1>5, <1>6, <1>7
     DEF RowNext, FaultNext, FinishTick, CompleteEmpty, StopNoEmail, FlipUnsubscribed,
         ClaimStep, LoseClaim, RecordSend, RecordViolatesKey, Transport, TransportFails,
         RowThrows, Crash
<1>8. CASE UserNext \/ UNCHANGED vars
  BY <1>2, <1>8
     DEF UserNext, CreateSequence, UpdateSequence, DeleteSequence, Enroll, Stop, EditContact,
         DeleteContact, Unsubscribe, DaysPass, vars
<1> QED
  BY <1>1, <1>3, <1>7, <1>8 DEF Next

(* A late mail comes from a tick that was past the check and leaves it. *)
LEMMA LateStep ==
    ASSUME TypeOK, ClaimInv, [Next]_vars, NEW c \in Contacts, late'[c] # late[c]
    PROVE  /\ c \in suppressed /\ c \in suppressed'
           /\ late'[c] = late[c] + 1
           /\ \E w \in Past(c) : w \notin Past(c)'
<1> USE DEF db, out
<1>1. PICK w \in Workers : Transport(w)
  BY DEF Next, UserNext, CreateSequence, UpdateSequence, DeleteSequence, Enroll, Stop,
         EditContact, DeleteContact, Unsubscribe, DaysPass, vars, StartTick, RowNext, FaultNext,
         FinishTick, LoadSteps, CompleteEmpty, StopNoEmail, CheckSuppression, FlipUnsubscribed,
         ClaimStep, LoseClaim, RecordSend, RecordViolatesKey, TransportFails, RowThrows, Crash
<1>2. tick[w].row.e[2] = c /\ c \in suppressed /\ late'[c] = late[c] + 1 /\ UNCHANGED suppressed
  BY <1>1 DEF Transport, TypeOK
<1>3. w \in Past(c)
  BY <1>1, <1>2 DEF Transport, Past
<1>4. tick'[w].pc = "loop"
  BY <1>1, NextRowKeepsType DEF Transport
<1>5. w \notin Past(c)'
  BY <1>4 DEF Past
<1> QED
  BY <1>2, <1>3, <1>5

(* sequences.js:21-24 and the check per row: after an opt-out at most one mail per tick
   still leaves, whatever the number of ticks, sequences and contacts. *)
THEOREM OptOutBites == ASSUME IsFiniteSet(Workers) PROVE Spec => []OptOutWindow
<1>1. Init => OptOutInv
  BY DEF Init, OptOutInv
<1>2. TypeOK /\ ClaimInv /\ OptOutInv /\ [Next]_vars => OptOutInv'
  <2> SUFFICES ASSUME TypeOK, ClaimInv, OptOutInv, [Next]_vars, NEW c \in Contacts
               PROVE  IF c \in suppressed'
                      THEN late'[c] + Cardinality(Past(c)') <= Cardinality(Workers)
                      ELSE late'[c] = 0
    BY DEF OptOutInv
  <2> DEFINE P == Past(c)
             Q == Past(c)'
  <2>1. late[c] \in Nat
    BY DEF TypeOK
  <2>2. /\ IsFiniteSet(P) /\ Cardinality(P) \in Nat
        /\ Cardinality(P) <= Cardinality(Workers) /\ Cardinality(Workers) \in Nat
    BY PastFinite
  <2>3. Q \subseteq Workers
    BY DEF Past
  <2>4. IsFiniteSet(Q) /\ Cardinality(Q) \in Nat /\ Cardinality(Q) <= Cardinality(Workers)
    BY <2>3, FS_Subset, FS_CardinalityType
  <2>5. CASE c \notin suppressed
    <3>1. late'[c] = 0
      BY <2>5, LateStep DEF OptOutInv
    <3> QED
      BY <2>2, <2>4, <3>1
  <2>6. CASE c \in suppressed
    <3>1. c \in suppressed'
      BY <2>6
         DEF db, out, Next, UserNext, CreateSequence, UpdateSequence, DeleteSequence, Enroll,
             Stop, EditContact, DeleteContact, Unsubscribe, DaysPass, vars, StartTick, RowNext,
             FaultNext, FinishTick, LoadSteps, CompleteEmpty, StopNoEmail, CheckSuppression,
             FlipUnsubscribed, ClaimStep, LoseClaim, RecordSend, RecordViolatesKey, Transport,
             TransportFails, RowThrows, Crash
    <3>2. late[c] + Cardinality(P) <= Cardinality(Workers)
      BY <2>6 DEF OptOutInv
    <3>3. Q \subseteq P
      BY <2>3, <2>6, PastShrinks
    <3>4. CASE late'[c] = late[c]
      <4>1. Cardinality(Q) <= Cardinality(P)
        BY <2>2, <3>3, FS_Subset
      <4> HIDE DEF P, Q
      <4> QED
        BY <2>1, <2>2, <2>4, <3>1, <3>2, <3>4, <4>1 DEF Q
    <3>5. CASE late'[c] # late[c]
      <4>1. late'[c] = late[c] + 1 /\ \E w \in P : w \notin Q
        BY <3>5, LateStep
      <4>2. Cardinality(Q) < Cardinality(P)
        BY <2>2, <2>4, <3>3, <4>1, FS_Subset
      <4> HIDE DEF P, Q
      <4> QED
        BY <2>1, <2>2, <2>4, <3>1, <3>2, <4>1, <4>2 DEF Q
    <3> QED
      BY <3>4, <3>5
  <2> QED
    BY <2>5, <2>6
<1>3. TypeOK /\ OptOutInv => OptOutWindow
  <2> SUFFICES ASSUME TypeOK, OptOutInv, NEW c \in Contacts
               PROVE  late[c] <= Cardinality(Workers)
    BY DEF OptOutWindow
  <2>1. late[c] \in Nat
    BY DEF TypeOK
  <2>2. Cardinality(Past(c)) \in Nat /\ Cardinality(Workers) \in Nat
    BY PastFinite
  <2> QED
    BY <2>1, <2>2 DEF OptOutInv
<1> QED
  BY <1>1, <1>2, <1>3, ClaimsHold, PTL DEF Spec
=============================================================================
