-------------------------- MODULE TaskSeriesProofs --------------------------
(***************************************************************************)
(* Proofs about TaskSeries for any number of requests, clicks, sweeps,     *)
(* links, occurrences and faults.                                          *)
(***************************************************************************)
EXTENDS TaskSeriesProps, FiniteSetTheorems, FunctionTheorems, TLAPS

USE SeriesAssumption

Statuses == {"none", "open", "done", "deleted"}

ActorRec == [pc : Pcs, id : Ids, prior : {"none", "open", "done"},
             token : Tokens \union {None}]

\* What a step does to an actor keeps the shape of actors.
LEMMA ActorFields ==
    ASSUME NEW pc, NEW id, NEW prior, NEW k
    PROVE  /\ Actor(pc, id, prior, k).pc = pc
           /\ Actor(pc, id, prior, k).id = id
           /\ Actor(pc, id, prior, k).prior = prior
           /\ Actor(pc, id, prior, k).token = k
           /\ pc \in Pcs /\ id \in Ids /\ prior \in {"none", "open", "done"}
                /\ k \in Tokens \union {None}
              => Actor(pc, id, prior, k) \in ActorRec
  BY DEF Actor, ActorRec

\* SetStatus touches one task, gives it a status and keeps track of reopened.
LEMMA SetStatusFacts ==
    ASSUME TypeOK, NEW i \in Ids, NEW s \in {"open", "done", "deleted"},
           status[i] \in {"open", "done"}, SetStatus(i, s)
    PROVE  /\ status' \in [Ids -> Statuses]
           /\ reopened' \in SUBSET Open'
           /\ \A j \in Ids : status[j] # "none" => status'[j] # "none"
           /\ Open' \ reopened' \subseteq Open \ reopened
  BY DEF TypeOK, SetStatus, Statuses, Open

Shape ==
    /\ status \in [Ids -> Statuses] /\ status[1] # "none"
    /\ recurs \in [Ids -> BOOLEAN]
    /\ reopened \in SUBSET Open
    /\ faults \in 0..MaxFaults

\* The part of TypeOK that is about one actor.
ActorOK(a) ==
    /\ act[a] \in ActorRec
    /\ status[act[a].id] # "none"
    /\ a \in Clicks => act[a].pc # "put" /\ (Tok(a) = None <=> act[a].pc = "idle")
    /\ a \notin Clicks => Tok(a) = None /\ act[a].pc \in {"idle", "put", "spawn", "insert"}

\* The part that is about one link.
LinkOK(k) ==
    /\ token[k] \in [state : {"none", "fresh", "used"}, id : Ids, kind : Kinds]
    /\ status[token[k].id] # "none"

LEMMA TypeParts ==
    TypeOK <=> /\ Shape
               /\ DOMAIN act = Actors /\ act = [a \in Actors |-> act[a]]
               /\ \A a \in Actors : ActorOK(a)
               /\ token = [k \in Tokens |-> token[k]]
               /\ \A k \in Tokens : LinkOK(k)
               /\ mutated \in [Tokens -> Nat]
  BY DEF TypeOK, Shape, ActorOK, LinkOK, ActorRec, Statuses, Actors

\* An actor's step leaves the others as they are; they are still in order if no
\* task that was made is unmade.
LEMMA BecomeKeeps ==
    ASSUME TypeOK, NEW a \in Actors, NEW next \in ActorRec, Become(a, next),
           \A j \in Ids : status[j] # "none" => status'[j] # "none",
           status'[next.id] # "none",
           a \in Clicks => next.pc # "put" /\ (next.token = None <=> next.pc = "idle"),
           a \notin Clicks => next.token = None /\ next.pc \in {"idle", "put", "spawn", "insert"}
    PROVE  /\ act' = [b \in Actors |-> act'[b]] /\ DOMAIN act' = Actors
           /\ \A b \in Actors : ActorOK(b)'
  <1>1. act \in [Actors -> ActorRec]
    BY DEF TypeOK, ActorRec
  <1>2. act' = [act EXCEPT ![a] = next]
    BY DEF Become
  <1>3. \A b \in Actors : act'[b] = IF b = a THEN next ELSE act[b]
    BY <1>1, <1>2
  <1>4. \A b \in Actors : ActorOK(b)
    BY TypeParts
  <1>5. ASSUME NEW b \in Actors PROVE ActorOK(b)'
    <2>1. CASE b = a
      BY <1>3, <2>1 DEF ActorOK, Tok
    <2>2. CASE b # a
      BY <1>1, <1>3, <1>4, <2>2 DEF ActorOK, Tok, ActorRec
    <2> QED BY <2>1, <2>2
  <1> QED BY <1>1, <1>2, <1>5

-----------------------------------------------------------------------------
(* Type correctness.                                                       *)

\* A step that leaves the links alone, or gives one of them a record that is in
\* order, keeps the part of TypeOK about links.
LEMMA LinksKeep ==
    ASSUME TypeOK, \A j \in Ids : status[j] # "none" => status'[j] # "none",
           \/ UNCHANGED token
           \/ \E k \in Tokens, s \in {"fresh", "used"}, i \in Ids, kind \in Kinds :
                 token' = [token EXCEPT ![k] = Token(s, i, kind)] /\ status[i] # "none"
    PROVE  token' = [k \in Tokens |-> token'[k]] /\ \A k \in Tokens : LinkOK(k)'
  BY DEF TypeOK, LinkOK, Token

\* Actors at work are at some step of their own, and not idle.
LEMMA InitTypes == Init => TypeOK
  BY DEF Init, TypeOK, IdleActor, Actor, Token, Kinds, Pcs, Ids, Open, Tok, Actors

LEMMA IdleOK == IdleActor \in ActorRec /\ IdleActor.pc = "idle" /\ IdleActor.token = None
                /\ IdleActor.id = 1 /\ 1 \in Ids
  BY DEF IdleActor, Actor, ActorRec, Pcs, Ids

\* Every step keeps the shape of the tasks and unmakes none of them.
LEMMA TasksKeep ==
    ASSUME TypeOK, Next
    PROVE  /\ Shape'
           /\ \A j \in Ids : status[j] # "none" => status'[j] # "none"
           /\ mutated' \in [Tokens -> Nat]
  <1> USE DEF Shape
  <1>0. Shape /\ mutated \in [Tokens -> Nat] /\ 1 \in Ids
    BY TypeParts DEF Ids
  <1>1. ASSUME UNCHANGED tasks, UNCHANGED hist, UNCHANGED faults \/ Fault
        PROVE  /\ Shape' /\ mutated' \in [Tokens -> Nat]
               /\ \A j \in Ids : status[j] # "none" => status'[j] # "none"
    BY <1>0, <1>1 DEF tasks, hist, Fault, Open
  <1>2. ASSUME NEW i \in Ids, NEW s \in {"open", "done", "deleted"},
               status[i] \in {"open", "done"}, SetStatus(i, s),
               recurs' \in [Ids -> BOOLEAN], UNCHANGED faults \/ Fault
        PROVE  Shape' /\ \A j \in Ids : status[j] # "none" => status'[j] # "none"
    BY <1>0, <1>2, SetStatusFacts DEF Fault
  <1>3. ASSUME NEW c \in Clicks, Tok(c) \in Tokens, Mutate(c) PROVE mutated' \in [Tokens -> Nat]
    BY <1>0, <1>3 DEF Mutate
  <1>4. ASSUME NEW c \in Clicks PROVE act[c].pc # "idle" => Tok(c) \in Tokens /\ act[c].id \in Ids
    BY <1>4 DEF TypeOK, Tok, Actors
  <1>5. ASSUME NEW i \in Ids, DeleteTask(i) PROVE Shape' /\ UNCHANGED mutated
               /\ \A j \in Ids : status[j] # "none" => status'[j] # "none"
    BY <1>0, <1>2, <1>5 DEF DeleteTask
  <1>6. ASSUME NEW i \in Ids, NEW s \in {"open", "done"}, BulkSetStatus(i, s)
        PROVE  Shape' /\ UNCHANGED mutated
               /\ \A j \in Ids : status[j] # "none" => status'[j] # "none"
    BY <1>0, <1>2, <1>6 DEF BulkSetStatus
  <1>7. ASSUME NEW a \in Actors, InsertSuccessor(a) PROVE Shape' /\ UNCHANGED mutated
               /\ \A j \in Ids : status[j] # "none" => status'[j] # "none"
    BY <1>0, <1>7 DEF InsertSuccessor, Unmade, Statuses, Open, hist
  <1>8. ASSUME NEW q \in Requests, NEW to \in {"same", "open", "done"},
               NEW series \in {"same", "on", "off"}, act[q].id \in Rows,
               PutUpdate(q, to, series), UNCHANGED faults \/ Fault
        PROVE  Shape' /\ \A j \in Ids : status[j] # "none" => status'[j] # "none"
    <2> DEFINE i == act[q].id
               s == IF to = "same" THEN status[i] ELSE to
    <2>1. i \in Ids /\ status[i] \in {"open", "done"} /\ s \in {"open", "done", "deleted"}
      BY <1>8 DEF Rows
    <2>2. SetStatus(i, s) /\ recurs' \in [Ids -> BOOLEAN]
      BY <1>0, <1>8 DEF PutUpdate
    <2> HIDE DEF i, s
    <2> QED BY <1>2, <1>8, <2>1, <2>2
  <1>9. ASSUME NEW q \in Requests, NEW to \in {"same", "open", "done"},
               NEW series \in {"same", "on", "off"},
               PutWrite(q, to, series) \/ PutAnswerLost(q, to, series)
        PROVE  Shape' /\ UNCHANGED mutated
               /\ \A j \in Ids : status[j] # "none" => status'[j] # "none"
    <2>1. CASE act[q].id \in Rows
      BY <1>8, <1>9, <2>1 DEF PutWrite, PutAnswerLost
    <2>2. CASE act[q].id \notin Rows
      BY <1>0, <1>9, <2>2 DEF PutWrite, PutAnswerLost, tasks, Open
    <2> QED BY <2>1, <2>2
  <1>10. ASSUME NEW c \in Clicks, WriteComplete(c)
         PROVE  Shape' /\ mutated' \in [Tokens -> Nat]
               /\ \A j \in Ids : status[j] # "none" => status'[j] # "none"
    <2>1. CASE act[c].id \in Rows
      <3>1. status[act[c].id] \in {"open", "done"} /\ act[c].id \in Ids
        BY <2>1 DEF Rows
      <3>2. SetStatus(act[c].id, "done") /\ Mutate(c) /\ UNCHANGED <<recurs, faults>>
        BY <1>10, <2>1 DEF WriteComplete
      <3> QED BY <1>0, <1>2, <1>3, <1>4, <1>10, <3>1, <3>2 DEF WriteComplete
    <2>2. CASE act[c].id \notin Rows
      BY <1>0, <1>10, <2>2 DEF WriteComplete, Open
    <2> QED BY <2>1, <2>2
  <1>11. ASSUME NEW c \in Clicks, RunSnooze(c)
         PROVE  Shape' /\ mutated' \in [Tokens -> Nat] /\ UNCHANGED status
    BY <1>0, <1>3, <1>4, <1>11 DEF RunSnooze, tasks, Open
  <1>12. ASSUME NEW c \in Clicks, ClickAnswerLost(c)
         PROVE  Shape' /\ UNCHANGED mutated
               /\ \A j \in Ids : status[j] # "none" => status'[j] # "none"
    <2>1. CASE UNCHANGED <<status, reopened>>
      BY <1>0, <1>12, <2>1 DEF ClickAnswerLost, Fault, Open
    <2>2. CASE act[c].pc = "write" /\ act[c].id \in Rows /\ SetStatus(act[c].id, "done")
      <3>1. status[act[c].id] \in {"open", "done"} /\ act[c].id \in Ids
        BY <2>2 DEF Rows
      <3> QED BY <1>0, <1>2, <1>12, <2>2, <3>1 DEF ClickAnswerLost
    <2> QED BY <1>12, <2>1, <2>2 DEF ClickAnswerLost
  <1>13. CASE \E a \in Actors : AskNotExists(a) \/ Abandon(a)
    BY <1>0, <1>1, <1>13 DEF AskNotExists, Abandon
  <1>14. CASE \E q \in Requests : \E i \in Ids : PutRead(q, i)
    BY <1>0, <1>1, <1>14 DEF PutRead
  <1>15. CASE \E w \in Workers : Sweep(w)
    BY <1>0, <1>1, <1>15 DEF Sweep
  <1>16. CASE \E k \in Tokens, i \in Ids \ Unmade, kind \in Kinds : Mint(k, i, kind)
    BY <1>0, <1>1, <1>16 DEF Mint
  <1>17. CASE \E c \in Clicks : \E k \in Tokens : Click(c, k)
    BY <1>0, <1>1, <1>17 DEF Click
  <1>18. CASE \E c \in Clicks : ClaimToken(c) \/ RunComplete(c) \/ GiveBack(c) \/ ClickThrows(c)
    BY <1>0, <1>1, <1>18 DEF ClaimToken, RunComplete, GiveBack, ClickThrows
  <1> QED
    BY <1>0, <1>5, <1>6, <1>7, <1>9, <1>10, <1>11, <1>12, <1>13, <1>14, <1>15, <1>16, <1>17, <1>18
       DEF Next, Spawn, ClickStep

\* An actor may go idle, or go on at the task and the link it has.
LEMMA ActorGoesOn ==
    ASSUME TypeOK, TypeOK => \A j \in Ids : status[j] # "none" => status'[j] # "none",
           NEW a \in Actors,
           \/ End(a)
           \/ \E pc \in Pcs : Goto(a, pc) /\ pc # "idle" /\ act[a].pc # "idle"
                 /\ (a \in Clicks => pc # "put") /\ (a \notin Clicks => pc \in {"put", "spawn", "insert"})
           \/ BeginSpawn(a) /\ (a \in Clicks => act[a].pc # "idle")
    PROVE  act' = [b \in Actors |-> act'[b]] /\ DOMAIN act' = Actors /\ \A b \in Actors : ActorOK(b)'
  <1>1. ActorOK(a) /\ act[a] \in ActorRec /\ status[1] # "none" /\ 1 \in Ids
    BY TypeParts DEF ActorOK, Shape, Ids
  <1>2. CASE End(a)
    BY <1>1, <1>2, IdleOK, BecomeKeeps DEF End
  <1>3. ASSUME NEW pc \in Pcs, Goto(a, pc), pc # "idle", act[a].pc # "idle",
               a \in Clicks => pc # "put", a \notin Clicks => pc \in {"put", "spawn", "insert"}
        PROVE  act' = [b \in Actors |-> act'[b]] /\ DOMAIN act' = Actors /\ \A b \in Actors : ActorOK(b)'
    <2> DEFINE next == Actor(pc, act[a].id, act[a].prior, act[a].token)
    <2>1. /\ next \in ActorRec /\ next.pc = pc /\ next.id = act[a].id /\ next.token = act[a].token
      BY <1>1, ActorFields DEF ActorRec
    <2>2. status[next.id] # "none" /\ next.id \in Ids
      BY <1>1, <2>1 DEF ActorOK, ActorRec
    <2>3. a \in Clicks => (next.token = None <=> next.pc = "idle")
      BY <1>1, <1>3, <2>1 DEF ActorOK, Tok
    <2>4. a \notin Clicks => next.token = None
      BY <1>1, <2>1 DEF ActorOK, Tok
    <2>5. Become(a, next)
      BY <1>3 DEF Goto
    <2> HIDE DEF next
    <2> QED BY <1>3, <2>1, <2>2, <2>3, <2>4, <2>5, BecomeKeeps
  <1>4. CASE BeginSpawn(a) /\ (a \in Clicks => act[a].pc # "idle")
    <2> DEFINE next == Actor("spawn", 1, "none", act[a].token)
    <2>1. next \in ActorRec /\ next.pc = "spawn" /\ next.id = 1 /\ next.token = act[a].token
      BY <1>1, ActorFields DEF ActorRec, Pcs
    <2>2. a \in Clicks => (next.token = None <=> next.pc = "idle")
      BY <1>1, <1>4, <2>1 DEF ActorOK, Tok
    <2>3. a \notin Clicks => next.token = None
      BY <1>1, <2>1 DEF ActorOK, Tok
    <2>4. Become(a, next)
      BY <1>4 DEF BeginSpawn
    <2> HIDE DEF next
    <2> QED BY <1>1, <2>1, <2>2, <2>3, <2>4, BecomeKeeps
  <1> QED BY <1>2, <1>3, <1>4

\* Every step keeps the actors in order.
LEMMA ActorsKeep ==
    ASSUME TypeOK, Next
    PROVE  act' = [b \in Actors |-> act'[b]] /\ DOMAIN act' = Actors /\ \A b \in Actors : ActorOK(b)'
  <1> DEFINE Goal == act' = [b \in Actors |-> act'[b]] /\ DOMAIN act' = Actors
                     /\ \A b \in Actors : ActorOK(b)'
  <1>1. \A j \in Ids : status[j] # "none" => status'[j] # "none"
    BY TasksKeep
  <1>2. ASSUME UNCHANGED act PROVE Goal
    BY <1>1, <1>2, TypeParts DEF ActorOK, ActorRec, Tok
  <1>3. ASSUME NEW a \in Actors, AskNotExists(a) \/ InsertSuccessor(a) \/ Abandon(a) PROVE Goal
    BY <1>1, <1>3, ActorGoesOn DEF AskNotExists, InsertSuccessor, Abandon, Pcs, TypeOK
  <1>4. ASSUME NEW q \in Requests, NEW i \in Ids, PutRead(q, i) PROVE Goal
    <2>1. i \in Ids /\ status[i] \in {"open", "done"} /\ q \in Actors /\ q \notin Clicks
      BY <1>4 DEF PutRead, Rows, Actors
    <2>2. /\ Actor("put", i, status[i], None) \in ActorRec
          /\ Actor("put", i, status[i], None).pc = "put"
          /\ Actor("put", i, status[i], None).id = i
          /\ Actor("put", i, status[i], None).token = None
      BY <2>1, ActorFields DEF Pcs
    <2> QED BY <1>1, <1>4, <2>1, <2>2, BecomeKeeps DEF PutRead
  <1>5. ASSUME NEW q \in Requests, NEW to \in {"same", "open", "done"},
               NEW series \in {"same", "on", "off"},
               PutWrite(q, to, series) \/ PutAnswerLost(q, to, series)
        PROVE  Goal
    BY <1>1, <1>5, ActorGoesOn DEF PutWrite, PutAnswerLost, Actors
  <1>6. ASSUME NEW w \in Workers, Sweep(w) PROVE Goal
    BY <1>1, <1>6, ActorGoesOn DEF Sweep, Actors
  <1>7. ASSUME NEW k \in Tokens, NEW c \in Clicks, Click(c, k) PROVE Goal
    <2>1. token[k].id \in Ids /\ status[token[k].id] # "none" /\ c \in Actors
      BY <1>7, TypeParts DEF LinkOK, Actors
    <2>2. /\ Actor("claim", token[k].id, "none", k) \in ActorRec
          /\ Actor("claim", token[k].id, "none", k).pc = "claim"
          /\ Actor("claim", token[k].id, "none", k).id = token[k].id
          /\ Actor("claim", token[k].id, "none", k).token = k
      BY <2>1, ActorFields DEF Pcs
    <2> QED BY <1>1, <1>7, <2>1, <2>2, BecomeKeeps DEF Click
  <1>8. ASSUME NEW c \in Clicks, ClickStep(c) \/ ClickThrows(c) \/ ClickAnswerLost(c) PROVE Goal
    BY <1>1, <1>8, ActorGoesOn
       DEF ClickStep, ClaimToken, RunComplete, WriteComplete, RunSnooze, GiveBack, ClickThrows,
           ClickAnswerLost, Pcs, Actors
  <1>9. ASSUME NEW i \in Ids, DeleteTask(i) \/ \E s \in {"open", "done"} : BulkSetStatus(i, s)
        PROVE  Goal
    BY <1>2, <1>9 DEF DeleteTask, BulkSetStatus
  <1>10. ASSUME NEW k \in Tokens, NEW i \in Ids \ Unmade, NEW kind \in Kinds, Mint(k, i, kind) PROVE Goal
    BY <1>2, <1>10 DEF Mint
  <1> HIDE DEF Goal
  <1>11. Goal
    BY <1>3, <1>4, <1>5, <1>6, <1>7, <1>8, <1>9, <1>10 DEF Next, Spawn
  <1> QED BY <1>11 DEF Goal

LEMMA TypeStep == TypeOK /\ [Next]_vars => TypeOK'
  <1> SUFFICES ASSUME TypeOK, [Next]_vars PROVE TypeOK'
    OBVIOUS
  <1>1. CASE Next
    <2>1. \A j \in Ids : status[j] # "none" => status'[j] # "none"
      BY <1>1, TasksKeep
    <2>2. \A c \in Clicks : act[c].pc # "idle" => Tok(c) \in Tokens
      BY DEF TypeOK, Tok, Actors
    <2>3. \A k \in Tokens : token[k].id \in Ids /\ token[k].kind \in Kinds /\ status[token[k].id] # "none"
      BY DEF TypeOK
    <2>4. ASSUME NEW c \in Clicks, act[c].pc # "idle", NEW s \in {"fresh", "used"}, Restate(c, s)
          PROVE \E k \in Tokens, t \in {"fresh", "used"}, i \in Ids, kind \in Kinds :
                   token' = [token EXCEPT ![k] = Token(t, i, kind)] /\ status[i] # "none"
      BY <2>2, <2>3, <2>4 DEF Restate, Kind
    <2>5. \/ UNCHANGED token
          \/ \E k \in Tokens, s \in {"fresh", "used"}, i \in Ids, kind \in Kinds :
                 token' = [token EXCEPT ![k] = Token(s, i, kind)] /\ status[i] # "none"
      <3>1. CASE \E k \in Tokens, i \in Ids \ Unmade, kind \in Kinds : Mint(k, i, kind)
        BY <3>1 DEF Mint, Unmade
      <3>2. CASE \E c \in Clicks : ClaimToken(c) \/ GiveBack(c)
        BY <2>4, <3>2 DEF ClaimToken, GiveBack
      <3>3. CASE \E a \in Actors : Spawn(a) \/ Abandon(a)
        BY <3>3 DEF Spawn, Abandon, AskNotExists, InsertSuccessor
      <3>4. CASE \E c \in Clicks : \/ \E k \in Tokens : Click(c, k)
                                   \/ RunComplete(c) \/ WriteComplete(c) \/ RunSnooze(c)
                                   \/ ClickThrows(c) \/ ClickAnswerLost(c)
        BY <3>4 DEF Click, RunComplete, WriteComplete, RunSnooze, ClickThrows, ClickAnswerLost
      <3>5. CASE \/ \E q \in Requests : \E i \in Ids : PutRead(q, i)
                 \/ \E w \in Workers : Sweep(w)
                 \/ \E i \in Ids : DeleteTask(i) \/ \E s \in {"open", "done"} : BulkSetStatus(i, s)
        BY <3>5 DEF PutRead, Sweep, DeleteTask, BulkSetStatus
      <3>6. CASE \E q \in Requests : \E to \in {"same", "open", "done"}, series \in {"same", "on", "off"} :
                    PutWrite(q, to, series) \/ PutAnswerLost(q, to, series)
        BY <3>6 DEF PutWrite, PutAnswerLost
      <3> QED BY <1>1, <3>1, <3>2, <3>3, <3>4, <3>5, <3>6 DEF Next, ClickStep
    <2>6. token' = [k \in Tokens |-> token'[k]] /\ \A k \in Tokens : LinkOK(k)'
      BY <2>1, <2>5, LinksKeep
    <2>7. Shape' /\ mutated' \in [Tokens -> Nat]
      BY <1>1, TasksKeep
    <2>8. act' = [b \in Actors |-> act'[b]] /\ DOMAIN act' = Actors /\ \A b \in Actors : ActorOK(b)'
      BY <1>1, ActorsKeep
    <2> QED
      BY <2>6, <2>7, <2>8 DEF TypeOK, Shape, ActorOK, LinkOK, ActorRec, Statuses, Actors
  <1>2. CASE UNCHANGED vars
    BY <1>2 DEF vars, tasks, hist, TypeOK, Open, Tok
  <1> QED BY <1>1, <1>2

\* Rows, actors and links keep their shape, and everything refers to tasks that
\* were made.
THEOREM SeriesTypeCorrect == Spec => []TypeOK
  BY InitTypes, TypeStep, PTL DEF Spec

-----------------------------------------------------------------------------
(* A link acts once.                                                       *)

Held == Acting \union {"spawn", "insert"}

\* What the ways to go on do to the actor's record and to the others'.
LEMMA ActorEffects ==
    ASSUME TypeOK, NEW a \in Actors
    PROVE  /\ End(a) => \A b \in Actors : IF b = a THEN act'[b].pc = "idle" /\ act'[b].token = None
                                                   ELSE act'[b] = act[b]
           /\ \A pc : Goto(a, pc) =>
                 \A b \in Actors : IF b = a THEN act'[b].pc = pc /\ act'[b].token = act[b].token
                                            ELSE act'[b] = act[b]
           /\ BeginSpawn(a) =>
                 \A b \in Actors : IF b = a THEN act'[b].pc = "spawn" /\ act'[b].token = act[b].token
                                            ELSE act'[b] = act[b]
  BY DEF TypeOK, End, Goto, BeginSpawn, Become, Actor, IdleActor

\* As long as no link changes, clicks may go idle, keep what they hold, or
\* begin with a link that was sent.
LEMMA ClicksGoOn ==
    ASSUME TypeOK, TokenInv, UNCHANGED token, UNCHANGED mutated,
           \A c \in Clicks :
              \/ act'[c] = act[c]
              \/ act'[c].pc = "idle" /\ act'[c].token = None
              \/ /\ act'[c].token = act[c].token
                 /\ act'[c].pc \in Held => act[c].pc \in Held
                 /\ act'[c].pc \in Acting => act[c].pc \in Acting
              \/ /\ act'[c].pc = "claim"
                 /\ \A k \in Tokens : act'[c].token = k => token[k].state # "none"
    PROVE  TokenInv'
  <1> SUFFICES ASSUME NEW k \in Tokens
               PROVE  /\ \A c, d \in Holds(k)' : c = d
                      /\ Holds(k)' # {} => token'[k].state = "used"
                      /\ \A c \in Holds(k)' : act'[c].pc \in Acting => mutated'[k] = 0
                      /\ mutated'[k] # 0 => token'[k].state = "used" /\ mutated'[k] = 1
                      /\ token'[k].state = "none" => \A c \in Clicks : Tok(c)' # k
    BY DEF TokenInv
  <1>1. Holds(k)' \subseteq Holds(k) /\ \A c \in Holds(k)' : act'[c].pc \in Acting => act[c].pc \in Acting
    BY DEF Holds, Held, Acting, Tok
  <1>2. token[k].state = "none" => \A c \in Clicks : Tok(c)' # k
    BY DEF TokenInv, Tok
  <1> QED BY <1>1, <1>2 DEF TokenInv

\* The click that claimed its link finishes: it is told that it changed the task.
LEMMA ClickIsTold ==
    ASSUME TypeOK, TokenInv, NEW c \in Clicks, act[c].pc \in Acting, UNCHANGED token, Mutate(c),
           End(c) \/ BeginSpawn(c)
    PROVE  TokenInv'
  <1>0. PICK k \in Tokens : k = Tok(c)
    BY DEF TypeOK, Actors, Acting, Tok
  <1>1. c \in Actors /\ c \in Holds(k) /\ mutated \in [Tokens -> Nat]
    BY <1>0 DEF TypeOK, Actors, Holds
  <1>2. mutated[k] = 0 /\ token[k].state = "used" /\ \A d \in Holds(k) : d = c
    BY <1>1 DEF TokenInv
  <1>3. mutated' = [mutated EXCEPT ![k] = 1]
    BY <1>0, <1>1, <1>2 DEF Mutate
  <1>4. \A b \in Clicks : IF b = c THEN \/ act'[b].pc = "idle" /\ act'[b].token = None
                                        \/ act'[b].pc = "spawn" /\ act'[b].token = k
                                   ELSE act'[b] = act[b]
    BY <1>0, <1>1, ActorEffects DEF Actors, Tok
  <1>5. None \notin Tokens
    OBVIOUS
  <1>6. ASSUME NEW l \in Tokens, l # k
        PROVE  mutated'[l] = mutated[l] /\ Holds(l)' = Holds(l)
               /\ \A d \in Holds(l) : act'[d] = act[d]
    BY <1>0, <1>1, <1>3, <1>4, <1>5, <1>6 DEF Holds, Acting, Tok
  <1>7. mutated'[k] = 1 /\ Holds(k)' \subseteq {c} /\ \A d \in Holds(k)' : act'[d].pc \notin Acting
    BY <1>1, <1>2, <1>3, <1>4, <1>5 DEF Holds, Acting, Tok
  <1>8. \A l \in Tokens : token[l].state = "none" => \A d \in Clicks : Tok(d)' # l
    BY <1>1, <1>2, <1>4, <1>5 DEF TokenInv, Tok
  <1>9. ASSUME NEW l \in Tokens
        PROVE  /\ \A d, e \in Holds(l)' : d = e
               /\ Holds(l)' # {} => token'[l].state = "used"
               /\ \A d \in Holds(l)' : act'[d].pc \in Acting => mutated'[l] = 0
               /\ mutated'[l] # 0 => token'[l].state = "used" /\ mutated'[l] = 1
               /\ token'[l].state = "none" => \A d \in Clicks : Tok(d)' # l
    <2>1. CASE l = k
      BY <1>2, <1>7, <1>8, <2>1
    <2>2. CASE l # k
      BY <1>6, <1>8, <2>2 DEF TokenInv
    <2> QED BY <2>1, <2>2
  <1> QED BY <1>9 DEF TokenInv

LEMMA TokenStep == TypeOK /\ TokenInv /\ [Next]_vars => TokenInv'
  <1> SUFFICES ASSUME TypeOK, TokenInv, [Next]_vars PROVE TokenInv'
    OBVIOUS
  <1> USE DEF Held, Acting
  <1>0. Clicks \subseteq Actors /\ \A c \in Clicks : act[c].pc # "idle" => Tok(c) \in Tokens
    BY DEF TypeOK, Tok, Actors
  <1>1. ASSUME UNCHANGED token, UNCHANGED mutated, NEW a \in Actors, a \notin Clicks,
               End(a) \/ BeginSpawn(a) \/ \E pc : Goto(a, pc)
        PROVE  TokenInv'
    BY <1>0, <1>1, ActorEffects, ClicksGoOn
  <1>2. ASSUME UNCHANGED token, UNCHANGED mutated, NEW c \in Clicks, End(c) PROVE TokenInv'
    BY <1>0, <1>2, ActorEffects, ClicksGoOn
  <1>3. ASSUME UNCHANGED token, UNCHANGED mutated, NEW c \in Clicks, NEW pc \in Held, Goto(c, pc),
               act[c].pc \in Held, pc \in Acting => act[c].pc \in Acting
        PROVE  TokenInv'
    BY <1>0, <1>3, ActorEffects, ClicksGoOn
  <1>4. ASSUME UNCHANGED token, UNCHANGED mutated, UNCHANGED act PROVE TokenInv'
    BY <1>4, ClicksGoOn
  <1>5. CASE \E a \in Actors : Spawn(a) \/ Abandon(a)
    BY <1>1, <1>2, <1>3, <1>5 DEF Spawn, Abandon, AskNotExists, InsertSuccessor, hist
  <1>6. ASSUME NEW q \in Requests, NEW i \in Ids, PutRead(q, i) PROVE TokenInv'
    <2>1. q \in Actors /\ q \notin Clicks
      BY DEF Actors
    <2>2. \A c \in Clicks : act'[c] = act[c]
      BY <1>0, <1>6, <2>1 DEF PutRead, Become, TypeOK
    <2> QED BY <1>6, <2>2, ClicksGoOn DEF PutRead, hist
  <1>7. CASE \E q \in Requests : \E to \in {"same", "open", "done"}, series \in {"same", "on", "off"} :
                PutWrite(q, to, series) \/ PutAnswerLost(q, to, series)
    BY <1>1, <1>7 DEF PutWrite, PutAnswerLost, Actors
  <1>8. CASE \E w \in Workers : Sweep(w)
    BY <1>1, <1>8 DEF Sweep, Actors, hist
  <1>9. CASE \E i \in Ids : DeleteTask(i) \/ \E s \in {"open", "done"} : BulkSetStatus(i, s)
    BY <1>4, <1>9 DEF DeleteTask, BulkSetStatus
  <1>10. ASSUME NEW k \in Tokens, NEW i \in Ids \ Unmade, NEW kind \in Kinds, Mint(k, i, kind) PROVE TokenInv'
    <2>1. UNCHANGED act /\ UNCHANGED mutated /\ token[k].state = "none"
          /\ token' = [token EXCEPT ![k] = Token("fresh", i, kind)]
      BY <1>10 DEF Mint, hist
    <2>2. Holds(k) = {} /\ mutated[k] = 0
      BY <2>1 DEF TokenInv
    <2>3. \A l \in Tokens : IF l = k THEN token'[l].state = "fresh" ELSE token'[l] = token[l]
      BY <2>1 DEF TypeOK, Token
    <2>4. \A l \in Tokens : Holds(l)' = Holds(l)
      BY <2>1 DEF Holds, Tok
    <2> QED BY <2>1, <2>2, <2>3, <2>4 DEF TokenInv, Holds, Tok
  <1>11. ASSUME NEW c \in Clicks, NEW k \in Tokens, Click(c, k) PROVE TokenInv'
    <2>1. \A d \in Clicks : IF d = c THEN act'[d].pc = "claim" /\ act'[d].token = k
                                     ELSE act'[d] = act[d]
      BY <1>0, <1>11 DEF Click, Become, Actor, TypeOK
    <2> QED BY <1>11, <2>1, ClicksGoOn DEF Click, hist
  <1>12. ASSUME NEW c \in Clicks, ClaimToken(c) PROVE TokenInv'
    <2>1. CASE token[Tok(c)].state = "fresh"
      <3>0. PICK k \in Tokens : k = Tok(c)
        BY <1>0, <1>12 DEF ClaimToken
      <3>1. Goto(c, "run") /\ Restate(c, "used") /\ UNCHANGED mutated /\ token[k].state = "fresh"
        BY <1>12, <2>1, <3>0 DEF ClaimToken, hist
      <3>2. Holds(k) = {} /\ mutated[k] = 0
        BY <3>1 DEF TokenInv, TypeOK
      <3>3. \A l \in Tokens : IF l = k THEN token'[l].state = "used" ELSE token'[l] = token[l]
        BY <3>0, <3>1 DEF Restate, Token, TypeOK
      <3>4. \A d \in Clicks : IF d = c THEN act'[d].pc = "run" /\ act'[d].token = k
                                       ELSE act'[d] = act[d]
        BY <1>0, <3>0, <3>1, ActorEffects DEF Tok
      <3>5. Holds(k)' \subseteq {c} /\ \A l \in Tokens \ {k} : Holds(l)' = Holds(l) \ {c}
        BY <3>2, <3>4 DEF Holds, Tok
      <3>6. \A l \in Tokens \ {k} : \A d \in Holds(l)' : act'[d] = act[d]
        BY <3>4, <3>5 DEF Holds
      <3>7. ASSUME NEW l \in Tokens
            PROVE  /\ \A d, e \in Holds(l)' : d = e
                   /\ Holds(l)' # {} => token'[l].state = "used"
                   /\ \A d \in Holds(l)' : act'[d].pc \in Acting => mutated'[l] = 0
                   /\ mutated'[l] # 0 => token'[l].state = "used" /\ mutated'[l] = 1
                   /\ token'[l].state = "none" => \A d \in Clicks : Tok(d)' # l
        <4>1. CASE l = k
          BY <3>1, <3>2, <3>3, <3>5, <4>1
        <4>2. CASE l # k
          BY <3>1, <3>3, <3>4, <3>5, <3>6, <4>2 DEF TokenInv, Tok
        <4> QED BY <4>1, <4>2
      <3> QED BY <3>7 DEF TokenInv
    <2>2. CASE token[Tok(c)].state # "fresh"
      BY <1>2, <1>12, <2>2 DEF ClaimToken, hist
    <2> QED BY <2>1, <2>2
  <1>13. ASSUME NEW c \in Clicks, GiveBack(c) PROVE TokenInv'
    <2>0. PICK k \in Tokens : k = Tok(c)
      BY <1>0, <1>13 DEF GiveBack
    <2>1. End(c) /\ Restate(c, "fresh") /\ UNCHANGED mutated /\ c \in Holds(k)
      BY <1>13, <2>0 DEF GiveBack, hist, Holds
    <2>2. mutated[k] = 0 /\ \A d \in Holds(k) : d = c
      BY <1>13, <2>1 DEF TokenInv, GiveBack
    <2>3. \A l \in Tokens : IF l = k THEN token'[l].state = "fresh" ELSE token'[l] = token[l]
      BY <2>0, <2>1 DEF Restate, Token, TypeOK
    <2>4. \A d \in Clicks : IF d = c THEN act'[d].pc = "idle" /\ act'[d].token = None
                                     ELSE act'[d] = act[d]
      BY <1>0, <2>1, ActorEffects
    <2>5. \A l \in Tokens : Holds(l)' \subseteq Holds(l) /\ c \notin Holds(l)'
      <3>1. act'[c].pc = "idle"
        BY <2>4
      <3> QED BY <2>4, <3>1 DEF Holds, Tok
    <2>6. Holds(k)' = {} /\ \A l \in Tokens : \A d \in Holds(l)' : act'[d] = act[d]
      BY <2>2, <2>4, <2>5 DEF Holds
    <2> QED BY <2>1, <2>2, <2>3, <2>4, <2>5, <2>6 DEF TokenInv, Tok
  <1>14. ASSUME NEW c \in Clicks, WriteComplete(c) PROVE TokenInv'
    <2>1. CASE act[c].id \in Rows
      BY <1>14, <2>1, ClickIsTold DEF WriteComplete
    <2>2. CASE act[c].id \notin Rows
      BY <1>3, <1>14, <2>2 DEF WriteComplete
    <2> QED BY <2>1, <2>2
  <1>15. ASSUME NEW c \in Clicks, RunSnooze(c) PROVE TokenInv'
    BY <1>2, <1>15, ClickIsTold DEF RunSnooze
  <1>16. ASSUME NEW c \in Clicks, RunComplete(c) \/ ClickThrows(c) \/ ClickAnswerLost(c) PROVE TokenInv'
    BY <1>2, <1>3, <1>16 DEF RunComplete, ClickThrows, ClickAnswerLost, hist
  <1>17. CASE UNCHANGED vars
    BY <1>4, <1>17 DEF vars, hist
  <1> QED
    BY <1>5, <1>6, <1>7, <1>8, <1>9, <1>10, <1>11, <1>12, <1>13, <1>14, <1>15, <1>16, <1>17
       DEF Next, ClickStep

THEOREM TokensHeldOnce == Spec => []TokenInv
  <1>1. Init => TokenInv
    BY DEF Init, TokenInv, IdleActor, Actor, Token, Holds, Acting, Tok, Actors
  <1> QED BY <1>1, SeriesTypeCorrect, TokenStep, PTL DEF Spec

\* Whatever clicks, retries and faults there are, one of them at most is told
\* that its link changed the task.
THEOREM LinksActOnce == Spec => []ActsOnce
  <1>1. TokenInv => ActsOnce
    BY DEF TokenInv, ActsOnce
  <1> QED BY <1>1, TokensHeldOnce, PTL

-----------------------------------------------------------------------------
(* Open occurrences are bounded by the spawns that overlap.                *)

LEMMA SpawnersFinite == IsFiniteSet(Spawners) /\ Cardinality(Spawners) \in Nat
  BY FS_Union, FS_CardinalityType DEF Spawners

\* Different actors that are about to insert stand for different spawners: a
\* click for its link, which no other click holds.
LEMMA PendingBounded ==
    TypeOK /\ TokenInv
    => IsFiniteSet(Pending) /\ Cardinality(Pending) <= Cardinality(Spawners)
  <1> SUFFICES ASSUME TypeOK, TokenInv
               PROVE  IsFiniteSet(Pending) /\ Cardinality(Pending) <= Cardinality(Spawners)
    OBVIOUS
  <1> DEFINE Rep(a) == IF a \in Clicks THEN Tok(a) ELSE a
             f == [a \in Pending |-> Rep(a)]
  <1>1. \A a \in Pending : a \in Clicks => Tok(a) \in Tokens /\ a \in Holds(Tok(a))
    BY DEF Pending, TypeOK, Tok, Holds, Actors
  <1>2. \A a \in Pending : Rep(a) \in Spawners
    BY <1>1 DEF Pending, Actors, Spawners
  <1>3. \A a, b \in Pending : Rep(a) = Rep(b) => a = b
    <2> SUFFICES ASSUME NEW a \in Pending, NEW b \in Pending, Rep(a) = Rep(b) PROVE a = b
      OBVIOUS
    <2>1. CASE a \in Clicks /\ b \in Clicks
      BY <1>1, <2>1 DEF TokenInv
    <2>2. CASE ~(a \in Clicks /\ b \in Clicks)
      BY <1>1, <2>2 DEF Pending
    <2> QED BY <2>1, <2>2
  <1>4. f \in Injection(Pending, Spawners)
    <2> HIDE DEF Rep
    <2>1. f \in [Pending -> Spawners] /\ \A a, b \in Pending : f[a] = f[b] => a = b
      BY <1>2, <1>3
    <2> HIDE DEF f
    <2> QED BY <2>1, Fun_IsInj
  <1> HIDE DEF f
  <1> QED BY <1>4, SpawnersFinite, FS_Injection, SeriesAssumption

Spare == Open \ reopened

LEMMA SpareFinite == TypeOK => IsFiniteSet(Spare) /\ Cardinality(Spare) \in Nat
  <1>1. IsFiniteSet(Ids)
    BY FS_Interval DEF Ids
  <1>2. Spare \in SUBSET Ids
    BY DEF Spare, Open
  <1> QED BY <1>1, <1>2, FS_Subset, FS_CardinalityType

Finite ==
    /\ IsFiniteSet(Pending) /\ Cardinality(Pending) \in Nat
    /\ Cardinality(Pending) <= Cardinality(Spawners) /\ Cardinality(Spawners) \in Nat
    /\ IsFiniteSet(Spare) /\ Cardinality(Spare) \in Nat

LEMMA AreFinite == TypeOK /\ TokenInv => Finite
  BY PendingBounded, SpareFinite, SpawnersFinite, FS_CardinalityType DEF Finite

LEMMA StayFinite == TypeOK' /\ TokenInv' => Finite'
  BY AreFinite, PTL

\* A step that adds to neither side.
LEMMA NothingAdded ==
    ASSUME Finite, Finite', OpensBounded, Pending' \subseteq Pending, Spare' \subseteq Spare
    PROVE  OpensBounded'
  <1>1. Cardinality(Pending') <= Cardinality(Pending) /\ Cardinality(Spare') <= Cardinality(Spare)
    BY FS_Subset DEF Finite
  <1> QED BY <1>1 DEF OpensBounded, Finite, Spare

\* The question: if it is answered with no, nothing is open, and the pending
\* inserts are all there is.
LEMMA AskKeepsBound ==
    ASSUME TypeOK, Finite, Finite', OpensBounded, NEW a \in Actors, AskNotExists(a)
    PROVE  OpensBounded'
  <1>1. CASE NoOpenOccurrence
    <2>1. Spare' = {}
      BY <1>1 DEF AskNotExists, NoOpenOccurrence, Spare, Open, tasks, hist
    <2> QED BY <2>1, FS_EmptySet DEF OpensBounded, Finite, Spare
  <1>2. CASE ~NoOpenOccurrence
    <2>1. \A b \in Actors : IF b = a THEN act'[b].pc = "idle" ELSE act'[b] = act[b]
      BY <1>2, ActorEffects DEF AskNotExists
    <2>2. Pending' \subseteq Pending /\ Spare' = Spare
      BY <2>1 DEF Pending, Spare, Open, AskNotExists, tasks, hist
    <2> QED BY <2>2, NothingAdded
  <1> QED BY <1>1, <1>2

\* The row takes the place of the pending insert.
LEMMA InsertKeepsBound ==
    ASSUME TypeOK, Finite, Finite', OpensBounded, NEW a \in Actors, InsertSuccessor(a)
    PROVE  OpensBounded'
  <1>1. \A b \in Actors : IF b = a THEN act'[b].pc = "idle" ELSE act'[b] = act[b]
    BY ActorEffects DEF InsertSuccessor
  <1>2. a \in Pending /\ Pending' = Pending \ {a}
    BY <1>1 DEF Pending, InsertSuccessor
  <1>3. PICK i \in Ids : status' = [status EXCEPT ![i] = "open"]
    BY DEF InsertSuccessor, Unmade
  <1>4. Spare' \subseteq Spare \union {i}
    BY <1>3 DEF TypeOK, Spare, Open, InsertSuccessor, hist
  <1>5. Cardinality(Pending') = Cardinality(Pending) - 1
    BY <1>2, FS_RemoveElement DEF Finite
  <1>6. Cardinality(Spare') <= Cardinality(Spare) + 1
    <2> DEFINE more == Spare \union {i}
    <2>0. IsFiniteSet(more)
          /\ Cardinality(more) = IF i \in Spare THEN Cardinality(Spare) ELSE Cardinality(Spare) + 1
      BY FS_AddElement DEF Finite
    <2> HIDE DEF more
    <2>1. Cardinality(more) <= Cardinality(Spare) + 1 /\ Cardinality(more) \in Nat
      BY <2>0, FS_CardinalityType DEF Finite
    <2> USE DEF more
    <2>2. Cardinality(Spare') <= Cardinality(more)
      BY <1>4, <2>0, FS_Subset
    <2> QED BY <2>1, <2>2 DEF Finite
  <1> QED BY <1>5, <1>6 DEF OpensBounded, Finite, Spare

\* No other step makes an occurrence open that does not count as reopened.
LEMMA SpareShrinks ==
    ASSUME TypeOK, Next, \A a \in Actors : ~InsertSuccessor(a)
    PROVE  Spare' \subseteq Spare
  <1> USE DEF Spare
  <1>1. ASSUME UNCHANGED tasks, UNCHANGED reopened PROVE Spare' \subseteq Spare
    BY <1>1 DEF tasks, Open
  <1>2. ASSUME NEW i \in Ids, NEW s \in {"open", "done", "deleted"},
               status[i] \in {"open", "done"}, SetStatus(i, s)
        PROVE  Spare' \subseteq Spare
    BY <1>2, SetStatusFacts
  <1>3. ASSUME NEW q \in Requests, NEW to \in {"same", "open", "done"},
               NEW series \in {"same", "on", "off"}, act[q].id \in Rows, PutUpdate(q, to, series)
        PROVE  Spare' \subseteq Spare
    <2> DEFINE i == act[q].id
               s == IF to = "same" THEN status[i] ELSE to
    <2>1. i \in Ids /\ status[i] \in {"open", "done"} /\ s \in {"open", "done", "deleted"}
      BY <1>3 DEF Rows
    <2>2. SetStatus(i, s)
      BY <1>3 DEF PutUpdate
    <2> HIDE DEF i, s
    <2> QED BY <1>2, <2>1, <2>2
  <1>4. ASSUME NEW q \in Requests, NEW to \in {"same", "open", "done"},
               NEW series \in {"same", "on", "off"}, PutWrite(q, to, series) \/ PutAnswerLost(q, to, series)
        PROVE  Spare' \subseteq Spare
    BY <1>1, <1>3, <1>4 DEF PutWrite, PutAnswerLost
  <1>5. ASSUME NEW c \in Clicks, WriteComplete(c) \/ ClickAnswerLost(c) PROVE Spare' \subseteq Spare
    <2>1. CASE act[c].id \in Rows /\ SetStatus(act[c].id, "done")
      BY <1>2, <2>1 DEF Rows
    <2>2. CASE UNCHANGED <<status, reopened>>
      BY <2>2 DEF Open
    <2> QED BY <1>5, <2>1, <2>2 DEF WriteComplete, ClickAnswerLost
  <1>6. CASE \E i \in Ids : DeleteTask(i) \/ \E s \in {"open", "done"} : BulkSetStatus(i, s)
    BY <1>2, <1>6 DEF DeleteTask, BulkSetStatus
  <1>7. CASE \E a \in Actors : AskNotExists(a) \/ Abandon(a)
    BY <1>1, <1>7 DEF AskNotExists, Abandon, hist
  <1>8. CASE \/ \E q \in Requests : \E i \in Ids : PutRead(q, i)
             \/ \E w \in Workers : Sweep(w)
             \/ \E k \in Tokens, i \in Ids \ Unmade, kind \in Kinds : Mint(k, i, kind)
    BY <1>1, <1>8 DEF PutRead, Sweep, Mint, hist
  <1>9. CASE \E c \in Clicks : \/ \E k \in Tokens : Click(c, k)
                               \/ ClaimToken(c) \/ RunComplete(c) \/ RunSnooze(c)
                               \/ GiveBack(c) \/ ClickThrows(c)
    BY <1>1, <1>9 DEF Click, ClaimToken, RunComplete, RunSnooze, GiveBack, ClickThrows, hist
  <1> QED BY <1>4, <1>5, <1>6, <1>7, <1>8, <1>9 DEF Next, Spawn, ClickStep

\* No other step brings an actor to its insert.
LEMMA PendingShrinks ==
    ASSUME TypeOK, Next, \A a \in Actors : ~AskNotExists(a)
    PROVE  Pending' \subseteq Pending
  <1>1. ASSUME NEW a \in Actors, End(a) \/ BeginSpawn(a) \/ \E pc \in Pcs \ {"insert"} : Goto(a, pc)
        PROVE  Pending' \subseteq Pending
    <2>1. \A b \in Actors : act'[b].pc = "insert" => act'[b] = act[b]
      BY <1>1, ActorEffects
    <2> QED BY <2>1 DEF Pending
  <1>2. ASSUME UNCHANGED act PROVE Pending' \subseteq Pending
    BY <1>2 DEF Pending
  <1>3. ASSUME NEW a \in Actors, NEW next, Become(a, next), next.pc # "insert"
        PROVE  Pending' \subseteq Pending
    BY <1>3 DEF Become, TypeOK, Pending
  <1>4. CASE \E a \in Actors : InsertSuccessor(a) \/ Abandon(a)
    BY <1>1, <1>4 DEF InsertSuccessor, Abandon
  <1>5. CASE \E q \in Requests : \E i \in Ids : PutRead(q, i)
    BY <1>3, <1>5, ActorFields DEF PutRead, Actors
  <1>6. CASE \E q \in Requests : \E to \in {"same", "open", "done"}, series \in {"same", "on", "off"} :
                PutWrite(q, to, series) \/ PutAnswerLost(q, to, series)
    BY <1>1, <1>6 DEF PutWrite, PutAnswerLost, Actors
  <1>7. CASE \E w \in Workers : Sweep(w)
    BY <1>1, <1>7 DEF Sweep, Actors
  <1>8. CASE \/ \E i \in Ids : DeleteTask(i) \/ \E s \in {"open", "done"} : BulkSetStatus(i, s)
             \/ \E k \in Tokens, i \in Ids \ Unmade, kind \in Kinds : Mint(k, i, kind)
    BY <1>2, <1>8 DEF DeleteTask, BulkSetStatus, Mint
  <1>9. CASE \E c \in Clicks : \E k \in Tokens : Click(c, k)
    BY <1>3, <1>9, ActorFields DEF Click, Actors
  <1>10. CASE \E c \in Clicks : ClaimToken(c) \/ RunComplete(c) \/ RunSnooze(c) \/ GiveBack(c)
    BY <1>1, <1>10 DEF ClaimToken, RunComplete, RunSnooze, GiveBack, Actors, Pcs
  <1>11. CASE \E c \in Clicks : WriteComplete(c) \/ ClickThrows(c) \/ ClickAnswerLost(c)
    BY <1>1, <1>11 DEF WriteComplete, ClickThrows, ClickAnswerLost, Actors, Pcs
  <1> QED BY <1>4, <1>5, <1>6, <1>7, <1>8, <1>9, <1>10, <1>11 DEF Next, Spawn, ClickStep

LEMMA BoundStep ==
    TypeOK /\ TokenInv /\ TypeOK' /\ TokenInv' /\ OpensBounded /\ [Next]_vars => OpensBounded'
  <1> SUFFICES ASSUME TypeOK, TokenInv, TypeOK', TokenInv', OpensBounded, [Next]_vars
               PROVE  OpensBounded'
    OBVIOUS
  <1>1. Finite /\ Finite'
    BY AreFinite, StayFinite
  <1>2. CASE \E a \in Actors : AskNotExists(a)
    BY <1>1, <1>2, AskKeepsBound
  <1>3. CASE \E a \in Actors : InsertSuccessor(a)
    BY <1>1, <1>3, InsertKeepsBound
  <1>4. CASE Next /\ \A a \in Actors : ~AskNotExists(a) /\ ~InsertSuccessor(a)
    BY <1>1, <1>4, PendingShrinks, SpareShrinks, NothingAdded
  <1>5. CASE UNCHANGED vars
    BY <1>5 DEF vars, tasks, hist, OpensBounded, Open, Pending
  <1> QED BY <1>2, <1>3, <1>4, <1>5

\* However long the series runs, its open occurrences that nobody reopened are
\* never more than the requests, sweeps and links that can spawn at one time.
THEOREM OpenOccurrencesBounded == Spec => []OpensBounded
  <1>1. Init => OpensBounded
    <2> SUFFICES ASSUME Init PROVE OpensBounded
      OBVIOUS
    <2>1. Open \ reopened = {1} /\ Pending = {}
      BY DEF Init, Open, Ids, Pending, IdleActor, Actor
    <2>2. Cardinality(Open \ reopened) = 1 /\ Cardinality(Pending) = 0
      BY <2>1, FS_Singleton, FS_EmptySet
    <2>3. Cardinality(Spawners) \in Nat /\ Cardinality(Spawners) # 0
      BY SpawnersFinite, FS_CardinalityType, FS_EmptySet DEF Spawners
    <2> QED BY <2>2, <2>3 DEF OpensBounded
  <1> QED BY <1>1, SeriesTypeCorrect, TokensHeldOnce, BoundStep, PTL DEF Spec
=============================================================================
