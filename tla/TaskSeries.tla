----------------------------- MODULE TaskSeries -----------------------------
(***************************************************************************)
(* Recurring tasks and the one-click e-mail actions on them: PUT, PATCH    *)
(* bulk and DELETE of routes/taskRoutes.js, services/recurringTasks.js,    *)
(* the hourly recurringTaskWorker, and services/emailActions.js with its   *)
(* task.complete and task.snooze.                                          *)
(*                                                                         *)
(* One series: a root task and its occurrences, numbered as they are made. *)
(* Completing an occurrence spawns the next, by one INSERT that asks for   *)
(* an open occurrence of the series.  Under READ COMMITTED two such        *)
(* statements at the same time do not see each other's row, so the INSERT  *)
(* is two steps here, the question and the row.                            *)
(*                                                                         *)
(* "recurs" stands for a rule that is set and recurrence_active that is    *)
(* not FALSE: the code always asks for both.  Due dates and what else a new *)
(* occurrence copies are left out, and with them which of several completed *)
(* occurrences the worker takes as its source.                             *)
(***************************************************************************)
EXTENDS Naturals, FiniteSets

CONSTANTS
    Requests,   \* PUT requests that may be under way at the same time
    Clicks,     \* clicks on e-mail links that may be under way
    Workers,    \* sweeps of recurringTaskWorker that may be under way
    Tokens,     \* e-mail action tokens
    None,       \* no token
    MaxTasks,   \* bound: occurrences of the series
    MaxFaults   \* bound: failing statements and dying processes

Ids    == 1..MaxTasks
Actors == Requests \union Clicks \union Workers

ASSUME SeriesAssumption ==
    /\ MaxTasks \in Nat \ {0} /\ MaxFaults \in Nat
    /\ IsFiniteSet(Requests) /\ Requests # {} /\ IsFiniteSet(Clicks) /\ IsFiniteSet(Workers)
    /\ Requests \intersect (Clicks \union Workers) = {} /\ Clicks \intersect Workers = {}
    /\ IsFiniteSet(Tokens) /\ None \notin Tokens /\ Tokens \intersect Actors = {}

VARIABLES
    status,     \* of each occurrence; "none" before it is made
    recurs,     \* whether it carries an active recurrence
    act,        \* each actor: program counter, task, prior status or token
    token,      \* email_action_tokens
    faults,     \* faults so far
    reopened,   \* history: open occurrences that had been completed before
    mutated     \* history: how often a token's action changed its task, as far
                \* as the click that ran it was told

tasks == <<status, recurs>>
hist  == <<reopened, mutated>>
vars  == <<tasks, act, token, faults, hist>>

Actor(pc, id, prior, k) == [pc |-> pc, id |-> id, prior |-> prior, token |-> k]
Token(state, id, kind)  == [state |-> state, id |-> id, kind |-> kind]
IdleActor == Actor("idle", 1, "none", None)
Kinds     == {"task.complete", "task.snooze"}

Open   == {i \in Ids : status[i] = "open"}
Rows   == {i \in Ids : status[i] \in {"open", "done"}}
Unmade == {i \in Ids : status[i] = "none"}

Init ==
    /\ status = [i \in Ids |-> IF i = 1 THEN "open" ELSE "none"]
    /\ recurs = [i \in Ids |-> i = 1]
    /\ act = [a \in Actors |-> IdleActor]
    /\ token = [k \in Tokens |-> Token("none", 1, "task.complete")]
    /\ faults = 0
    /\ reopened = {}
    /\ mutated = [k \in Tokens |-> 0]

Become(a, next) == act' = [act EXCEPT ![a] = next]
Goto(a, pc)     == Become(a, Actor(pc, act[a].id, act[a].prior, act[a].token))
End(a)          == Become(a, IdleActor)

\* The new row copies fields of the task that was completed which are left out
\* here, so an actor that spawns keeps nothing of it but the link it is for.
BeginSpawn(a) == Become(a, Actor("spawn", 1, "none", act[a].token))

\* A task changes its status, and with it what the history says of it.
SetStatus(i, s) ==
    /\ status' = [status EXCEPT ![i] = s]
    /\ reopened' = IF status[i] = "done" /\ s = "open" THEN reopened \union {i}
                   ELSE IF s = "open" THEN reopened ELSE reopened \ {i}

-----------------------------------------------------------------------------
(* Statements of one step: PATCH /bulk and the two ways to delete.         *)

BulkSetStatus(i, s) ==
    /\ status[i] \in {"open", "done"}
    /\ SetStatus(i, s)
    /\ UNCHANGED <<recurs, act, token, faults, mutated>>

DeleteTask(i) ==
    /\ status[i] \in {"open", "done"}
    /\ SetStatus(i, "deleted")
    /\ UNCHANGED <<recurs, act, token, faults, mutated>>

-----------------------------------------------------------------------------
(* spawnNextOccurrence.                                                    *)

\* Mutant of NoOpenOccurrence: only the root is asked.
RootNotOpen == status[1] # "open"

NoOpenOccurrence == Open = {}

AskNotExists(a) ==
    /\ act[a].pc = "spawn"
    /\ IF NoOpenOccurrence THEN Goto(a, "insert") ELSE End(a)
    /\ UNCHANGED <<tasks, token, faults, hist>>

InsertSuccessor(a) ==
    /\ act[a].pc = "insert"
    /\ \E i \in Unmade :
          /\ \A j \in Unmade : i <= j
          /\ status' = [status EXCEPT ![i] = "open"]
          /\ recurs' = [recurs EXCEPT ![i] = TRUE]
    /\ End(a)
    /\ UNCHANGED <<token, faults, hist>>

-----------------------------------------------------------------------------
(* PUT /tasks/:id.  What the request asks for matters at its UPDATE only,  *)
(* so it is chosen there.                                                  *)

\* Mutant of PutRead: no 404 for a task that is gone.
PutReadGone(q, i) ==
    /\ act[q].pc = "idle"
    /\ Become(q, Actor("put", i, status[i], None))
    /\ UNCHANGED <<tasks, token, faults, hist>>

PutRead(q, i) ==
    /\ act[q].pc = "idle"
    /\ i \in Rows
    /\ Become(q, Actor("put", i, status[i], None))
    /\ UNCHANGED <<tasks, token, faults, hist>>

\* The statement of the UPDATE, whatever becomes of its answer.
PutUpdate(q, to, series) ==
    LET i == act[q].id
        s == IF to = "same" THEN status[i] ELSE to
    IN  /\ SetStatus(i, s)
        /\ recurs' = [recurs EXCEPT ![i] = IF series = "same" THEN recurs[i] ELSE series = "on"]

\* The transition into done, by the status read before.
PutSpawns(q) ==
    status'[act[q].id] = "done" /\ act[q].prior # "done" /\ recurs'[act[q].id]

PutWrite(q, to, series) ==
    /\ act[q].pc = "put"
    /\ IF act[q].id \in Rows
       THEN PutUpdate(q, to, series) /\ (IF PutSpawns(q) THEN BeginSpawn(q) ELSE End(q))
       ELSE End(q) /\ UNCHANGED <<tasks, reopened>>
    /\ UNCHANGED <<token, faults, mutated>>

-----------------------------------------------------------------------------
(* recurringTaskWorker.                                                    *)

\* Mutant of Orphaned: only root tasks are looked at.
OrphanedRoots == {i \in Ids : i = 1 /\ status[i] = "done" /\ recurs[i] /\ Open = {}}

\* Completed occurrences of a series that is active and has none open.
Orphaned == {i \in Ids : status[i] = "done" /\ recurs[i] /\ Open = {}}

Sweep(w) ==
    /\ act[w].pc = "idle"
    /\ Orphaned # {}
    /\ BeginSpawn(w)
    /\ UNCHANGED <<tasks, token, faults, hist>>

-----------------------------------------------------------------------------
(* E-mail actions.  A link that has expired or whose user was suspended is *)
(* refused when it is loaded: no click at all, as far as the tasks go.     *)

\* The task is not looked at: a digest sends the link when it is flushed, and
\* by then the task may be done or gone.
Mint(k, i, kind) ==
    /\ token[k].state = "none"
    /\ token' = [token EXCEPT ![k] = Token("fresh", i, kind)]
    /\ UNCHANGED <<tasks, act, faults, hist>>

Click(c, k) ==
    /\ act[c].pc = "idle"
    /\ token[k].state = "fresh"
    /\ Become(c, Actor("claim", token[k].id, "none", k))
    /\ UNCHANGED <<tasks, token, faults, hist>>

Tok(c)  == act[c].token
Kind(c) == token[Tok(c)].kind

Restate(c, state) ==
    token' = [token EXCEPT ![Tok(c)] = Token(state, token[Tok(c)].id, Kind(c))]

\* Mutant of ClaimToken: the UPDATE without its guard.
ClaimTokenAlways(c) ==
    /\ act[c].pc = "claim"
    /\ Restate(c, "used")
    /\ Goto(c, "run")
    /\ UNCHANGED <<tasks, faults, hist>>

ClaimToken(c) ==
    /\ act[c].pc = "claim"
    /\ IF token[Tok(c)].state = "fresh"
       THEN Restate(c, "used") /\ Goto(c, "run")
       ELSE End(c) /\ UNCHANGED token
    /\ UNCHANGED <<tasks, faults, hist>>

\* task.complete reads the status first; a task that is gone or done ends it.
RunComplete(c) ==
    /\ act[c].pc = "run" /\ Kind(c) = "task.complete"
    /\ IF status[act[c].id] = "open" THEN Goto(c, "write") ELSE End(c)
    /\ UNCHANGED <<tasks, token, faults, hist>>

Mutate(c) == mutated' = [mutated EXCEPT ![Tok(c)] = mutated[Tok(c)] + 1]

\* The UPDATE asks for no status.  If the task was deleted since, reading its
\* row throws, and the token is given back.
WriteComplete(c) ==
    /\ act[c].pc = "write"
    /\ IF act[c].id \in Rows
       THEN /\ SetStatus(act[c].id, "done")
            /\ Mutate(c)
            /\ IF recurs[act[c].id] THEN BeginSpawn(c) ELSE End(c)
       ELSE Goto(c, "give_back") /\ UNCHANGED <<status, reopened, mutated>>
    /\ UNCHANGED <<recurs, token, faults>>

RunSnooze(c) ==
    /\ act[c].pc = "run" /\ Kind(c) = "task.snooze"
    /\ IF status[act[c].id] = "open" THEN Mutate(c) ELSE UNCHANGED mutated
    /\ End(c)
    /\ UNCHANGED <<tasks, token, faults, reopened>>

GiveBack(c) ==
    /\ act[c].pc = "give_back"
    /\ Restate(c, "fresh")
    /\ End(c)
    /\ UNCHANGED <<tasks, faults, hist>>

-----------------------------------------------------------------------------
(* Failures.                                                               *)

Fault == faults < MaxFaults /\ faults' = faults + 1

\* A statement fails without effect where the error is swallowed or becomes a
\* 500, or the process dies.
Abandon(a) ==
    /\ act[a].pc # "idle"
    /\ Fault
    /\ End(a)
    /\ UNCHANGED <<tasks, token, hist>>

\* The UPDATE of a PUT is committed and its answer lost: no spawn follows.
PutAnswerLost(q, to, series) ==
    /\ act[q].pc = "put" /\ act[q].id \in Rows
    /\ Fault
    /\ PutUpdate(q, to, series)
    /\ End(q)
    /\ UNCHANGED <<token, mutated>>

\* A statement of a click's action fails: the token is given back.
ClickThrows(c) ==
    /\ act[c].pc \in {"run", "write"}
    /\ Fault
    /\ Goto(c, "give_back")
    /\ UNCHANGED <<tasks, token, hist>>

\* Its UPDATE is committed and the answer lost.
ClickAnswerLost(c) ==
    /\ \/ act[c].pc = "write" /\ act[c].id \in Rows /\ SetStatus(act[c].id, "done")
       \/ /\ act[c].pc = "run" /\ Kind(c) = "task.snooze"
          /\ status[act[c].id] = "open"
          /\ UNCHANGED <<status, reopened>>
    /\ Fault
    /\ Goto(c, "give_back")
    /\ UNCHANGED <<recurs, token, mutated>>

-----------------------------------------------------------------------------
Spawn(a) == AskNotExists(a) \/ InsertSuccessor(a)

ClickStep(c) ==
    \/ ClaimToken(c)
    \/ RunComplete(c)
    \/ WriteComplete(c)
    \/ RunSnooze(c)
    \/ GiveBack(c)

Next ==
    \/ \E i \in Ids : DeleteTask(i) \/ \E s \in {"open", "done"} : BulkSetStatus(i, s)
    \/ \E a \in Actors : Spawn(a) \/ Abandon(a)
    \/ \E q \in Requests :
          \/ \E i \in Ids : PutRead(q, i)
          \/ \E to \in {"same", "open", "done"}, series \in {"same", "on", "off"} :
                PutWrite(q, to, series) \/ PutAnswerLost(q, to, series)
    \/ \E w \in Workers : Sweep(w)
    \/ \E k \in Tokens, i \in Ids \ Unmade, kind \in Kinds : Mint(k, i, kind)
    \/ \E c \in Clicks :
          \/ \E k \in Tokens : Click(c, k)
          \/ ClickStep(c)
          \/ ClickThrows(c)
          \/ ClickAnswerLost(c)

Spec == Init /\ [][Next]_vars

\* The hourly sweep, and the promise chain of every sweep.
Fairness == \A w \in Workers : WF_vars(Sweep(w)) /\ WF_vars(Spawn(w))

FairSpec == Spec /\ Fairness
=============================================================================
