-------------------------- MODULE TaskSeriesProps --------------------------
(***************************************************************************)
(* What recurring tasks and the links in e-mails owe to the user: no pile  *)
(* of open occurrences beyond the spawns that overlap, a series that goes  *)
(* on, and a link that acts once.                                          *)
(***************************************************************************)
EXTENDS TaskSeries

Pcs == {"idle", "put", "spawn", "insert", "claim", "run", "write", "give_back"}

\* Every actor is at a step of its own operation, on a task that exists.
TypeOK ==
    /\ status \in [Ids -> {"none", "open", "done", "deleted"}]
    /\ recurs \in [Ids -> BOOLEAN]
    /\ act \in [Actors -> [pc : Pcs, id : Ids,
                           prior : {"none", "open", "done"}, token : Tokens \union {None}]]
    /\ token \in [Tokens -> [state : {"none", "fresh", "used"}, id : Ids, kind : Kinds]]
    /\ faults \in 0..MaxFaults
    /\ reopened \in SUBSET Open
    /\ mutated \in [Tokens -> Nat]
    /\ status[1] # "none" /\ \A a \in Actors : status[act[a].id] # "none"
    /\ \A c \in Clicks : Tok(c) = None <=> act[c].pc = "idle"
    /\ \A c \in Clicks : act[c].pc # "put"
    /\ \A a \in Requests \union Workers : Tok(a) = None /\ act[a].pc \in {"idle", "put", "spawn", "insert"}
    /\ \A k \in Tokens : status[token[k].id] # "none"

Pending == {a \in Actors : act[a].pc = "insert"}

\* The guard NOT EXISTS of spawnNextOccurrence holds the open occurrences of a
\* series down to the spawns that were between question and row at one time,
\* however long the series runs: one for each request and each sweep, and one
\* for each link, since a link that spawned never acts again.  Reopened tasks
\* do not count, the user asked for those.
Spawners == Requests \union Workers \union Tokens

OpensBounded ==
    Cardinality(Open \ reopened) + Cardinality(Pending) <= Cardinality(Spawners)

\* Why a link acts once.  From the claim of a token to the end of what its
\* action does there is one click at most, and the token is used meanwhile;
\* once a click was told that it changed the task the token stays used.
Acting   == {"run", "write", "give_back"}
Holds(k) == {c \in Clicks : act[c].pc \in Acting \union {"spawn", "insert"} /\ Tok(c) = k}

TokenInv ==
    \A k \in Tokens :
        /\ \A c, d \in Holds(k) : c = d
        /\ Holds(k) # {} => token[k].state = "used"
        /\ \A c \in Holds(k) : act[c].pc \in Acting => mutated[k] = 0
        /\ mutated[k] # 0 => token[k].state = "used" /\ mutated[k] = 1
        /\ token[k].state = "none" => \A c \in Clicks : Tok(c) # k

\* A link acts once: whatever clicks and retries there are, only one of them is
\* told that it changed the task.  A change that was committed and whose answer
\* was lost is reported as a failure and may come again, hence "told".
ActsOnce == \A k \in Tokens : mutated[k] <= 1

\* A series with a completed occurrence that recurs and none that is open gets
\* its next one, by the hourly sweep if nobody else made it: after a bulk edit,
\* a delete, a spawn that failed or a process that died.
Stalled ==
    Open = {} /\ Unmade # {} /\ \E i \in Ids : status[i] = "done" /\ recurs[i]

SeriesGoesOn == Stalled ~> ~Stalled
=============================================================================
