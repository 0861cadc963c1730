--------------------------- MODULE StoppedSeries ---------------------------
(***************************************************************************)
(* A recurring series that its user stops, with a history variable on      *)
(* TaskSeries for what the user did.                                       *)
(***************************************************************************)
EXTENDS TaskSeries

VARIABLE stopped    \* the user stopped the series, and has undone nothing since

Spawning(a) == act[a].pc \in {"spawn", "insert"}

\* recurrence_active goes off at the only open occurrence, no spawn under way.
Stops ==
    /\ \A a \in Actors : ~Spawning(a)
    /\ \E i \in Rows : recurs[i] /\ ~recurs'[i] /\ Open = {i} /\ Open' = {i}

\* It goes on again, or an occurrence is deleted.
Revokes ==
    \E i \in Rows : (recurs'[i] /\ ~recurs[i]) \/ status'[i] = "deleted"

StopInit == Init /\ stopped = FALSE

StopNext ==
    /\ Next
    /\ stopped' = (Stops \/ (stopped /\ ~Revokes))

StopSpec == StopInit /\ [][StopNext]_<<vars, stopped>>

\* Migration 129 of recurrence_active: "FALSE stops a recurring series from
\* spawning successors".  Once the user stopped the series no occurrence
\* appears.
StoppedNeverSpawns ==
    [][stopped => \A i \in Ids : status[i] = "none" => status'[i] = "none"]_<<vars, stopped>>
=============================================================================
