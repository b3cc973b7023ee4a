--------------------------- MODULE MCPlaidQueue ---------------------------
(***************************************************************************)
(* A history of each kind of PlaidHistories without webhooks: two workers  *)
(* that may hold the same row of one connection, which is disconnected at  *)
(* some time, and two links to the same accounts that nobody disconnects.  *)
(***************************************************************************)
EXTENDS MCPlaidSync, PlaidHistories

\* Jobs end dead after their last attempt; the other runs have database errors.
TwoWorkers ==
    \/ Link(1) \/ Disconnect(1)
    \/ Maintain({1}, {})
    \/ \E r \in Row : TimePasses(r)
    \/ \E w \in Workers : Work(w) /\ ~StepFails(w)

\* No worker is lost here, so no lease passes while a job still runs.
TwoLinks ==
    \/ \E c \in Connections : Link(c)
    \/ \E lapsed, old \in SUBSET Connections : Maintain(lapsed, old)
    \/ \E r \in Row : jobs[r].state = "queued" /\ TimePasses(r)
    \/ \E w \in Workers : Work(w) /\ ~Crash(w)

MCNext ==
    /\ \/ history = "any" /\ TwoWorkers
       \/ history = "undisturbed" /\ TwoLinks
    /\ UNCHANGED history

MCSpec == HistoryInit /\ [][MCNext]_<<vars, history>>
=============================================================================
