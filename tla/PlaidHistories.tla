--------------------------- MODULE PlaidHistories ---------------------------
(***************************************************************************)
(* PlaidSync in histories of two kinds: anything happens, or households    *)
(* link the same accounts several times and nobody ends a connection.      *)
(***************************************************************************)
EXTENDS PlaidSync

VARIABLE history    \* the kind of history, chosen in the beginning

\* No disconnection, no deletion of the household, no permission revoked at the
\* bank: what ends here is ended by the worker.
Undisturbed ==
    \/ \E c \in Connections :
          \/ Link(c) \/ RequestSync(c) \/ SetInclusion(c)
          \/ StartUpdate(c) \/ StoreUpdateSession(c) \/ CompleteUpdate(c)
          \/ ExpireUpdate(c)
    \/ \E p \in Payload : p.kind # "permission_revoked" /\ Webhook(p)
    \/ \E lapsed, old \in SUBSET Connections : Maintain(lapsed, old)
    \/ \E r \in Row : TimePasses(r)
    \/ \E c \in Connections : Grow(c)
    \/ \E w \in Workers : Work(w)

HistoryInit == Init /\ history \in {"any", "undisturbed"}

HistoryNext ==
    /\ \/ history = "any" /\ Next
       \/ history = "undisturbed" /\ Undisturbed
    /\ UNCHANGED history

HistorySpec == HistoryInit /\ [][HistoryNext]_<<vars, history>>

------------------------------------------------------------------------------
\* Of two links to the same accounts the oldest stays (plaid.service.ts:1628).
LinksSurvive == history = "undisturbed" => OldestLinkSurvives

\* Why they do.  No connection is older than the first one to its accounts, so
\* no sync retires it, and no worker ever has a revocation of it to finish or
\* to give up.
First(c) == \A d \in Connections : d < c => Bank[d] # Bank[c]

LinkedInOrder ==
    \A c, d \in Connections : d < c /\ status[c] # "unlinked" => status[d] # "unlinked"

Spared(c) ==
    /\ ~Ending(c)
    /\ \A r \in RowsOf(c, "revoke") : jobs[r].state = "none" /\ ~Held(r)

HistoryInv ==
    /\ LinkedInOrder
    /\ \A w \in Workers : worker[w].stage = "removed" => worker[w].row.op = "revoke"
    /\ history = "undisturbed" => \A c \in Connections : First(c) => Spared(c)
==============================================================================
