---------------------------- MODULE LedgerReplica ----------------------------
(***************************************************************************)
(* What a bank connection promises, without jobs, workers, webhooks or     *)
(* statuses.                                                               *)
(*                                                                         *)
(* The provider keeps a growing feed of transaction updates for every      *)
(* linked Item.  The ledger holds a prefix of that feed, folds every       *)
(* update in exactly once, and never goes back.  Access to the Item ends   *)
(* in two steps that never swap: the provider removes the Item first, the  *)
(* stored access token is erased second; once the token is erased the      *)
(* ledger of the connection is frozen.                                     *)
(*                                                                         *)
(* PlaidSync implements this specification (Replica!Spec there).           *)
(***************************************************************************)
EXTENDS Naturals

CONSTANT Connections     \* the bank connections a household may ever have

VARIABLES
    feed,                \* feed[c]: how many updates the provider has issued
    folded,              \* folded[c]: how many of them the ledger holds
    access               \* access[c]: none -> granted -> removed -> erased

vars == <<feed, folded, access>>

Access == {"none", "granted", "removed", "erased"}

TypeOK ==
    /\ feed \in [Connections -> Nat]
    /\ folded \in [Connections -> Nat]
    /\ access \in [Connections -> Access]

Init ==
    /\ feed = [c \in Connections |-> 0]
    /\ folded = [c \in Connections |-> 0]
    /\ access = [c \in Connections |-> "none"]

\* A token is stored for a new Item whose feed already holds its history.
Grant(c) ==
    /\ access[c] = "none"
    /\ access' = [access EXCEPT ![c] = "granted"]
    /\ feed' = [feed EXCEPT ![c] = 1]
    /\ UNCHANGED folded

\* The provider appends one update.
Append(c) ==
    /\ access[c] = "granted"
    /\ feed' = [feed EXCEPT ![c] = @ + 1]
    /\ UNCHANGED <<folded, access>>

\* The ledger takes in the next updates, as many as there are at most.
Fold(c) ==
    /\ access[c] \in {"granted", "removed"}
    /\ \E n \in folded[c] .. feed[c] : folded' = [folded EXCEPT ![c] = n]
    /\ UNCHANGED <<feed, access>>

\* The provider removes the Item.
Remove(c) ==
    /\ access[c] = "granted"
    /\ access' = [access EXCEPT ![c] = "removed"]
    /\ UNCHANGED <<feed, folded>>

\* The token is erased, after the provider's removal only.
Erase(c) ==
    /\ access[c] = "removed"
    /\ access' = [access EXCEPT ![c] = "erased"]
    /\ UNCHANGED <<feed, folded>>

Next ==
    \E c \in Connections :
        Grant(c) \/ Append(c) \/ Fold(c) \/ Remove(c) \/ Erase(c)

Spec == Init /\ [][Next]_vars
==============================================================================
