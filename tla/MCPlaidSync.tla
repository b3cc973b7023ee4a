---------------------------- MODULE MCPlaidSync ----------------------------
(***************************************************************************)
(* Small instances of PlaidSync.                                           *)
(***************************************************************************)
EXTENDS PlaidSync, TLC

\* All connections lead to the same accounts at the same institution.
MCBank == [c \in Connections |-> "same accounts"]

\* One body of every kind for the first connection.
MCPayload == [conn : {1}, kind : Kinds, body : {1}]

\* No webhook is delivered.
MCNoPayload == {}

MCSymmetry == Permutations(Workers)
=============================================================================
