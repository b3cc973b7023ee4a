---------------------------- MODULE MCCashAlert ----------------------------
(***************************************************************************)
(* Small instances of CashAlert.                                           *)
(***************************************************************************)
EXTENDS CashAlert, TLC

\* The sets of accounts are told apart only when some are manual.
MCSymmetry == Permutations(Writers) \cup Permutations(Choices)
=============================================================================
