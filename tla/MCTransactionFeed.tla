------------------------- MODULE MCTransactionFeed -------------------------
(***************************************************************************)
(* Instances of TransactionFeed: a list of several pages with two          *)
(* transactions of one day on either side of a page's end, written to      *)
(* while it is read and shorter than the history; filters and categories;  *)
(* a recorded transaction that is edited and removed.                      *)
(***************************************************************************)
EXTENDS TransactionFeed

Base == [days |-> <<1>>, manual |-> {}, late |-> {}, kinds |-> {},
         changes |-> 0, edits |-> 0, refreshes |-> 0, loads |-> 1]

With(r) == [f \in DOMAIN Base |-> IF f \in DOMAIN r THEN r[f] ELSE Base[f]]

MCWorlds ==
  {With([days |-> <<1, 1, 1, 2>>, late |-> {3}, kinds |-> {"bank"}, changes |-> 1, loads |-> 4]),
   With([days |-> <<1, 1, 2, 2, 2>>, loads |-> 5]),
   With([days |-> <<1, 1, 2>>, kinds |-> {"filter", "elsewhere"}, changes |-> 1, loads |-> 3]),
   With([days |-> <<1, 1>>, kinds |-> {"filter", "categorize"}, edits |-> 2, loads |-> 3]),
   With([days |-> <<1>>, kinds |-> {"categorize", "bank", "rule"}, changes |-> 3, edits |-> 1,
         loads |-> 2]),
   With([days |-> <<1, 2, 1>>, manual |-> {2}, kinds |-> {"edit", "void"}, edits |-> 1,
         refreshes |-> 1, loads |-> 4]),
   With([days |-> <<1, 2, 3, 4, 5>>, manual |-> {3}, kinds |-> {"edit"}, edits |-> 1,
         loads |-> 3])}
=============================================================================
