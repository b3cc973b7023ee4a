-------------------------- MODULE MCPlanEvidence --------------------------
\* Five small households: a one-time and a recurring bill, savings fed from
\* two banks, a debt paid from a bank to a lender, and two incomes that fit
\* one deposit.
EXTENDS PlanEvidence

MCSource == 1 .. 6
MCKind == <<"one_time", "recurring", "debt", "savings", "income", "income">>
MCFirstRule == [s \in MCSource |-> [amount |-> 2, due |-> IF s = 1 THEN 9 ELSE 12]]

Tx(feed, way, amount, date, place, topic, named) ==
  [feed |-> feed, way |-> way, amount |-> amount, date |-> date, place |-> place,
   topic |-> topic, named |-> named]

MCAbout == <<
  Tx("plaid",  "debit",  2, 11, "spendable", "other",    {1, 2}),
  Tx("manual", "debit",  2, 11, "spendable", "other",    {}),
  Tx("manual", "debit",  1, 11, "spendable", "other",    {}),
  Tx("plaid",  "credit", 2, 12, "protected", "transfer", {}),
  Tx("plaid",  "debit",  2, 12, "spendable", "transfer", {}),
  Tx("manual", "credit", 1, 12, "protected", "other",    {}),
  Tx("plaid",  "debit",  2, 12, "spendable", "other",    {}),
  Tx("plaid",  "credit", 2, 13, "liability", "other",    {}),
  Tx("plaid",  "credit", 2, 12, "spendable", "income",   {5, 6}),
  Tx("plaid",  "credit", 2, 13, "spendable", "income",   {5}),
  Tx("plaid",  "debit",  1, 12, "spendable", "other",    {2}) >>
MCEvidence == DOMAIN MCAbout
MCSuccessor == 2 :> 3

World(S, E, D) == [sources |-> S, evidence |-> E, edits |-> D]
Cheaper == [amount |-> 1, due |-> 12]
Usual == [amount |-> 2, due |-> 12]
MCWorlds == {World({1}, {1, 2, 3}, {}), World({1}, {2, 3}, {Cheaper}), World({2}, {1, 11}, {Cheaper}),
             World({4}, {4, 5, 6}, {}), World({4}, {4, 5}, {Cheaper}), World({3}, {7, 8, 3}, {Cheaper}),
             World({5, 6}, {9}, {Usual}), World({5}, {9, 10}, {})}
=============================================================================
