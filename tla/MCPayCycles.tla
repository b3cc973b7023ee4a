---------------------------- MODULE MCPayCycles ----------------------------
\* Six small ledgers of one household: paydays that come, go and return; the
\* activity between two paydays with a debt and a saving; balances, roles and
\* days; the horizon of the plan; paydays that grow old; bills that fall due.
EXTENDS PayCycles

Tx0(on, amount, way, source, topic) ==
  [on |-> on, amount |-> amount, way |-> way, source |-> source,
   account |-> "checking", topic |-> topic]
Pay(on, source) == Tx0(on, 5, "credit", source, "income")
Wage(on) == [kind |-> "income", on |-> on, amount |-> 5]
Match(x, o) == [tx |-> x, occ |-> o]

\* What the bank holds on a day.
Held(T, d) ==
  20 + MapThenSumSet(LAMBDA x : IF T[x].way = "credit" THEN T[x].amount ELSE 0 - T[x].amount,
                     {x \in DOMAIN T : T[x].on <= d})
Balance(T, on, source) ==
  [on |-> on, source |-> source, account |-> "checking", amount |-> Held(T, on)]
Nothing == [x \in {} |-> 0]

Spendable == [checking |-> <<[on |-> 0, role |-> "spendable"]>>]
World(T, O, M, V, B, start, first, days, commands, ops) ==
  [txs |-> T, occs |-> O, matches |-> M, moves |-> V, balances |-> B, recorded |-> start,
   first |-> first, days |-> days, late |-> {}, ahead |-> 0, ops |-> ops, commands |-> commands,
   roles |-> Spendable, plans |-> {1},
   categories |-> {"groceries"}, newRoles |-> {}]
\* Paydays on days 2, 4 and 6; the second income arrives in two deposits.
PaydayTxs == [p1 |-> Pay(2, "plaid"), p2 |-> [Pay(4, "plaid") EXCEPT !.amount = 2],
              p3 |-> [Pay(5, "plaid") EXCEPT !.amount = 3], p4 |-> Pay(6, "manual")]
Paydays1 == World(PaydayTxs,
  [i1 |-> Wage(2), i2 |-> Wage(4), i3 |-> Wage(6)],
  [m1 |-> Match("p1", "i1"), m2 |-> Match("p2", "i2"), m3 |-> Match("p3", "i2"),
   m4 |-> Match("p4", "i3")],
  Nothing, [b1 |-> Balance(PaydayTxs, 6, "plaid"), b2 |-> Balance(PaydayTxs, 6, "manual")],
  <<"p1", "p2", "p3", "p4", "b1", "b2">>, 6, 6, 7, {"link", "unlink", "open"})

\* Two paydays, and between them groceries, a debt and money put aside.
LedgerTxs == [p1 |-> Pay(2, "plaid"), p2 |-> Pay(5, "plaid"),
              g |-> Tx0(3, 1, "debit", "plaid", "groceries"),
              d |-> Tx0(3, 2, "debit", "plaid", "debt"),
              s |-> Tx0(4, 1, "debit", "plaid", "transfer")]
LedgerOccs(due) == [i1 |-> Wage(2), i2 |-> Wage(5), o |-> [kind |-> "debt", on |-> due, amount |-> 2]]
Saving(on) == [kind |-> "contribution", on |-> on, amount |-> 1, debit |-> "s", method |-> "provider_verified"]
LedgerMatches == [m1 |-> Match("p1", "i1"), m2 |-> Match("p2", "i2"), m3 |-> Match("d", "o")]
LedgerBalances == [b1 |-> Balance(LedgerTxs, 1, "plaid"), b2 |-> Balance(LedgerTxs, 4, "plaid"),
                   b3 |-> Balance(LedgerTxs, 5, "plaid")]
Ledger1(due, on, n, ops) ==
  World(LedgerTxs, LedgerOccs(due), LedgerMatches, [v |-> Saving(on)], LedgerBalances,
        <<"b1", "p1", "p2", "g", "d", "s", "b2", "b3">>, 5, 5, n, ops)

\* One payday, groceries of two days, balances of both sources, a change of role.
CoverTxs == [p1 |-> Pay(2, "plaid"), g |-> Tx0(2, 1, "debit", "plaid", "groceries"),
             h |-> Tx0(3, 1, "debit", "manual", "groceries")]
Cover1 == [World(CoverTxs, [i1 |-> Wage(2)], [m1 |-> Match("p1", "i1")], Nothing,
  [b1 |-> Balance(CoverTxs, 1, "plaid"), b2 |-> Balance(CoverTxs, 2, "plaid"),
   b3 |-> Balance(CoverTxs, 3, "manual"), b4 |-> Balance(CoverTxs, 3, "plaid")],
  <<"b1", "p1">>, 2, 4, 5, {"record", "observe", "link", "role"})
  EXCEPT !.newRoles = {"protected", "spendable"}]

\* The horizon of the plan, and paydays that leave the window.
Plan1 == [World([p1 |-> Pay(1, "plaid"), p2 |-> Pay(2, "plaid")],
  [i1 |-> Wage(1), i2 |-> Wage(2)],
  [m1 |-> Match("p1", "i1"), m2 |-> Match("p2", "i2")], Nothing,
  [b1 |-> [on |-> 2, source |-> "plaid", account |-> "checking", amount |-> 5]],
  <<"p1", "p2", "b1">>, 6, 9, 5, {"plan", "touch", "link"}) EXCEPT !.plans = {1, 2}]

\* A bill that falls due in the open cycle and one the plan has yet to reach.
BillTxs == [p1 |-> Pay(2, "plaid"), p2 |-> Pay(4, "plaid"), d |-> Tx0(4, 2, "debit", "plaid", "groceries")]
Bill(on) == [kind |-> "bill", on |-> on, amount |-> 2]
Bills1 == [World(BillTxs,
  [i1 |-> Wage(2), i2 |-> Wage(4), o |-> Bill(4), n |-> Bill(5)],
  [m1 |-> Match("p1", "i1"), m2 |-> Match("p2", "i2"), m3 |-> Match("d", "o")], Nothing,
  [b1 |-> Balance(BillTxs, 4, "plaid")],
  <<"p1", "p2", "d", "b1">>, 4, 6, 4, {"sweep", "link", "unlink", "open"})
  EXCEPT !.late = {"n"}, !.ahead = 1]

MCWorlds == {Paydays1, Ledger1(3, 4, 5, {"categorize", "book", "unbook", "link"}),
             Ledger1(6, 4, 5, {"link", "unlink", "book", "unbook", "remove", "open"}), Cover1, Plan1, Bills1}
=============================================================================
