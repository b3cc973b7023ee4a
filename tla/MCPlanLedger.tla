--------------------------- MODULE MCPlanLedger ---------------------------
\* One bank with savings, checking and a loan, a manual account from the
\* start, and accounts the user may add by hand.
EXTENDS PlanLedger
CONSTANTS bankSavings, bankChecking, bankLoan, cash, handSavings, handLoan

MCAccount == {bankSavings, bankChecking, bankLoan, cash, handSavings, handLoan}
MCTypeOf ==
  [a \in MCAccount |-> IF a \in {bankSavings, handSavings} THEN "savings"
                       ELSE IF a \in {bankLoan, handLoan} THEN "loan" ELSE "checking"]
MCFromBank == {bankSavings, bankChecking, bankLoan}
World(S, E, goals, bills, debts, incomes, starters) ==
  [accounts |-> S, edited |-> E, goals |-> goals, bills |-> bills, debts |-> debts,
   incomes |-> incomes, starters |-> starters]
MCWorlds ==
  {World({bankSavings, handSavings}, {}, 2, 0, 0, 0, {<<>>}),
   World({bankSavings, cash}, {bankSavings, cash}, 1, 0, 0, 0, {<<>>}),
   World({bankChecking, cash}, {bankChecking, cash}, 0, 0, 0, 1, {<<>>}),
   World({bankLoan, handLoan}, {}, 0, 2, 2, 0, {<<>>}),
   World({bankLoan}, {}, 0, 2, 1, 0, {<<>>, <<1>>}),
   World({}, {}, 0, 2, 0, 0, {<<>>, <<1>>, <<2>>, <<1, 2>>})}
=============================================================================
