------------------------------ MODULE PayCycles ------------------------------
(***************************************************************************)
(* The history of a household's pay cycles                                 *)
(* (apps/api/src/core/pay-cycle-history.ts).                               *)
(*                                                                         *)
(* A verified receipt of recurring income makes its day a payday; two      *)
(* neighbouring paydays bound a closed cycle, the last payday begins the   *)
(* open one.  A command that touches what a report is computed from ends   *)
(* in persistSnapshot(), which records the planning period, brings the     *)
(* paydays in line with the evidence, cuts the cycles and appends a        *)
(* revision to each recent report whose inputs changed.  All of it happens *)
(* in the transaction of the command, under the lock of the household, so  *)
(* a command is one action; what goes into a report is the ledger's        *)
(* business (PlanEvidence) and is reduced here to its outcome: which       *)
(* transactions are posted, which matches are confirmed and reflected in a *)
(* later balance, which movements of savings are booked.  The worker's     *)
(* daily maintenance also changes the occurrences a report hashes, and     *)
(* does not end in persistSnapshot() (Sweep).                              *)
(*                                                                         *)
(* Days are numbers in the household's time zone and amounts are small     *)
(* integers.  A report is the record of everything its fingerprint hashes. *)
(***************************************************************************)
EXTENDS Integers, Sequences, FiniteSets, FiniteSetsExt, SequencesExt, TLC

CONSTANTS
  Worlds,    \* the ledgers that can come about, see World
  Recent,    \* paydays the cycles are cut from: 80 in the code
  Warm,      \* reports a command refreshes: 24 in the code
  Window,    \* age in days of the oldest receipt that counts: three years
  Fresh,     \* age in days of a usable balance: 3 in the code
  MaxVersion \* bound on the versions of a match and of a category

None == "none"
Sources == {"plaid", "manual"}
NonSpend == {"transfer", "savings_investments", "debt"}

ASSUME CycleAssumption ==
  /\ {Recent, Warm, Window, MaxVersion} \subseteq Nat \ {0} /\ Fresh \in Nat
  /\ Warm <= Recent
  /\ \A w \in Worlds : \A t \in DOMAIN w.txs :
       w.txs[t] \in [on : Nat \ {0}, amount : Nat \ {0}, way : {"debit", "credit"},
                     source : Sources, account : DOMAIN w.roles, topic : STRING]

VARIABLES
  world,      \* the ledger of this history
  today,
  plan,       \* the horizon the plan calculates with
  txs,        \* current revisions of the transactions
  matches,    \* occurrence_transaction_matches
  occs,       \* plan_occurrences; version 0 where there is no row yet
  moves,      \* savings_goal_movements
  recorded,   \* transactions and balances in the order they were recorded
  roles,      \* account_planning_role_revisions
  periods,    \* planning_periods with the state of their last revision
  boundaries, \* income_boundaries with their last revision
  evidence,   \* income_boundary_evidence
  cycles,     \* pay_cycles in the order they were inserted
  reports,    \* pay_cycle_report_revisions of each cycle
  swept,      \* occurrences maintained since the last command (history)
  left,       \* commands that may still follow, a bound of the model
  failed      \* the last command broke a constraint of the schema

vars == <<world, today, plan, txs, matches, occs, moves, recorded, roles, periods,
          boundaries, evidence, cycles, reports, swept, left, failed>>

Tables == [world |-> world, today |-> today, plan |-> plan, txs |-> txs,
           matches |-> matches, occs |-> occs, moves |-> moves, recorded |-> recorded,
           roles |-> roles, periods |-> periods, boundaries |-> boundaries,
           evidence |-> evidence, cycles |-> cycles, reports |-> reports]

Put(t) ==
  /\ txs' = t.txs /\ matches' = t.matches /\ occs' = t.occs /\ moves' = t.moves
  /\ recorded' = t.recorded /\ roles' = t.roles /\ plan' = t.plan
  /\ periods' = t.periods /\ boundaries' = t.boundaries /\ evidence' = t.evidence
  /\ cycles' = t.cycles /\ reports' = t.reports
  /\ UNCHANGED <<world, today>>

-----------------------------------------------------------------------------
(* The ledger. *)

Posted(t, x) == t.txs[x].status = "posted"
Tx(t, x) == t.world.txs[x]
Confirmed(t, m) == t.matches[m].state = "confirmed" /\ Posted(t, t.world.matches[m].tx)
Reflected(t, m) == Confirmed(t, m) /\ t.matches[m].reflected # None
Applied(t, m) ==
  Min({Tx(t, t.world.matches[m].tx).amount, t.world.occs[t.world.matches[m].occ].amount})

MatchesOf(t, o) == {m \in DOMAIN t.matches : t.world.matches[m].occ = o}
Paid(t, S) == MapThenSumSet(LAMBDA m : Applied(t, m), S)
Verified(t, o) ==
  LET S == {m \in MatchesOf(t, o) : Reflected(t, m)}
  IN S # {} /\ Paid(t, S) >= t.world.occs[o].amount

\* The first states of a row of plan_occurrences, and the others.
Absent == [state |-> "none", matched |-> 0, version |-> 0]
New == [state |-> "expected", matched |-> 0, version |-> 1]
OccStates == {"expected", "overdue", "pending", "partial", "verified"}

\* Where x was last recorded; 0 if it was not.
Position(t, x) == Max({0} \cup {i \in DOMAIN t.recorded : t.recorded[i] = x})

RoleAt(revisions, d) ==
  LET S == {i \in DOMAIN revisions : revisions[i].on <= d}
  IN IF S = {} THEN None ELSE revisions[Max(S)].role

-----------------------------------------------------------------------------
(* recordPlanningPeriod: a horizon not met before replaces the active one. *)

Horizon(t) == <<t.today, t.plan>>
RecordPeriod(t) ==
  IF Horizon(t) \in DOMAIN t.periods THEN t
  ELSE [t EXCEPT !.periods =
          (Horizon(t) :> "active") @@ [p \in DOMAIN t.periods |-> "replaced"]]

-----------------------------------------------------------------------------
(* refreshIncomeBoundaries: the paydays follow the verified receipts. *)

Receipts(t) ==
  {m \in DOMAIN t.matches :
     /\ t.world.occs[t.world.matches[m].occ].kind = "income"
     /\ Verified(t, t.world.matches[m].occ) /\ Reflected(t, m)
     /\ Tx(t, t.world.matches[m].tx).on >= t.today - Window}

\* Several deposits of one occurrence count on the day of the first.
BoundaryOn(t, m, R) ==
  Min({Tx(t, t.world.matches[n].tx).on :
         n \in {n \in R : t.world.matches[n].occ = t.world.matches[m].occ}})

Level(t, S) ==
  IF \A m \in S : /\ Tx(t, t.world.matches[m].tx).source = "plaid"
                  /\ t.world.balances[t.matches[m].reflected].source = "plaid"
  THEN "provider_verified" ELSE "user_confirmed"

\* One row per version of a match: the day it proved first keeps it.
EvidenceOf(t, Rows) ==
  UNION {{<<d, m, t.matches[m].version>> : m \in Rows[d]} : d \in DOMAIN Rows}

Invalid(b) == [b EXCEPT !.state = "invalidated"]

\* Rows maps each payday to its receipts.  A boundary older than the scan
\* (horizonStart - 1096 days) keeps its revision.
\* Mutant: a payday whose evidence is gone stays verified.
KeepBoundaries(t, Rows) ==
  [t EXCEPT !.boundaries =
     [d \in DOMAIN t.boundaries \cup DOMAIN Rows |->
        IF d \in DOMAIN Rows THEN [state |-> "verified", level |-> Level(t, Rows[d])]
        ELSE t.boundaries[d]]]
WithBoundaries(t, Rows) ==
  [t EXCEPT !.boundaries =
     [d \in DOMAIN t.boundaries \cup DOMAIN Rows |->
        IF d \in DOMAIN Rows THEN [state |-> "verified", level |-> Level(t, Rows[d])]
        ELSE IF d >= t.today - Window - 1 THEN Invalid(t.boundaries[d])
        ELSE t.boundaries[d]],
   !.evidence = @ \cup {e \in EvidenceOf(t, Rows) :
                          \A f \in @ : <<f[2], f[3]>> # <<e[2], e[3]>>}]

ByDay(t, R) ==
  [d \in {BoundaryOn(t, m, R) : m \in R} |-> {m \in R : BoundaryOn(t, m, R) = d}]
RefreshBoundaries(t) == WithBoundaries(t, ByDay(t, Receipts(t)))

-----------------------------------------------------------------------------
(* ensureCanonicalCycles: one cycle per recent payday, up to the next. *)

Paydays(t) == {d \in DOMAIN t.boundaries : t.boundaries[d].state = "verified"}
Days(S) == SetToSortSeq(S, <)
Latest(s, n) == SubSeq(s, Max({1, Len(s) - n + 1}), Len(s))

\* The day after d in S; 0 if there is none.
NextAfter(S, d) == IF \E e \in S : e > d THEN Min({e \in S : e > d}) ELSE 0

IndexOf(t, c) ==
  LET S == {i \in DOMAIN t.cycles : t.cycles[i].start = c.start /\ t.cycles[i].end = c.end}
  IN IF S = {} THEN 0 ELSE Min(S)

\* The youngest cycle with the same start or the same end is superseded.
Rivals(t, c) ==
  {i \in DOMAIN t.cycles :
     \/ t.cycles[i].start = c.start
     \/ t.cycles[i].end = IF c.end # 0 THEN c.end ELSE c.start}
Reason(t, c, S) ==
  IF S = {} THEN "initial"
  ELSE IF t.cycles[Max(S)].start = c.start /\ t.cycles[Max(S)].end = 0 /\ c.end # 0
  THEN "normal_close"
  ELSE "boundary_correction"

Cut(t, c) ==
  IF IndexOf(t, c) # 0 THEN t
  ELSE [t EXCEPT
          !.cycles = Append(@, [start |-> c.start, end |-> c.end,
                                reason |-> Reason(t, c, Rivals(t, c))]),
          !.reports = Append(@, <<>>)]

\* Windows between the chosen paydays.
Between(S, d) == [start |-> d, end |-> NextAfter(S, d)]
CutCycles(t, S) ==
  FoldLeft(LAMBDA u, d : Cut(u, Between(S, d)), t, Days(S))
RecentPaydays(t) == ToSet(Latest(Days(Paydays(t)), Recent))
EnsureCycles(t) == CutCycles(t, RecentPaydays(t))
-----------------------------------------------------------------------------
(* materializeReport: what goes into the report of the days from a to b - 1. *)

Within(d, a, b) == a <= d /\ d < b

\* An open cycle is reported up to today.
EndOf(t, c) == IF c.end # 0 THEN c.end ELSE t.today + 1

RoleOf(t, x) == RoleAt(t.roles[Tx(t, x).account], Tx(t, x).on)
IncomeTxs(t) ==
  {t.world.matches[m].tx : m \in {m \in DOMAIN t.matches :
     /\ Confirmed(t, m) /\ t.world.occs[t.world.matches[m].occ].kind = "income"
     /\ Verified(t, t.world.matches[m].occ)}}

\* A transaction of an account without a role on that day is left out.
Population(t, a, b) ==
  {x \in DOMAIN t.txs :
     /\ Posted(t, x) /\ Within(Tx(t, x).on, a, b)
     /\ \/ RoleOf(t, x) = "spendable"
        \/ RoleOf(t, x) = "protected" /\ Tx(t, x).way = "credit" /\ t.txs[x].category = "income"
        \/ RoleOf(t, x) # None /\ x \in IncomeTxs(t)}

Booked(t, a, b) ==
  {v \in DOMAIN t.moves : t.moves[v] = "active" /\ Within(t.world.moves[v].on, a, b)}
Reversed(t, a, b) ==
  {v \in DOMAIN t.moves : t.moves[v] = "reversed" /\ Within(t.world.moves[v].on, a, b)}
DebtPayments(t, a, b) ==
  {m \in DOMAIN t.matches :
     /\ Reflected(t, m) /\ t.world.occs[t.world.matches[m].occ].kind = "debt"
     /\ Within(Tx(t, t.world.matches[m].tx).on, a, b)}

\* The exact transactions behind savings and debts override their category.
Represented(t, M, D) ==
  {t.world.moves[v].debit : v \in M} \cup {t.world.matches[m].tx : m \in D}

MatchesIn(t, a, b) ==
  {m \in DOMAIN t.matches :
     /\ Confirmed(t, m)
     /\ \/ Within(t.world.occs[t.world.matches[m].occ].on, a, b)
        \/ Within(Tx(t, t.world.matches[m].tx).on, a, b)}
PaidIn(t, o, a, b) ==
  Paid(t, {m \in MatchesOf(t, o) : Confirmed(t, m) /\ Within(Tx(t, t.world.matches[m].tx).on, a, b)})
Bills(t, a, b) ==
  {o \in DOMAIN t.occs : /\ t.occs[o] # Absent /\ t.world.occs[o].kind # "income"
                         /\ Within(t.world.occs[o].on, a, b)}

-----------------------------------------------------------------------------
(* calculatePayCycleReport (packages/domain/src/pay-cycles.ts). *)

Amount(t, S) == MapThenSumSet(LAMBDA x : Tx(t, x).amount, S)
Moved(t, S) == MapThenSumSet(LAMBDA v : t.world.moves[v].amount, S)

\* Mutant: the category alone decides.
SpentOnCategory(t, P, represented) ==
  {x \in P : /\ Tx(t, x).way = "debit" /\ RoleOf(t, x) = "spendable"
             /\ t.txs[x].category \notin NonSpend}
Spent(t, P, represented) ==
  {x \in P : /\ Tx(t, x).way = "debit" /\ RoleOf(t, x) = "spendable"
             /\ t.txs[x].category \notin NonSpend /\ x \notin represented}
Income(t, P) ==
  {x \in P : /\ Tx(t, x).way = "credit" /\ t.txs[x].category = "income"
             /\ RoleOf(t, x) # "excluded" \/ x \in IncomeTxs(t)}

Kept(t, M, kind) == {v \in M : t.world.moves[v].kind = kind}
Figures(t, P, M, D, a, b) ==
  [earned |-> Amount(t, Income(t, P)),
   spendable |-> Amount(t, {x \in Income(t, P) : RoleOf(t, x) = "spendable"}),
   spent |-> Amount(t, Spent(t, P, Represented(t, M, D))),
   saved |-> Moved(t, Kept(t, M, "contribution")),
   withdrawn |-> Moved(t, Kept(t, M, "withdrawal")),
   debt |-> Paid(t, D),
   paid |-> MapThenSumSet(LAMBDA o : Min({t.world.occs[o].amount, PaidIn(t, o, a, b)}), Bills(t, a, b)),
   expected |-> MapThenSumSet(LAMBDA o : t.world.occs[o].amount, Bills(t, a, b))]
NetFlow(f) == f.spendable - f.spent - f.saved + f.withdrawn - f.debt

-----------------------------------------------------------------------------
(* accountCoverage: what the balances around the cycle are worth. *)

Overlapping(revisions, a, b) ==
  {i \in DOMAIN revisions :
     revisions[i].on < b /\ (i = Len(revisions) \/ revisions[i + 1].on >= a)}
Covered(t, a, b) ==
  {k \in DOMAIN t.roles :
     \E i \in Overlapping(t.roles[k], a, b) : t.roles[k][i].role = "spendable"}
RoleChanged(revisions, a, b) ==
  \/ RoleAt(revisions, a - 1) # "spendable" \/ RoleAt(revisions, b - 1) # "spendable"
  \/ \E i \in DOMAIN revisions :
       /\ Within(revisions[i].on, a, b)
       /\ i = 1 \/ revisions[i].role # revisions[i - 1].role

\* The last balance as of a day before d, and of those the last recorded.
BalanceBefore(t, k, d) ==
  LET S == {n \in ToSet(t.recorded) \cap DOMAIN t.world.balances :
              t.world.balances[n].account = k /\ t.world.balances[n].on < d}
  IN IF S = {} THEN None
     ELSE CHOOSE n \in S : \A o \in S \ {n} :
            \/ t.world.balances[o].on < t.world.balances[n].on
            \/ t.world.balances[o].on = t.world.balances[n].on /\ Position(t, o) < Position(t, n)

Unreflected(t, k, closing, a, b) ==
  {x \in DOMAIN t.txs :
     /\ Posted(t, x) /\ Tx(t, x).account = k /\ Within(Tx(t, x).on, a, b)
     /\ Position(t, x) > Position(t, closing)
     /\ ~ \E m \in DOMAIN t.matches :
          t.world.matches[m].tx = x /\ Confirmed(t, m) /\ t.matches[m].reflected = closing}

\* Balances older than latest are stale at the end of the cycle.
CoverageState(t, k, opening, closing, a, b, latest) ==
  IF RoleChanged(t.roles[k], a, b) THEN "role_changed"
  ELSE IF opening = None THEN "missing_opening"
  ELSE IF closing = None THEN "missing_closing"
  ELSE IF \/ opening = closing \/ t.world.balances[opening].on < a - Fresh
          \/ t.world.balances[closing].on < latest
          \/ Unreflected(t, k, closing, a, b) # {}
  THEN "stale" ELSE "complete"

CoverageRow(t, k, opening, closing, a, b, latest) ==
  [opening |-> opening, closing |-> closing,
   roles |-> Overlapping(t.roles[k], a, b),
   state |-> CoverageState(t, k, opening, closing, a, b, latest)]
Coverage(t, c, a, b) ==
  [k \in Covered(t, a, b) |->
     CoverageRow(t, k, BalanceBefore(t, k, a), BalanceBefore(t, k, b), a, b,
                 (IF c.end # 0 THEN b ELSE t.today) - Fresh)]

Structural(cover) ==
  DOMAIN cover # {} /\ \A k \in DOMAIN cover : cover[k].state = "complete"
ProviderOnly(t, P, M, R, cover, levels) ==
  /\ \A k \in DOMAIN cover : \A n \in {cover[k].opening, cover[k].closing} :
       t.world.balances[n].source = "plaid"
  /\ \A x \in P : Tx(t, x).source = "plaid"
  /\ \A v \in M \cup R : t.world.moves[v].method = "provider_verified"
  /\ levels \subseteq {"provider_verified"}
Assurance(t, P, M, R, cover, levels) ==
  IF ~ Structural(cover) THEN "incomplete"
  ELSE IF ProviderOnly(t, P, M, R, cover, levels) THEN "complete"
  ELSE "user_confirmed"

-----------------------------------------------------------------------------
(* One revision of a report, and when it is appended. *)

ProofsOf(t, c) == {e \in t.evidence : e[1] \in {c.start, c.end}}
Levels(t, c) == {t.boundaries[e[1]].level : e \in ProofsOf(t, c)}

Report(t, c, P, M, R, D, cover, a, b) ==
  [from |-> a, to |-> b,
   txs |-> {<<x, t.txs[x].revision, t.txs[x].version, RoleOf(t, x)>> : x \in P},
   occs |-> {<<o, t.occs[o]>> : o \in {o \in DOMAIN t.occs :
                                     t.occs[o] # Absent /\ Within(t.world.occs[o].on, a, b)}},
   matches |-> {<<m, t.matches[m].version>> : m \in MatchesIn(t, a, b)},
   proofs |-> ProofsOf(t, c), moves |-> M, reversals |-> R,
   debts |-> {<<m, t.matches[m].version>> : m \in D},
   cover |-> cover, figures |-> Figures(t, P, M, D, a, b),
   assurance |-> Assurance(t, P, M, R, cover, Levels(t, c))]
ReportOf(t, c, a, b) ==
  Report(t, c, Population(t, a, b), Booked(t, a, b), Reversed(t, a, b),
         DebtPayments(t, a, b), Coverage(t, c, a, b), a, b)
Current(t, i) == ReportOf(t, t.cycles[i], t.cycles[i].start, EndOf(t, t.cycles[i]))

\* A row per cycle and fingerprint: a report that comes back breaks the key.
Clash(t, i, r) == r # Last(t.reports[i]) /\ Contains(t.reports[i], r)
\* Mutant: a report is revised for its figures only.
RevisedFigures(s, r) ==
  IF s # <<>> /\ Last(s).figures = r.figures THEN s ELSE Append(s, r)
Revised(s, r) == IF s # <<>> /\ Last(s) = r THEN s ELSE Append(s, r)

Canonical(t) ==
  {i \in DOMAIN t.cycles :
     t.cycles[i].start \in Paydays(t) /\ t.cycles[i].end = NextAfter(Paydays(t), t.cycles[i].start)}

\* The cycles of the youngest paydays that a command refreshes.
WarmCycles(t, S) == {i \in Canonical(t) : t.cycles[i].start \in S}
WarmPaydays(t) == ToSet(Latest(Days(Paydays(t)), Warm))

\* News holds the reports as they are now of the cycles to refresh.
Materialize(t, News) ==
  [t EXCEPT !.reports =
     [i \in DOMAIN t.reports |->
        IF i \in DOMAIN News THEN Revised(t.reports[i], News[i]) ELSE t.reports[i]]]
Broken(t, News) == \E i \in DOMAIN News : t.reports[i] # <<>> /\ Clash(t, i, News[i])

NewsOf(t, I) == [i \in I |-> Current(t, i)]

\* The end of the transaction: it is rolled back when a key is broken.
Finish(t, News, stale) ==
  /\ left > 0 /\ left' = left - 1
  /\ \/ Broken(t, News) /\ failed' = TRUE /\ Put(Tables) /\ UNCHANGED swept
     \/ ~ Broken(t, News) /\ failed' = FALSE /\ Put(Materialize(t, News)) /\ swept' = stale
FinishWarm(t) == Finish(t, NewsOf(t, WarmCycles(t, WarmPaydays(t))), {})

\* persistSnapshot() of a command that left the ledger as in t.
Persist(t) == FinishWarm(EnsureCycles(RefreshBoundaries(RecordPeriod(t))))
-----------------------------------------------------------------------------
(* The rest of reconcilePlanEvidence() that reports depend on: evidence of *)
(* a transaction that is gone is taken back, a match whose account has a   *)
(* later balance is reflected, and an occurrence that changes is versioned.*)

Gone(t, x) == x # None /\ ~ Posted(t, x)
TakeBack(t) ==
  [t EXCEPT
     !.matches = [m \in DOMAIN @ |->
        IF @[m].state = "confirmed" /\ Gone(t, t.world.matches[m].tx)
        THEN [@[m] EXCEPT !.state = "reversed", !.version = @ + 1] ELSE @[m]],
     !.moves = [v \in DOMAIN @ |->
        IF @[v] = "active" /\ Gone(t, t.world.moves[v].debit) THEN "reversed" ELSE @[v]]]

Later(t, x) ==
  {n \in ToSet(t.recorded) \cap DOMAIN t.world.balances :
     /\ t.world.balances[n].account = Tx(t, x).account
     /\ t.world.balances[n].source = Tx(t, x).source
     /\ Position(t, n) > Position(t, x)}
LastOf(t, S) == CHOOSE n \in S : \A o \in S : Position(t, o) <= Position(t, n)
Reflect(t) ==
  [t EXCEPT !.matches = [m \in DOMAIN @ |->
     IF /\ @[m].state = "confirmed" /\ @[m].reflected = None
        /\ Later(t, t.world.matches[m].tx) # {}
     THEN [@[m] EXCEPT !.version = @ + 1,
                       !.reflected = LastOf(t, Later(t, t.world.matches[m].tx))]
     ELSE @[m]]]

ReflectedOf(t, o) == {m \in MatchesOf(t, o) : Reflected(t, m)}
StateOf(t, o) ==
  IF Verified(t, o) THEN "verified"
  ELSE IF \E m \in MatchesOf(t, o) : Confirmed(t, m) /\ ~ Reflected(t, m) THEN "pending"
  ELSE IF ReflectedOf(t, o) # {} THEN "partial"
  ELSE IF t.world.occs[o].on < t.today THEN "overdue" ELSE "expected"
Standing(t, o, version) ==
  [state |-> StateOf(t, o), matched |-> Paid(t, ReflectedOf(t, o)), version |-> version]
VersionOccs(t) ==
  [t EXCEPT !.occs = [o \in DOMAIN @ |->
     IF @[o] = Absent \/ @[o] = Standing(t, o, @[o].version) THEN @[o]
     ELSE Standing(t, o, @[o].version + 1)]]
Reconcile(t) == VersionOccs(Reflect(TakeBack(t)))

-----------------------------------------------------------------------------
(* The commands. *)

Can(op) == op \in world.ops

\* addManualTransaction(), or a synchronisation that delivers it.
Record(x) ==
  /\ Can("record") /\ txs[x].status = "none" /\ world.txs[x].on <= today
  /\ Persist(Reconcile([Tables EXCEPT !.txs[x].status = "posted", !.recorded = Append(@, x)]))

\* voidManualTransaction(), or the provider removes it.
Void(x) ==
  /\ Can("remove") /\ txs[x].status = "posted"
  /\ Persist(Reconcile([Tables EXCEPT !.txs[x].status = "removed", !.txs[x].revision = @ + 1]))

\* updateTransactionCategory()
Categorize(x, category) ==
  /\ Can("categorize") /\ txs[x].status = "posted" /\ txs[x].version < MaxVersion
  /\ Persist([Tables EXCEPT !.txs[x].category = category, !.txs[x].version = @ + 1])

Busy(x) == \E m \in DOMAIN matches : world.matches[m].tx = x /\ matches[m].state = "confirmed"
\* linkTransactionToOccurrence(), or a match of the reconciliation.
Link(m) ==
  /\ Can("link") /\ txs[world.matches[m].tx].status = "posted" /\ ~ Busy(world.matches[m].tx)
  /\ matches[m].version < MaxVersion
  /\ Persist(Reconcile([Tables EXCEPT
       !.matches[m] = [state |-> "confirmed", reflected |-> None, version |-> @.version + 1]]))

\* unlinkTransactionFromOccurrence()
Unlink(m) ==
  /\ Can("unlink") /\ matches[m].state = "confirmed"
  /\ Persist(Reconcile([Tables EXCEPT !.matches[m].state = "reversed", !.matches[m].version = @ + 1]))

\* A contribution or withdrawal is booked, and taken back.
Book(v) ==
  /\ Can("book") /\ moves[v] = "none" /\ world.moves[v].on <= today
  /\ ~ Gone(Tables, world.moves[v].debit)
  /\ Persist(Reconcile([Tables EXCEPT !.moves[v] = "active"]))
Unbook(v) ==
  /\ Can("unbook") /\ moves[v] = "active"
  /\ Persist(Reconcile([Tables EXCEPT !.moves[v] = "reversed"]))

\* saveManualBalance(), or a synchronised balance.
Observe(n) ==
  /\ Can("observe") /\ n \notin ToSet(recorded) /\ world.balances[n].on <= today
  /\ Persist(Reconcile([Tables EXCEPT !.recorded = Append(@, n)]))

\* setAccountPlanningRole(); the trigger of migration 032 keeps the history.
ChangeRole(k, role) ==
  /\ Can("role") /\ Last(roles[k]).role # role /\ Len(roles[k]) < MaxVersion
  /\ Persist(Reconcile([Tables EXCEPT !.roles[k] = Append(@, [on |-> today, role |-> role])]))

\* updatePlan() with another horizon.
SetPlan(p) == Can("plan") /\ p # plan /\ Persist([Tables EXCEPT !.plan = p])

\* A command that changes nothing a report is computed from.
Touch == Can("touch") /\ Persist(Tables)

\* getPayCycle(): the detail of one cycle is refreshed before it is read.
Open(i) ==
  /\ Can("open") /\ i \in Canonical(Tables)
  /\ Finish(Tables, NewsOf(Tables, {i}), swept)

-----------------------------------------------------------------------------
(* The daily maintenance of the worker (maintain_plan_occurrences and       *)
(* maintain_savings_goal_occurrences of migration 033): what is due becomes *)
(* overdue, what a rule has come to reach is inserted.  No snapshot is      *)
(* persisted.                                                               *)

FallenDue == {o \in DOMAIN occs : occs[o].state = "expected" /\ world.occs[o].on < today}
Reached == {o \in DOMAIN occs : occs[o] = Absent /\ world.occs[o].on <= today + world.ahead}
Maintained(o) ==
  IF o \in FallenDue THEN [occs[o] EXCEPT !.state = "overdue", !.version = @ + 1]
  ELSE IF o \in Reached THEN New ELSE occs[o]
Sweep ==
  /\ Can("sweep") /\ FallenDue \cup Reached # {}
  /\ occs' = [o \in DOMAIN occs |-> Maintained(o)]
  /\ swept' = swept \cup FallenDue \cup Reached /\ failed' = FALSE
  /\ UNCHANGED <<world, today, plan, txs, matches, moves, recorded, roles, periods,
                 boundaries, evidence, cycles, reports, left>>

NextDay ==
  /\ today < world.days /\ today' = today + 1 /\ failed' = FALSE
  /\ UNCHANGED <<world, plan, txs, matches, occs, moves, recorded, roles, periods,
                 boundaries, evidence, cycles, reports, swept, left>>

Ledger(w) ==
  /\ txs = [x \in DOMAIN w.txs |->
       [status |-> IF Contains(w.recorded, x) THEN "posted" ELSE "none", category |-> w.txs[x].topic, version |-> 1, revision |-> 1]]
  /\ matches = [m \in DOMAIN w.matches |-> [state |-> "none", reflected |-> None, version |-> 0]]
  /\ occs = [o \in DOMAIN w.occs |-> IF o \in w.late THEN Absent ELSE New]
  /\ moves = [v \in DOMAIN w.moves |-> "none"]
  /\ recorded = w.recorded /\ roles = w.roles /\ plan = Min(w.plans)
Init ==
  /\ world \in Worlds /\ today = world.first /\ Ledger(world)
  /\ periods = (<<today, plan>> :> "active") /\ boundaries = <<>> /\ evidence = {} /\ cycles = <<>> /\ reports = <<>>
  /\ swept = {} /\ failed = FALSE /\ left = world.commands

Next ==
  \/ \E x \in DOMAIN txs : Record(x) \/ Void(x)
  \/ \E x \in DOMAIN txs, c \in world.categories : Categorize(x, c)
  \/ \E m \in DOMAIN matches : Link(m) \/ Unlink(m)
  \/ \E v \in DOMAIN moves : Book(v) \/ Unbook(v)
  \/ \E n \in DOMAIN world.balances : Observe(n)
  \/ \E k \in DOMAIN roles, r \in world.newRoles : ChangeRole(k, r)
  \/ \E p \in world.plans : SetPlan(p)
  \/ \E i \in DOMAIN cycles : Open(i)
  \/ Touch \/ Sweep
  \/ NextDay
Spec == Init /\ [][Next]_vars
-----------------------------------------------------------------------------
(* What the history promises. *)

Categories == NonSpend \cup {"income", "groceries"}

\* The tables hold what their columns allow.
TypeOK ==
  /\ world \in Worlds /\ today \in Nat /\ plan \in world.plans /\ failed \in BOOLEAN /\ left \in Nat
  /\ \A x \in DOMAIN txs :
       txs[x] \in [status : {"none", "posted", "removed"}, category : Categories,
                  version : 1 .. MaxVersion, revision : Nat]
  /\ \A m \in DOMAIN matches :
       matches[m] \in [state : {"none", "confirmed", "reversed"}, version : Nat,
                      reflected : {None} \cup DOMAIN world.balances]
  /\ \A o \in DOMAIN occs :
       occs[o] = Absent \/ occs[o] \in [state : OccStates, matched : Nat, version : Nat \ {0}]
  /\ swept \subseteq DOMAIN occs
  /\ \A v \in DOMAIN moves : moves[v] \in {"none", "active", "reversed"}
  /\ \A p \in DOMAIN periods : periods[p] \in {"active", "replaced"}
  /\ \A d \in DOMAIN boundaries :
       boundaries[d] \in [state : {"verified", "invalidated"},
                         level : {"provider_verified", "user_confirmed"}]
  /\ Len(reports) = Len(cycles)
  /\ \A i \in DOMAIN cycles :
       cycles[i] \in [start : Nat, end : Nat,
                     reason : {"initial", "normal_close", "boundary_correction"}]

\* The recent paydays, and only they, begin a cycle each that ends at the next
\* payday; the last one is open.  No correction, late payday or restored
\* receipt leaves a gap, an overlap or two cycles with one start
\* (ensureCanonicalCycles, and the list that canonicalCycleRows reads).
CyclesAreContiguous ==
  \A d \in RecentPaydays(Tables) :
    Cardinality({i \in Canonical(Tables) : cycles[i].start = d}) = 1

\* A payday inside the window is backed by income that is posted, matched and
\* reflected in a balance, and such income is never without its payday
\* (refreshIncomeBoundaries).
FirstDeposits(o) ==
  {world.txs[world.matches[m].tx].on : m \in {m \in MatchesOf(Tables, o) : Reflected(Tables, m)}}
Earners == {o \in DOMAIN occs : world.occs[o].kind = "income" /\ Verified(Tables, o)}
PaydaysHaveEvidence ==
  /\ \A d \in Paydays(Tables) :
       d >= today - Window => \E o \in Earners : d \in FirstDeposits(o)
  /\ \A o \in Earners :
       Min(FirstDeposits(o)) >= today - Window => Min(FirstDeposits(o)) \in Paydays(Tables)

\* The reports of the warm cycles are those of the ledger as the last command
\* left it: whatever was corrected last, in whatever order, no stale figure,
\* balance or assurance is shown but for the occurrences the daily maintenance
\* has changed since, which a report has as they were.  The open cycle is as of
\* the day of the last command.
Reported(r, o) ==
  IF \E e \in r.occs : e[1] = o THEN (CHOOSE e \in r.occs : e[1] = o)[2] ELSE Absent
Unswept(r) ==
  [Tables EXCEPT !.occs = [o \in DOMAIN @ |-> IF o \in swept THEN Reported(r, o) ELSE @[o]]]
SameDay(i) == Last(reports[i]).to = EndOf(Tables, cycles[i])
ReportsAreCurrent ==
  \A i \in WarmCycles(Tables, WarmPaydays(Tables)) :
    reports[i] # <<>>
      /\ (SameDay(i) => Last(reports[i]) = Current(Unswept(Last(reports[i])), i))

\* All of these, with the types: the cycles and their reports are those of the
\* paydays and the ledger as the last command left them.
CyclesFollowLedger ==
  TypeOK /\ CyclesAreContiguous /\ PaydaysHaveEvidence /\ ReportsAreCurrent

\* An older report is brought up to date when its detail is opened.
OpenedIsCurrent ==
  [][\A i \in DOMAIN cycles :
       Open(i) /\ ~ failed' => Last(reports'[i]) = Current(Tables', i)]_vars

\* A report whose balances are complete explains every cent of their change,
\* when its ledger holds only income, spending, debts paid in full and
\* contributions with their debit: no outflow is counted twice or left out, be
\* its category right or wrong.  The balances must be of days that do not cut
\* activity off.
ActiveOf(r) == {e[1] : e \in r.txs}
Backed(r) == Represented(Tables, r.moves, {e[1] : e \in r.debts})
Plain(r) ==
  /\ \A x \in ActiveOf(r) :
       \/ world.txs[x].way = "credit" /\ <<txs[x].category, txs[x].version>> = <<"income", 1>>
       \/ world.txs[x].way = "debit" /\ (txs[x].category \notin NonSpend \/ x \in Backed(r))
  /\ \A v \in r.moves :
       /\ world.moves[v].kind = "contribution" /\ world.moves[v].debit \in ActiveOf(r)
       /\ world.moves[v].amount = world.txs[world.moves[v].debit].amount
  /\ \A e \in r.debts : Applied(Tables, e[1]) = world.txs[world.matches[e[1]].tx].amount
Whole(r) ==
  \A k \in DOMAIN r.cover : \A x \in DOMAIN txs :
    world.txs[x].account = k
      /\ Within(world.txs[x].on, world.balances[r.cover[k].opening].on + 1, r.to)
    => x \in ActiveOf(r) /\ world.txs[x].on <= world.balances[r.cover[k].closing].on
Change(r) ==
  MapThenSumSet(LAMBDA k : world.balances[r.cover[k].closing].amount
                             - world.balances[r.cover[k].opening].amount, DOMAIN r.cover)
CashIsExplained ==
  \A i \in WarmCycles(Tables, WarmPaydays(Tables)) :
    LET r == Last(reports[i])
    IN r = Current(Tables, i) /\ Structural(r.cover) /\ Plain(r) /\ Whole(r)
         => Change(r) = NetFlow(r.figures)

-----------------------------------------------------------------------------
(* What the documents say and the code does not do. *)

\* "Normal payday closure is distinct from a late/invalidated-boundary
\* correction" (docs/PRODUCT_ARCHITECTURE.md:85): a payday that follows all
\* others corrects nothing.
PaydayIsNoCorrection ==
  [][Paydays(Tables) \subseteq Paydays(Tables')
       /\ (\A d \in Paydays(Tables') \ Paydays(Tables), e \in Paydays(Tables) : e < d)
       /\ DOMAIN boundaries = Paydays(Tables)
     => \A i \in DOMAIN cycles' \ DOMAIN cycles : cycles'[i].reason # "boundary_correction"]_vars

\* The report shown is that of the ledger as it stands: the maintenance, which
\* marks what is overdue and inserts what is due next, is in it before the next
\* command (listPayCycles only reads).
ReportsFollowMaintenance ==
  \A i \in WarmCycles(Tables, WarmPaydays(Tables)) :
    SameDay(i) => Last(reports[i]) = Current(Tables, i)

\* A command is never refused for the report it would lead to.
CorrectionsGoThrough == ~ failed

\* The period in force is the one the plan calculates with.
PeriodIsThePlans == failed \/ today # world.first \/ periods[Horizon(Tables)] = "active"

\* "pre-transaction ... balance coverage lowers assurance"
\* (docs/PRODUCT_ARCHITECTURE.md:85).
ClosingSeesAll ==
  \A i \in WarmCycles(Tables, WarmPaydays(Tables)) :
    LET r == Last(reports[i])
    IN Structural(r.cover) => \A k \in DOMAIN r.cover, x \in ActiveOf(r) :
         world.txs[x].account = k => world.txs[x].on <= world.balances[r.cover[k].closing].on
=============================================================================
