----------------------------- MODULE PlanLedger -----------------------------
(***************************************************************************)
(* What a household enters into its plan (apps/api/src/core/               *)
(* core.service.ts) and what happens to it when a bank comes and goes      *)
(* (apps/api/src/plaid/plaid.service.ts).                                  *)
(*                                                                         *)
(* A savings goal takes a savings account out of spendable cash and gives  *)
(* it back; the plan reserves the contributions of the active goals; a     *)
(* debt has a payment that is a bill of its own or one made for it; an     *)
(* income names the account it arrives in.  Every command is one           *)
(* transaction under the planning lock, so it is one action, except        *)
(* setAccountInclusion, which takes no lock and is two.                    *)
(*                                                                         *)
(* A command carries the version of the row it was made for and is refused *)
(* when the row has moved on.  A refused command changes nothing, so the   *)
(* actions are the accepted ones and versions are not in the state, except *)
(* where a version is compared later: "touched" says that a bill is not as *)
(* it was inserted, and a pending inclusion is forgotten when its account  *)
(* changes.  include_in_plan equals planning_role = "spendable", which     *)
(* the trigger of 029:36-48 keeps, so only the role is here.  Occurrences  *)
(* of what is entered here are in PlanEvidence.                            *)
(***************************************************************************)
EXTENDS Naturals, Sequences, FiniteSets, FiniteSetsExt, SequencesExt

CONSTANTS
  Account,     \* every account the household can have
  TypeOf,      \* [Account -> account_type]
  FromBank,    \* the accounts of the one connection; the others are manual
  Provisioned, \* manual accounts there from the start
  Unused,      \* manual accounts without a balance or a transaction
  None, New,
  Slotted,     \* starters that have a setup slot
  Worlds,      \* accounts and numbers of rows of one history
  MaxAmount    \* contributions are 0 .. MaxAmount

Cash == {"cash", "checking", "savings"}
Liability == {"credit", "loan"}
Roles == {"spendable", "protected", "excluded"}
Amounts == 0 .. MaxAmount

\* A starter is added once by a request (packages/contracts/src/index.ts:744).
ASSUME LedgerAssumption ==
  /\ IsFiniteSet(Account)
  /\ TypeOf \in [Account -> Cash \cup Liability]
  /\ FromBank \subseteq Account /\ Provisioned \subseteq Account \ FromBank
  /\ Unused \subseteq Account \ FromBank
  /\ {None, New} \cap (Account \cup Roles \cup Nat) = {} /\ None # New
  /\ MaxAmount \in Nat
  /\ \A w \in Worlds : w \in [accounts : SUBSET Account, edited : SUBSET Account, goals : Nat, bills : Nat,
                              debts : Nat, incomes : Nat, starters : SUBSET Seq(Nat)]
                      /\ \A keys \in w.starters : IsInjective(keys)

VARIABLES
  world,       \* accounts and bounds of this history
  connection,  \* status of the bank connection
  account,     \* accounts: absent, open or archived, and planning_role
  goal,        \* savings_goals
  planned,     \* plans.planned_savings_minor
  income,      \* income_schedules
  bill,        \* commitments
  debt,        \* debts
  application, \* starter_template_applications
  asked,       \* inclusions that have passed their check
  own,         \* history: the role an account has but for the goals
  overtaken    \* history: accounts a goal took during their inclusion

vars == <<world, connection, account, goal, planned, income, bill, debt, application, asked, own, overtaken>>

Tables == [ok |-> TRUE, connection |-> connection, account |-> account, goal |-> goal,
           planned |-> planned, income |-> income, bill |-> bill, debt |-> debt,
           application |-> application, asked |-> asked, own |-> own, overtaken |-> overtaken]

Commit(t) ==
  /\ t.ok
  /\ Len(t.goal) <= world.goals /\ Len(t.bill) <= world.bills
  /\ Len(t.debt) <= world.debts /\ Len(t.income) <= world.incomes
  /\ connection' = t.connection /\ account' = t.account /\ goal' = t.goal
  /\ planned' = t.planned /\ income' = t.income /\ bill' = t.bill /\ debt' = t.debt
  /\ application' = t.application /\ asked' = t.asked
  /\ own' = t.own /\ overtaken' = t.overtaken
  /\ UNCHANGED world

Demand(t, condition) == [t EXCEPT !.ok = @ /\ condition]

(***************************************************************************)
(* Accounts                                                                *)
(***************************************************************************)
Open(t, S) == {a \in S : t.account[a].state = "open"}
Spendable(t, S) == {a \in Open(t, S) : t.account[a].role = "spendable" /\ TypeOf[a] \in Cash}
Manual == Account \ FromBank
ClaimedBy(t, a) == {g \in DOMAIN t.goal : t.goal[g].dest = a /\ t.goal[g].status # "archived"}
Claimed(t, a) == ClaimedBy(t, a) # {}

\* An account row changes: its version does, so no pending inclusion of it
\* can succeed any more.
Written(t, S) == [t EXCEPT !.asked = {r \in @ : r.account \notin S}]

Assigned(t, S, role) ==
  [Written(t, S) EXCEPT !.account = [a \in DOMAIN @ |-> IF a \in S THEN [@[a] EXCEPT !.role = role] ELSE @[a]]]

\* The user or the bank sets the role; a goal on the account has the say
\* until it lets go of it.
Chosen(t, S, role) ==
  [Assigned(t, S, role) EXCEPT
     !.own = [a \in DOMAIN @ |-> IF a \in S /\ ~Claimed(t, a) THEN role ELSE @[a]]]

\* include_in_plan := false, and what the trigger of 029 makes of it.
Uncounted(t, S) == Chosen(Written(t, S), {a \in S : t.account[a].role = "spendable"}, "excluded")

Opened(t, a, role) == [t EXCEPT !.account[a] = [state |-> "open", role |-> role]]
Archived(t, S) ==
  [Uncounted(t, S) EXCEPT !.account =
     [a \in DOMAIN @ |-> IF a \in S THEN [@[a] EXCEPT !.state = "archived"] ELSE @[a]]]

SetAccountPlanningRole(a, role) ==
  /\ role # "protected" => ~Claimed(Tables, a)
  /\ a \in Open(Tables, world.accounts) /\ TypeOf[a] \in Cash
  /\ Commit(Chosen(Tables, {a}, role))

\* setAccountInclusion reads the goals and then, without a lock, updates the
\* row of the version the request names.
CheckInclusion(a, include) ==
  /\ asked = {} /\ ~Claimed(Tables, a)
  /\ a \in Open(Tables, world.accounts) /\ TypeOf[a] \in Cash
  /\ Commit([Tables EXCEPT !.asked = {[account |-> a, include |-> include]}])

OthersStepBack(t, a, include) ==
  IF ~include THEN t
  ELSE IF a \in FromBank THEN Uncounted(t, Spendable(t, Unused))
  ELSE Demand(Uncounted(t, Spendable(t, Manual \ {a})), Spendable(t, FromBank) = {})

ApplyInclusion ==
  \E r \in asked :
     Commit(OthersStepBack(
       Chosen([Tables EXCEPT !.overtaken = @ \cup {a \in {r.account} : Claimed(Tables, a)}],
              {r.account}, IF r.include THEN "spendable" ELSE "excluded"), r.account, r.include))

RefuseInclusion ==
  \E r \in asked : r.include /\ r.account \in Manual /\ Spendable(Tables, FromBank) # {}
     /\ Commit([Tables EXCEPT !.asked = {}])

\* activateManualMode prefers the account that is already counted.
ManualAccounts ==
  {a \in Open(Tables, Manual) : TypeOf[a] \in Cash /\ account[a].role # "protected"}
ActivateManualMode ==
  \E a \in ManualAccounts :
     /\ account[a].role # "spendable" => Spendable(Tables, ManualAccounts) = {}
     /\ Commit(Uncounted(
          IF account[a].role = "spendable" THEN Tables ELSE Chosen(Tables, {a}, "spendable"),
          Spendable(Tables, Account \ {a})))

(***************************************************************************)
(* Savings goals and the plan's reserve                                    *)
(***************************************************************************)
ActiveGoals(t) == {g \in DOMAIN t.goal : t.goal[g].status = "active"}
Contribution(row) == IF row.status = "active" THEN row.amount ELSE 0
Contributions(t) ==
  LET ofFirst[n \in 0 .. Len(t.goal)] == IF n = 0 THEN 0 ELSE ofFirst[n - 1] + Contribution(t.goal[n])
  IN  ofFirst[Len(t.goal)]
RefreshSavingsPlanAggregate(t) == [t EXCEPT !.planned = Contributions(t)]

Destination(t, a, others) ==
  a = None \/ (a \in Open(t, Account) /\ TypeOf[a] = "savings" /\ ClaimedBy(t, a) \subseteq others)

ProtectSavingsDestination(t, a) ==
  IF a = None \/ t.account[a].role = "protected" THEN t ELSE Assigned(t, {a}, "protected")

\* Mutant: the account stays out of spendable cash for good.
RestoredAsProtected(t, a, prior) == t

RestoreSavingsDestination(t, a, prior) ==
  IF a = None \/ t.account[a].role # "protected" THEN t
  ELSE Assigned(t, {a}, IF prior = None THEN "excluded" ELSE prior)

RoleOf(t, a) == IF a = None THEN None ELSE t.account[a].role

AddSavingsGoal(dest, amount, general) ==
  /\ amount > 0 => dest # None
  /\ Destination(Tables, dest, {})
  /\ LET row == [dest |-> dest, status |-> "active", amount |-> amount,
                 prior |-> RoleOf(Tables, dest), general |-> general]
     IN  Commit(RefreshSavingsPlanAggregate(ProtectSavingsDestination(
           [Tables EXCEPT !.goal = Append(@, row)], dest)))

\* trackManually: the account is made for the goal.
AddTrackedGoal(amount) ==
  \E a \in world.accounts \cap Manual :
     /\ account[a].state = "absent" /\ TypeOf[a] = "savings"
     /\ LET row == [dest |-> a, status |-> "active", amount |-> amount,
                    prior |-> "excluded", general |-> FALSE]
        IN  Commit(RefreshSavingsPlanAggregate(
              [Opened(Tables, a, "protected") EXCEPT !.goal = Append(@, row)]))

UpdateSavingsGoal(g, request) ==
  LET current == goal[g]
      changed == current.dest # request.dest
      row == [request EXCEPT
                !.prior = IF changed THEN RoleOf(Tables, request.dest) ELSE current.prior]
      saved == [Tables EXCEPT !.goal[g] = row]
      restored == IF changed \/ request.status = "archived"
                  THEN RestoreSavingsDestination(saved, current.dest, current.prior) ELSE saved
  IN  /\ current.status # "archived"
      /\ request.amount > 0 => request.dest # None
      /\ Destination(Tables, request.dest, {g})
      /\ Commit(RefreshSavingsPlanAggregate(
           IF request.status = "archived" THEN restored
           ELSE ProtectSavingsDestination(restored, request.dest)))

\* The plan's form has one number for savings: it is the contribution of a
\* goal of its own as long as that is the only one.
General(t) ==
  {g \in ActiveGoals(t) : t.goal[g].general /\ t.goal[g].dest = None}
SyncLegacySavingsInput(t, amount) ==
  LET general == IF General(t) = {} THEN {} ELSE {Min(General(t))}
      legacy == [dest |-> None, status |-> "active", amount |-> amount, prior |-> None, general |-> TRUE]
  IN  IF Contributions(t) = amount THEN t
      ELSE IF ActiveGoals(t) # general THEN Demand(t, FALSE)
      ELSE IF general # {}
      THEN [t EXCEPT !.goal = [g \in DOMAIN @ |-> IF g \in general THEN [@[g] EXCEPT !.amount = amount] ELSE @[g]]]
      ELSE IF amount = 0 THEN t
      ELSE [t EXCEPT !.goal = Append(@, legacy)]

UpdatePlan(amount) == Commit([SyncLegacySavingsInput(Tables, amount) EXCEPT !.planned = amount])

(***************************************************************************)
(* Incomes                                                                 *)
(***************************************************************************)
Deposit(a) == a = None \/ (a \in Open(Tables, Account) /\ TypeOf[a] \in Cash)

AddIncomeSchedule(dest, confirmed) ==
  /\ Deposit(dest)
  /\ Commit([Tables EXCEPT !.income = Append(@, [dest |-> dest, status |-> "active", confirmed |-> confirmed])])

UpdateIncomeSchedule(s, dest, status, confirmed) ==
  /\ Deposit(dest) /\ income[s].status # "archived"
  /\ Commit([Tables EXCEPT !.income[s] =
       [dest |-> dest, status |-> status, confirmed |-> confirmed /\ status = "active"]])

(***************************************************************************)
(* Bills                                                                   *)
(***************************************************************************)
Bill(empty, monthly, made, starter) ==
  [empty |-> empty, monthly |-> monthly, active |-> TRUE, settled |-> FALSE,
   touched |-> FALSE, made |-> made, starter |-> starter, renamed |-> FALSE]

AddCommitment(monthly) == Commit([Tables EXCEPT !.bill = Append(@, Bill(FALSE, monthly, FALSE, None))])

ActiveBills(t) == {b \in DOMAIN t.bill : t.bill[b].active}

\* The version of a row is compared, and its name read, for starters only.
Touched(row, renamed) ==
  [row EXCEPT !.touched = row.starter # None, !.renamed = @ \/ (renamed /\ row.starter # None)]

\* The items of a calibration that change existing rows.
Edited(t, edits) ==
  [t EXCEPT !.bill = [b \in DOMAIN @ |->
     IF b \in DOMAIN edits
     THEN [Touched(@[b], edits[b].renamed) EXCEPT
             !.empty = edits[b].empty, !.monthly = edits[b].monthly, !.settled = FALSE]
     ELSE @[b]]]

\* Nothing reads the rest of a row that is not active.
Removed(t, S) ==
  [t EXCEPT !.bill = [b \in DOMAIN @ |->
     IF b \in S THEN [Bill(TRUE, FALSE, FALSE, None) EXCEPT !.active = FALSE] ELSE @[b]]]

\* Mutant: a paid bill does not stand in the way of a new one.
StandsUnpaid(row, k) == row.active /\ row.starter = k /\ ~row.settled

\* A row that keeps a starter from being added: the row of an earlier one,
\* unless it is paid, and any row with its name or its slot.
Stands(row, k) == row.active /\ row.starter = k /\ (~row.settled \/ ~row.renamed \/ k \in Slotted)

\* Common bill starters: empty rows, in the same order as their items.
Started(t, keys) ==
  IF keys = <<>> THEN t
  ELSE [Demand(t, \A i \in DOMAIN keys, b \in DOMAIN t.bill : ~Stands(t.bill[b], keys[i])) EXCEPT
          !.bill = @ \o [i \in DOMAIN keys |-> Bill(TRUE, TRUE, FALSE, keys[i])],
          !.application = Append(@, [items |-> Len(t.bill) + 1 .. Len(t.bill) + Len(keys), undone |-> FALSE])]

CalibratePlan(amount, edits, removals, keys) ==
  LET saved == [SyncLegacySavingsInput(Tables, amount) EXCEPT !.planned = amount]
  IN  /\ DOMAIN edits \cap removals = {}
      /\ DOMAIN edits \cup removals \subseteq ActiveBills(Tables)
      /\ Commit(Removed(Started(Edited(saved, edits), keys), removals))

UndoStarterApplication(n) ==
  /\ ~application[n].undone
  /\ \A b \in application[n].items : bill[b].active /\ ~bill[b].settled /\ ~bill[b].touched /\ bill[b].empty
  /\ Commit([Removed(Tables, application[n].items) EXCEPT !.application[n].undone = TRUE])

\* A one-time bill is paid, or its payment is taken back (PlanEvidence).
EvidenceSettles(b) ==
  /\ bill[b].active /\ (bill[b].settled \/ (~bill[b].monthly /\ ~bill[b].empty))
  /\ Commit([Tables EXCEPT !.bill[b] = [Touched(@, FALSE) EXCEPT !.settled = ~bill[b].settled]])

(***************************************************************************)
(* Debts and their payments                                                *)
(***************************************************************************)
Untracked == {"closed", "archived"}
On(t, a) == {d \in DOMAIN t.debt : t.debt[d].account = a /\ t.debt[d].status # "archived"}
PaymentsOf(t) == {t.debt[d].link : d \in {c \in DOMAIN t.debt : t.debt[c].status # "archived"}}

DeactivateManagedDebtCommitment(t, d) == IF d.managed THEN Removed(t, {d.link}) ELSE t

\* The payment the debt d, or the one to be, is left with: none, a bill made
\* for it, the one it has, or another bill.
Linked(t, link, managed) == [tables |-> t, link |-> link, managed |-> managed]

ResolveDebtCommitment(t, d, status, choice) ==
  IF status \in Untracked \/ choice = None
  THEN Linked(DeactivateManagedDebtCommitment(t, d), None, FALSE)
  ELSE IF choice = New
  THEN Linked([Demand(t, d.link = None) EXCEPT !.bill = Append(@, Bill(FALSE, TRUE, TRUE, None))],
              Len(t.bill) + 1, TRUE)
  ELSE IF choice = d.link
  THEN Linked(IF ~d.managed THEN t
              ELSE [Demand(t, t.bill[choice].active) EXCEPT !.bill[choice].empty = FALSE],
              choice, d.managed)
  ELSE Linked(DeactivateManagedDebtCommitment(
                Demand(t, t.bill[choice].active /\ ~t.bill[choice].settled /\ t.bill[choice].monthly
                          /\ choice \notin PaymentsOf(t)), d),
              choice, FALSE)

NewDebt(a, status) == [account |-> a, status |-> status, link |-> None, managed |-> FALSE]
Saved(r, i, row) ==
  [r.tables EXCEPT !.debt =
     [d \in DOMAIN @ \cup {i} |-> IF d = i THEN [row EXCEPT !.link = r.link, !.managed = r.managed] ELSE @[d]]]

AddDebt(a, choice) ==
  LET t == IF account[a].state = "absent" THEN Opened(Tables, a, "excluded") ELSE Tables
      row == NewDebt(a, "active")
  IN  /\ TypeOf[a] \in Liability /\ On(t, a) = {}
      /\ account[a].state = "open" \/ (account[a].state = "absent" /\ a \in Manual)
      /\ Commit(Saved(ResolveDebtCommitment(t, row, "active", choice), Len(debt) + 1, row))

UpdateDebt(d, status, choice) ==
  /\ debt[d].status # "archived"
  /\ Commit(Saved(ResolveDebtCommitment(Tables, debt[d], status, choice), d, [debt[d] EXCEPT !.status = status]))

(***************************************************************************)
(* The bank comes and goes                                                 *)
(***************************************************************************)
\* Mutant: the plan keeps the contributions of the paused goals.
DetachedOnly(t, S) ==
  [t EXCEPT !.goal = [g \in DOMAIN @ |->
     IF @[g].status # "archived" /\ @[g].dest \in S
     THEN [@[g] EXCEPT !.dest = None, !.prior = None, !.status = "paused"] ELSE @[g]]]

\* detachSavingsGoalsForConnection: the role is not given back, because the
\* accounts are about to be archived.
DetachSavingsGoals(t, S) ==
  IF \A g \in DOMAIN t.goal : t.goal[g].status = "archived" \/ t.goal[g].dest \notin S THEN t
  ELSE RefreshSavingsPlanAggregate(
    [t EXCEPT !.goal = [g \in DOMAIN @ |->
       IF @[g].status # "archived" /\ @[g].dest \in S
       THEN [@[g] EXCEPT !.dest = None, !.prior = None,
                         !.status = IF t.goal[g].status = "active" THEN "paused" ELSE t.goal[g].status]
       ELSE @[g]]])

DetachIncomeSchedules(t, S) ==
  [t EXCEPT !.income = [i \in DOMAIN @ |->
     IF @[i].status # "archived" /\ @[i].dest \in S
     THEN [@[i] EXCEPT !.dest = None, !.confirmed = FALSE] ELSE @[i]]]

PauseDebtTracking(t, S) ==
  LET paused == {d \in DOMAIN t.debt : t.debt[d].account \in S /\ t.debt[d].status \in {"active", "needs_review"}}
      managed == {d \in paused : t.debt[d].managed}
  IN  [Removed(t, {t.debt[d].link : d \in managed}) EXCEPT !.debt = [d \in DOMAIN @ |->
         IF d \notin paused THEN @[d]
         ELSE [@[d] EXCEPT !.status = "paused", !.managed = FALSE,
                           !.link = IF d \in managed THEN None ELSE t.debt[d].link]]]

Disconnect ==
  /\ connection # "revoked"
  /\ Commit([Uncounted(
       PauseDebtTracking(DetachIncomeSchedules(DetachSavingsGoals(Tables, FromBank), FromBank), FromBank),
       Open(Tables, FromBank)) EXCEPT !.connection = "revocation_pending"])

\* finalizeRevocationInTransaction
FinalizeRevocation ==
  /\ connection = "revocation_pending"
  /\ Commit([Archived(Tables, Open(Tables, FromBank)) EXCEPT !.connection = "revoked"])

\* Mutant: an archived debt does not count.
ReportedAgain(t, S) == {a \in S : TypeOf[a] \in Liability /\ On(t, a) = {}}

\* A liability the bank reports gets a debt to review, once: a debt the user
\* has archived stands for his not wanting one.
Reported(t, S) ==
  {a \in S : TypeOf[a] \in Liability /\ \A d \in DOMAIN t.debt : t.debt[d].account # a}

Present(t, S) ==
  [Written(t, {a \in S : t.account[a].state = "archived"}) EXCEPT !.account =
     [a \in DOMAIN @ |-> IF a \notin S THEN @[a]
                         ELSE IF @[a].state = "absent" THEN [state |-> "open", role |-> "excluded"]
                         ELSE [@[a] EXCEPT !.state = "open"]]]

\* reconcileAccounts: the accounts the bank reports, in its order, and those
\* it no longer does.
SyncAccounts(present) ==
  \E order \in SetToSeqs(Reported(Tables, present)) :
    LET kept == [Present(Tables, present) EXCEPT
                   !.debt = @ \o [i \in DOMAIN order |-> NewDebt(order[i], "needs_review")]]
        gone == Open(Tables, FromBank) \ present
    IN  /\ connection = "healthy"
        /\ Commit(Archived(PauseDebtTracking(DetachIncomeSchedules(kept, gone), gone), gone))

(***************************************************************************)
(* Specification                                                           *)
(***************************************************************************)
Init ==
  /\ world \in Worlds /\ connection = "healthy"
  /\ account = [a \in Account |-> IF a \in Provisioned \cap world.accounts
                                  THEN [state |-> "open", role |-> "spendable"]
                                  ELSE [state |-> "absent", role |-> "excluded"]]
  /\ own = [a \in Account |-> account[a].role]
  /\ goal = <<>> /\ planned = 0 /\ income = <<>> /\ bill = <<>> /\ debt = <<>>
  /\ application = <<>> /\ asked = {} /\ overtaken = {}

Banked == world.accounts \cap FromBank
Accounts == \E a \in world.edited :
  \/ \E role \in Roles : SetAccountPlanningRole(a, role)
  \/ \E include \in BOOLEAN : CheckInclusion(a, include)
\* Requests that differ in what the properties can tell: the name of a goal
\* matters without a destination, a completed goal is as a paused one, and
\* nothing reads the rest of an archived row.
Goals ==
  {r \in [dest : world.accounts \cup {None}, status : {"active", "paused", "archived"},
         amount : Amounts, prior : {None}, general : BOOLEAN] :
     /\ r.dest = None => r.amount = 0
     /\ r.general => r.dest = None
     /\ r.status = "archived" => r.dest = None /\ ~r.general}
Savings == \E r \in Goals :
  \/ r.status = "active" /\ AddSavingsGoal(r.dest, r.amount, r.general)
  \/ \E g \in DOMAIN goal : UpdateSavingsGoal(g, r)
Incomes == \E dest \in world.accounts \cup {None}, confirmed \in BOOLEAN :
  \/ AddIncomeSchedule(dest, confirmed)
  \/ \E s \in DOMAIN income, status \in {"active", "paused", "archived"} :
       /\ status # "active" => ~confirmed
       /\ UpdateIncomeSchedule(s, dest, status, confirmed)
\* At most one row is edited at a time.
Edits ==
  {e \in UNION {[S -> [empty : BOOLEAN, monthly : BOOLEAN, renamed : BOOLEAN]] :
                  S \in {{}} \cup {{b} : b \in ActiveBills(Tables)}} :
     \A b \in DOMAIN e : e[b].renamed => bill[b].starter # None}
Bills ==
  \/ \E monthly \in BOOLEAN : AddCommitment(monthly)
  \/ \E edits \in Edits, keys \in world.starters,
        removals \in {{}} \cup {{r} : r \in ActiveBills(Tables)} :
       CalibratePlan(planned, edits, removals, keys)
  \/ \E n \in DOMAIN application : UndoStarterApplication(n)
  \/ \E b \in DOMAIN bill : EvidenceSettles(b)
Debts == \E choice \in {None, New} \cup DOMAIN bill :
  \/ \E a \in world.accounts : AddDebt(a, choice)
  \/ \E d \in DOMAIN debt, status \in {"active", "paused", "closed", "archived"} :
       UpdateDebt(d, status, choice)
Bank == Disconnect \/ FinalizeRevocation \/ \E present \in SUBSET Banked : SyncAccounts(present)

Next ==
  \/ Accounts \/ ApplyInclusion \/ RefuseInclusion \/ ActivateManualMode
  \/ Savings \/ \E amount \in Amounts : AddTrackedGoal(amount) \/ UpdatePlan(amount)
  \/ Incomes \/ Bills \/ Debts \/ Bank

Spec == Init /\ [][Next]_vars

(***************************************************************************)
(* Properties                                                              *)
(***************************************************************************)
AccountRow == [state : {"absent", "open", "archived"}, role : Roles]
GoalRow == [dest : Account \cup {None}, status : {"active", "paused", "completed", "archived"},
            amount : Nat, prior : Roles \cup {None}, general : BOOLEAN]
IncomeRow == [dest : Account \cup {None}, status : {"active", "paused", "archived"}, confirmed : BOOLEAN]
BillRow == [empty : BOOLEAN, monthly : BOOLEAN, active : BOOLEAN, settled : BOOLEAN, touched : BOOLEAN,
            made : BOOLEAN, starter : Nat \cup {None}, renamed : BOOLEAN]
DebtRow == [account : Account, status : {"active", "needs_review", "paused", "closed", "archived"},
            link : Nat \cup {None}, managed : BOOLEAN]

\* Rows have the shape the schema asks for; the payment of a debt and the
\* items of an application are bills, and a managed payment is there.
TypeOK ==
  /\ world \in Worlds
  /\ connection \in {"healthy", "revocation_pending", "revoked"}
  /\ account \in [Account -> AccountRow] /\ own \in [Account -> Roles]
  /\ goal \in Seq(GoalRow) /\ planned \in Nat
  /\ income \in Seq(IncomeRow) /\ bill \in Seq(BillRow) /\ debt \in Seq(DebtRow)
  /\ application \in Seq([items : SUBSET DOMAIN bill, undone : BOOLEAN])
  /\ asked \in SUBSET [account : Account, include : BOOLEAN] /\ overtaken \in SUBSET Account
  /\ \A d \in DOMAIN debt :
       /\ debt[d].link \in (DOMAIN bill) \cup {None}
       /\ debt[d].managed => debt[d].link # None

\* What the plan reserves for savings is what its active goals contribute,
\* whether the number came from the plan's form, from a goal or from a bank
\* that was disconnected (refreshSavingsPlanAggregate, syncLegacySavingsInput).
PlannedIsContributed == planned = Contributions(Tables)

\* Something is promised of the account: its bank is connected and no goal
\* took it during an inclusion.
Kept(a) == a \notin overtaken /\ (a \in FromBank => connection = "healthy")

\* The account of a goal is protected, and an account no goal holds plays
\* the part the user gave it: a goal that moves on, is paused, archived or
\* edited leaves no account protected behind and none unprotected
\* (protectSavingsDestination, restoreSavingsDestination).  Accounts of a
\* disconnected bank keep what they had, and a goal that takes an account
\* during its inclusion is another matter (AlwaysProtected below).
RolesAreReturned ==
  \A a \in Account : Kept(a) => account[a].role = IF Claimed(Tables, a) THEN "protected" ELSE own[a]

\* A bill made for a debt is in the plan only as the managed payment of that
\* debt: closing, archiving, relinking and disconnecting take it along
\* (resolveDebtCommitment, pauseDebtTracking).
PaymentGoesWithDebt ==
  \A b \in DOMAIN bill : bill[b].made /\ bill[b].active =>
    \E d \in DOMAIN debt : debt[d].link = b /\ debt[d].managed /\ debt[d].status \notin Untracked

\* Whatever happens to a debt, the bills the user entered stay in the plan
\* (the status, the payment, the bank: resolveDebtCommitment, pauseDebtTracking).
UserBillsStay ==
  [][debt' # debt => \A b \in DOMAIN bill :
       bill[b].active /\ ~bill[b].made => bill'[b].active]_vars

\* A common bill is not added beside one of the same name that is already
\* there, although that one may have been paid and its payment taken back.
NoTwinBills ==
  \A b, c \in DOMAIN bill :
    LET named(x, k) == bill[x].active /\ bill[x].starter = k /\ ~bill[x].renamed
    IN  bill[b].starter # None /\ named(b, bill[b].starter) /\ named(c, bill[b].starter) => b = c

\* While the bank is connected, the account an income goes to is one that is
\* there (detachIncomeSchedulesForAccounts).
IncomeHasAccount ==
  connection = "healthy" => \A s \in DOMAIN income :
    income[s].status # "archived" /\ income[s].dest # None => account[income[s].dest].state = "open"

\* A bank debt the user has archived does not come back for review with the
\* next synchronisation (reconcileAccounts: "a durable opt-out").
OptOutIsDurable ==
  [][\A a \in FromBank :
       (\E d \in DOMAIN debt : debt[d].account = a) /\ On(Tables, a) = {}
         => \A d \in DOMAIN debt' \ DOMAIN debt : debt'[d].account = a => debt'[d].status # "needs_review"]_vars

\* An account has one goal at a time, and the goal gives back the role the
\* account would have without it (requireSavingsDestination, prior).
GoalsAreAlone ==
  \A a \in Account : \A g, h \in ClaimedBy(Tables, a) :
    g = h /\ (Kept(a) => goal[g].prior = own[a])

\* An account nobody has opened is excluded, has no goal and no inclusion.
AbsentIsExcluded ==
  \A a \in Account : account[a].state = "absent" =>
    account[a].role = "excluded" /\ ~Claimed(Tables, a) /\ \A r \in asked : r.account # a

\* Only a bill made for a debt is managed, as long as it is in the plan.
ManagedIsMade ==
  \A d \in DOMAIN debt : debt[d].managed =>
    bill[debt[d].link].made \/ ~bill[debt[d].link].active

\* The accounts play the parts the goals and the user gave them, and incomes
\* go to accounts that are there.
AccountsAreInOrder == TypeOK /\ RolesAreReturned /\ GoalsAreAlone /\ AbsentIsExcluded /\ IncomeHasAccount

\* Every bill of the plan has a reason to be there, and has it once.
BillsHaveAReason == PaymentGoesWithDebt /\ ManagedIsMade /\ NoTwinBills

\* What every command keeps.
LedgerInv == AccountsAreInOrder /\ PlannedIsContributed /\ BillsHaveAReason

\* What the user decided stands: bills entered and debts archived.
DecisionsStand == UserBillsStay /\ OptOutIsDurable

(***************************************************************************)
(* What one could expect and the code does not keep                        *)
(***************************************************************************)
\* A goal's account is kept out of spendable cash.  An inclusion that has
\* passed its check still applies when the goal took an account that was
\* protected already: nothing bumps its version (2716-2743, 4005).
AlwaysProtected ==
  \A g \in DOMAIN goal : goal[g].status # "archived" /\ goal[g].dest # None
    => account[goal[g].dest].role = "protected"

\* A tracked debt is paid by a bill of the plan.  A calibration or an undo
\* removes the bill a debt is linked to (3245-3262, 3383-3394).
PaymentIsInThePlan ==
  \A d \in DOMAIN debt : debt[d].status = "active" /\ debt[d].link # None => bill[debt[d].link].active

\* A goal or an income names an account that is there.  A synchronisation
\* that misses an account leaves its goals alone (2065-2071), and between a
\* disconnection and its end the accounts can be chosen again (1540).
DestinationIsOpen ==
  /\ \A g \in DOMAIN goal : goal[g].status # "archived" /\ goal[g].dest # None
       => account[goal[g].dest].state = "open"
  /\ \A s \in DOMAIN income : income[s].status # "archived" /\ income[s].dest # None
       => account[income[s].dest].state = "open"

\* Cash is counted from the bank or by hand, not both.  The planning role
\* and a goal's release make an account spendable without looking
\* (2862-2885, 4031-4042).
OneKindOfCash == Spendable(Tables, FromBank) = {} \/ Spendable(Tables, Manual) = {}
=============================================================================
