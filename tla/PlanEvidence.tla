---------------------------- MODULE PlanEvidence ----------------------------
(***************************************************************************)
(* How posted transactions become evidence for the expected items of a     *)
(* plan (apps/api/src/core/core.service.ts).                               *)
(*                                                                         *)
(* A source is a rule the user keeps: a one-time bill, a recurring bill,   *)
(* the payment of a debt, a savings goal or an income schedule.  The       *)
(* synchronisation turns each source into dated occurrences; the           *)
(* reconciliation matches transactions with them, waits for a later        *)
(* balance, verifies them and draws the consequences: a bill is settled, a *)
(* contribution is booked, an income schedule moves on.  Every handler     *)
(* holds the planning lock of the household and is one transaction, so it  *)
(* is one action.  The tables are variables; a step of a handler is an     *)
(* operator from tables to tables, and a handler composes them.  A step    *)
(* that breaks a constraint of the schema clears the field ok: the         *)
(* transaction is rolled back, which is to say the action is not taken.    *)
(*                                                                         *)
(* Amounts are small numbers and dates are day numbers.  Rows of           *)
(* plan_occurrences are numbered in the order they were inserted; of the   *)
(* matches of one pair only the last row is kept, because only that one    *)
(* can be active.  A transaction stands for one evidence revision.         *)
(***************************************************************************)
EXTENDS Naturals, Sequences, FiniteSets, FiniteSetsExt, SequencesExt, TLC

CONSTANTS
  Source,      \* the rules of the plan, numbered
  Kind,        \* [Source -> Kinds]
  Evidence,    \* the transactions that can arrive, numbered
  About,       \* what is known of each transaction
  Successor,   \* the corrected revision of a manual transaction
  FirstRule,   \* amount and due date of each source at the start
  Worlds,      \* the sources, transactions and edits of one history
  Today, Period, NearDays, WindowDays, \* 3 and 7 days in the code
  MaxRows, MaxVersion                  \* bounds of the model

Kinds == {"one_time", "recurring", "debt", "savings", "income"}
Open == {"expected", "pending", "partial", "overdue", "needs_review"}
None == 0

ASSUME PlanAssumption ==
  /\ Source \subseteq Nat \ {None} /\ Evidence \subseteq Nat \ {None}
  /\ Kind \in [Source -> Kinds]
  /\ \A e \in Evidence :
       About[e] \in [feed : {"plaid", "manual"}, way : {"credit", "debit"},
                     amount : Nat \ {0}, date : Nat, named : SUBSET Source,
                     place : {"spendable", "protected", "liability"},
                     topic : {"income", "transfer", "other"}]

VARIABLES
  world,     \* the sources, transactions and edits of this history
  rule,      \* commitments, savings_goals and income_schedules
  occ,       \* plan_occurrences
  match,     \* occurrence_transaction_matches, the last row of each pair
  arrived,   \* transactions in the ledger
  live,      \* transactions that are the current posted revision
  covered,   \* transactions a balance of their account was recorded after
  movement,  \* savings_goal_movements with their evidence
  proof      \* debt_payment_evidence

vars == <<world, rule, occ, match, arrived, live, covered, movement, proof>>

Tables == [ok |-> TRUE, rule |-> rule, occ |-> occ, match |-> match,
           arrived |-> arrived, live |-> live, covered |-> covered,
           movement |-> movement, proof |-> proof]

\* The bound on the history of a source.
Within(t) ==
  \A s \in DOMAIN t.rule : Cardinality({o \in 1 .. Len(t.occ) : t.occ[o].source = s}) <= MaxRows

Commit(t) ==
  /\ t.ok /\ Within(t)
  /\ rule' = t.rule /\ occ' = t.occ /\ match' = t.match
  /\ arrived' = t.arrived /\ live' = t.live /\ covered' = t.covered
  /\ movement' = t.movement /\ proof' = t.proof
  /\ UNCHANGED world

(***************************************************************************)
(* Reading the tables                                                      *)
(***************************************************************************)
Rows(t) == 1 .. Len(t.occ)
KindOf(t, o) == Kind[t.occ[o].source]
IsCommitment(k) == k \in {"one_time", "recurring", "debt"}

Active(t) == {p \in DOMAIN t.match : t.match[p].state \in {"proposed", "confirmed"}}
Confirmed(t) == {p \in DOMAIN t.match : t.match[p].state = "confirmed"}
Proposed(t) == {p \in DOMAIN t.match : t.match[p].state = "proposed"}
Of(P, o) == {p \in P : p[1] = o}
Using(P, e) == {p \in P : p[2] = e}
Total(t, P) == MapThenSumSet(LAMBDA p : t.match[p].amount, P)

Remaining(t, o, otherwise) ==
  LET allocated == Total(t, Of(Confirmed(t), o))
      expected == t.occ[o].amount
  IN  IF expected = None THEN IF allocated = 0 THEN otherwise ELSE 0
      ELSE IF expected > allocated THEN expected - allocated ELSE 0

Smaller(a, b) == IF a < b THEN a ELSE b
Apart(a, b) == IF a < b THEN b - a ELSE a - b
Way(k) == IF k \in {"income", "savings"} THEN "credit" ELSE "debit"

(***************************************************************************)
(* Writing the tables                                                      *)
(***************************************************************************)
Versioned(row) == [row EXCEPT !.version = Smaller(@ + 1, MaxVersion)]

Undo(t, P) ==
  [t EXCEPT !.match = [p \in DOMAIN @ |->
     IF p \in P THEN [@[p] EXCEPT !.state = "reversed"] ELSE @[p]]]

\* createSavingsMovement: a transaction is evidence of one movement only.
Book(t, m) ==
  [t EXCEPT !.movement = @ \cup {m},
            !.ok = @ /\ \A b \in t.movement : b.evidence \cap m.evidence = {}]

\* skipOccurrence: the matches of the row go, its consequences stay.
Skip(t, o, asked) ==
  [Undo(t, Of(Active(t), o)) EXCEPT
     !.occ[o] = [Versioned(@) EXCEPT !.state = "skipped", !.asked = @ \/ asked]]

\* Mutant: the contribution stays booked when its deposit is gone.
ReopenedStillBooked(t, o) ==
  IF t.occ[o].state # "verified" THEN t
  ELSE [t EXCEPT !.rule = [s \in DOMAIN @ |->
          IF @[s].settledBy = o THEN [@[s] EXCEPT !.settled = FALSE, !.settledBy = None] ELSE @[s]]]

Reopened(t, o) ==
  IF t.occ[o].state # "verified" THEN t
  ELSE [t EXCEPT
     !.rule = [s \in DOMAIN @ |->
        IF IsCommitment(Kind[s]) /\ @[s].settledBy = o
        THEN [@[s] EXCEPT !.settled = FALSE, !.settledBy = None] ELSE @[s]],
     !.movement = {IF m.occ = o /\ \A n \in @ : n.occ = o => n.version <= m.version
                   THEN [m EXCEPT !.reversed = TRUE] ELSE m : m \in @}]

(***************************************************************************)
(* synchronizePlanOccurrences                                              *)
(***************************************************************************)
\* The dates of a source inside the horizon: one for every source here,
\* because Period is longer than the horizon is wide.
Targets(t) ==
  {s \in DOMAIN t.rule : t.rule[s].due # None
     /\ IsCommitment(Kind[s]) => ~t.rule[s].settled}

\* Rows are read by date and version; equal versions come as inserted.
Earlier(t, a, b) ==
  \/ t.occ[a].date < t.occ[b].date
  \/ t.occ[a].date = t.occ[b].date /\ t.occ[a].version < t.occ[b].version
  \/ t.occ[a].date = t.occ[b].date /\ t.occ[a].version = t.occ[b].version /\ a < b

FirstOf(t, S) == CHOOSE a \in S : \A b \in S \ {a} : Earlier(t, a, b)
LastOf(t, S) == CHOOSE a \in S : \A b \in S \ {a} : Earlier(t, b, a)

\* The row that already stands for the target: the first of its date, and
\* if there is none the last of its source.
Standing(t, s) ==
  LET lineage == {o \in Rows(t) : t.occ[o].source = s}
      exact == {o \in lineage : t.occ[o].date = t.rule[s].due}
  IN  CASE exact # {} -> FirstOf(t, exact)
        [] exact = {} /\ lineage # {} -> LastOf(t, lineage)
        [] OTHER -> None

Retained(t, s, o) ==
  /\ o # None
  /\ t.occ[o].date = t.rule[s].due
  /\ \/ t.occ[o].state = "verified"
     \/ t.occ[o].amount = t.rule[s].amount /\ (t.occ[o].state = "skipped" => t.occ[o].asked)

NewRow(t, s) ==
  [source |-> s, date |-> t.rule[s].due, amount |-> t.rule[s].amount, state |-> "expected",
   matched |-> 0, version |-> 1, asked |-> FALSE]

Insert(t, row) ==
  [t EXCEPT !.occ = Append(@, row),
            !.ok = @ /\ \A o \in Rows(t) : t.occ[o].state # "skipped" =>
                          <<t.occ[o].source, t.occ[o].date>> # <<row.source, row.date>>]

\* snapshot is what was read before the loop, o the row that stands for the
\* target; the unique index allows one row that is not skipped for a source
\* and a date.
Replace(snapshot, t, s, o) ==
  LET superseded == /\ o # None /\ snapshot.occ[o].date = snapshot.rule[s].due
                    /\ snapshot.occ[o].state \notin {"verified", "skipped"}
  IN  IF Retained(snapshot, s, o) THEN t
      ELSE Insert(IF superseded THEN Skip(t, o, FALSE) ELSE t, NewRow(t, s))

Materialize(snapshot, t, s) == Replace(snapshot, t, s, Standing(snapshot, s))

\* A row outside the targets goes, an overdue one-time bill excepted.
Outside(t, o) ==
  LET row == t.occ[o] IN
  /\ row.state # "verified"
  /\ ~(Kind[row.source] = "one_time" /\ row.date < Today /\ row.source \in Targets(t))
  /\ ~(row.source \in Targets(t) /\ t.rule[row.source].due = row.date)

Synchronize(t) ==
  LET filled == FoldLeft(LAMBDA u, s : Materialize(t, u, s), t,
                         SetToSortSeq(Targets(t), LAMBDA a, b : a < b))
  IN  FoldSet(LAMBDA o, u : Skip(u, o, FALSE), filled, {o \in Rows(t) : Outside(t, o)})

(***************************************************************************)
(* Steps of reconcilePlanEvidence                                          *)
(***************************************************************************)
\* reverseInvalidSavingsMovements
ReverseInvalidMovements(t) ==
  [t EXCEPT !.movement = {IF m.plaid /\ ~(m.evidence \subseteq t.live)
                          THEN [m EXCEPT !.reversed = TRUE] ELSE m : m \in @}]

\* Mutant: only proposals are looked at.
LostProposals(t) == {p \in Proposed(t) : p[2] \notin t.live}

\* Active matches whose transaction was removed or revised.
Lost(t) == {p \in Active(t) : p[2] \notin t.live}
ReopenAll(t, P) == FoldSet(LAMBDA p, u : Reopened(u, p[1]), Undo(t, P), P)

\* A confirmed match waits for a later balance of its own account.
Reflect(t) ==
  [t EXCEPT !.match = [p \in DOMAIN @ |->
     IF p \in Confirmed(t) /\ p[2] \in t.covered THEN [@[p] EXCEPT !.reflected = TRUE] ELSE @[p]]]

Spent(t) == UNION {m.evidence : m \in t.movement}
Posted(t, place, way) ==
  {e \in t.live : About[e].feed = "plaid" /\ About[e].place = place /\ About[e].way = way}

\* The other leg of a transfer into savings: debits of spendable accounts.
SourceLegs(t, c) ==
  {d \in Posted(t, "spendable", "debit") :
     /\ About[d].topic = "transfer" /\ About[d].amount = About[c].amount
     /\ Apart(About[d].date, About[c].date) <= NearDays
     /\ d \notin Spent(t)}

Put(t, o, e, row) == [t EXCEPT !.match = (<<o, e>> :> row) @@ @]
Row(state, amount, reflected, by) ==
  [state |-> state, amount |-> amount, reflected |-> reflected, by |-> by]

\* reconcileSavingsTransferEvidence, for one open contribution.  acc.gone
\* are the debits this run has already paired.  What is allocated to the
\* contribution by other transactions is not looked at.
TransferFor(o, acc) ==
  LET t == acc.t
      credits == {c \in Posted(t, "protected", "credit") :
        /\ About[c].amount = t.occ[o].amount
        /\ Apart(About[c].date, t.occ[o].date) <= WindowDays
        /\ Using(Active(t), c) \subseteq {p \in Proposed(t) : p[1] = o}}
      c == CHOOSE e \in credits : TRUE
      legs == SourceLegs(t, c) \ acc.gone
      both == Cardinality(legs) = 1 /\ legs \subseteq t.covered /\ c \in t.covered
      known == <<o, c>> \in Active(t)
      kept == IF known THEN t.match[<<o, c>>].amount ELSE About[c].amount
  IN  IF Cardinality(credits) # 1 \/ (known /\ ~both) THEN acc
      ELSE [t |-> Put(t, o, c, Row(IF both THEN "confirmed" ELSE "proposed", kept, both, "system")),
            gone |-> acc.gone \cup (IF both THEN legs ELSE {})]

Transfers(t) ==
  LET rows == {o \in Rows(t) : KindOf(t, o) = "savings" /\ t.occ[o].state \in Open}
  IN  FoldSet(TransferFor, [t |-> t, gone |-> {}], rows).t

\* reconcileSavingsWithdrawals
Withdrawals(t) ==
  LET goals == {s \in DOMAIN t.rule : Kind[s] = "savings"}
      rows == {d \in Posted(t, "protected", "debit") : d \in t.covered \ Spent(t)}
  IN  IF goals = {} THEN t
      ELSE FoldSet(LAMBDA d, u : Book(u, [occ |-> None, version |-> d, evidence |-> {d},
                                          plaid |-> TRUE, reversed |-> FALSE]), t, rows)

(***************************************************************************)
(* Candidates of bills and income                                          *)
(***************************************************************************)
\* scoreReconciliationCandidate, in hundredths.
Score(t, o, e) ==
  LET apart == Apart(About[e].date, t.occ[o].date)
      exact == t.occ[o].amount = None \/ Remaining(t, o, None) = About[e].amount
      named == t.occ[o].source \in About[e].named
      near == About[e].way = Way(KindOf(t, o)) /\ apart <= WindowDays
  IN  [pair |-> <<o, e>>, automatic |-> near /\ exact /\ named /\ apart <= NearDays,
       score |-> IF ~near THEN 0
                 ELSE 20 + (IF apart <= NearDays THEN 25 ELSE 15)
                         + (IF exact THEN 40 ELSE 0) + (IF named THEN 15 ELSE 0)]

Eligible(t, o, e) ==
  /\ t.occ[o].state \in Open /\ KindOf(t, o) # "savings"
  /\ Remaining(t, o, 1) # 0
  /\ About[e].feed = "plaid" /\ About[e].place # "liability"
  /\ IF KindOf(t, o) = "income" THEN About[e].topic = "income" ELSE About[e].place = "spendable"
  /\ Using(Active(t), e) = {}

Candidates(t) ==
  {c \in {Score(t, p[1], p[2]) : p \in {q \in Rows(t) \X t.live : Eligible(t, q[1], q[2])}} :
     c.score >= 60}

Better(a, b) ==
  \/ a.score > b.score
  \/ a.score = b.score /\ a.pair[1] < b.pair[1]
  \/ a.score = b.score /\ a.pair[1] = b.pair[1] /\ a.pair[2] < b.pair[2]

\* A strong candidate that is alone for its occurrence and its transaction
\* is confirmed, a deposit that fits two schedules or the payment of a debt
\* excepted.
Automatic(t, all, c) ==
  LET o == c.pair[1]  e == c.pair[2]
      strong == {d.pair : d \in {x \in all : x.automatic}}
  IN  c.automatic /\ Of(strong, o) = {c.pair} /\ Using(strong, e) = {c.pair}

Ambiguous(t, all, c) ==
  /\ KindOf(t, c.pair[1]) = "income"
  /\ Cardinality({d \in all : d.pair[2] = c.pair[2] /\ KindOf(t, d.pair[1]) = "income"}) > 1

\* Mutant: only the active pairs count.
BlockedWhenActive(acc, c, ambiguous) ==
  \/ Using(Active(acc.t), c.pair[2]) # {} /\ ~ambiguous
  \/ c.pair[1] \in acc.asked

\* One candidate, best score first.  acc.asked are the occurrences that
\* have a proposal or got a match in this run.
Blocked(acc, c, ambiguous) ==
  LET o == c.pair[1] IN
  \/ c.pair \in DOMAIN acc.t.match
  \/ Using(Active(acc.t), c.pair[2]) # {} /\ ~ambiguous
  \/ /\ Of(Active(acc.t), o) # {}
     /\ KindOf(acc.t, o) \notin {"income", "debt"} \/ o \in acc.asked

Propose(before, all, c, acc, ambiguous) ==
  LET o == c.pair[1]  e == c.pair[2]
      confirmed == Automatic(before, all, c) /\ ~ambiguous /\ KindOf(before, o) # "debt"
  IN  IF Blocked(acc, c, ambiguous) THEN acc
      ELSE [t |-> Put(acc.t, o, e, Row(IF confirmed THEN "confirmed" ELSE "proposed",
                                       Smaller(About[e].amount, Remaining(before, o, About[e].amount)),
                                       FALSE, "system")),
            asked |-> acc.asked \cup {o}]

ProposeAll(t, all) ==
  FoldLeft(LAMBDA acc, c : Propose(t, all, c, acc, Ambiguous(t, all, c)),
           [t |-> t, asked |-> {p[1] : p \in Proposed(t)}], SetToSortSeq(all, Better)).t

MatchCandidates(t) == ProposeAll(t, Candidates(t))

(***************************************************************************)
(* Payments of debts: a debit of a spendable account, the credit of the    *)
(* liability account, and a later balance of both.                         *)
(***************************************************************************)
\* The first half of reconcileDebtPaymentEvidence.
Refuted(t) ==
  {f \in t.proof : ~f.reversed /\ \/ t.match[f.pair].state # "confirmed"
                                   \/ ~({f.liability, f.pair[2]} \subseteq t.live)}
RefuteProofs(t) ==
  LET P == {f.pair : f \in Refuted(t)} \cap Confirmed(t)
      u == [t EXCEPT !.proof = (@ \ Refuted(t)) \cup {[f EXCEPT !.reversed = TRUE] : f \in Refuted(t)}]
  IN  ReopenAll(u, P)

LiabilityLegs(t, p) ==
  {c \in Posted(t, "liability", "credit") :
     /\ About[c].amount = t.match[p].amount
     /\ Apart(About[c].date, About[p[2]].date) <= NearDays
     /\ \A f \in t.proof : f.liability = c => f.reversed}

\* The second half.  The amount of the proposal is the one it was made with.
Prove(p, t) ==
  LET legs == LiabilityLegs(t, p)
      c == CHOOSE e \in legs : TRUE
  IN  IF p[2] \notin t.covered \/ Cardinality(legs) # 1 \/ ~(legs \subseteq t.covered) THEN t
      ELSE [Put(t, p[1], p[2], Row("confirmed", t.match[p].amount, TRUE, "system"))
              EXCEPT !.proof = @ \cup {[pair |-> p, version |-> Cardinality(t.proof) + 1,
                                        liability |-> c, reversed |-> FALSE]}]

DebtPayments(t) ==
  LET u == RefuteProofs(t)
  IN  FoldSet(Prove, u, {p \in Proposed(u) : /\ KindOf(u, p[1]) = "debt" /\ About[p[2]].feed = "plaid"
                                             /\ About[p[2]].way = "debit"})

(***************************************************************************)
(* States and consequences                                                 *)
(***************************************************************************)
Backing(t, o) == {p \in Of(Confirmed(t), o) : t.match[p].reflected}

Enough(t, o) ==
  LET matched == Total(t, Backing(t, o))
  IN  matched > 0 /\ (t.occ[o].amount = None \/ matched >= t.occ[o].amount)

StateOf(t, o) ==
  CASE Enough(t, o) -> "verified"
    [] ~Enough(t, o) /\ Of(Confirmed(t), o) # Backing(t, o) -> "pending"
    [] ~Enough(t, o) /\ Of(Confirmed(t), o) = Backing(t, o) ->
         IF Of(Proposed(t), o) # {} THEN "needs_review"
         ELSE IF Backing(t, o) # {} THEN "partial"
         ELSE IF t.occ[o].date < Today THEN "overdue" ELSE "expected"

\* recordVerifiedSavingsMovement: nothing is booked unless every match is
\* a credit of the destination and, when no user confirmed one, each has
\* one unused source debit with a later balance.
Contribute(t, o) ==
  LET credits == {p[2] : p \in Backing(t, o)}
      provider == \A p \in Backing(t, o) : t.match[p].by = "system"
      legs == UNION {SourceLegs(t, c) : c \in credits}
      single == \A c \in credits : Cardinality(SourceLegs(t, c)) = 1
  IN  IF \/ \E c \in credits : About[c].place # "protected"
         \/ provider /\ ~(single /\ legs \subseteq t.covered)
      THEN t
      ELSE Book(t, [occ |-> o, version |-> t.occ[o].version, plaid |-> provider, reversed |-> FALSE,
                    evidence |-> credits \cup (IF provider THEN legs ELSE {})])

\* One row of the loop over the rows that are not skipped.  The schema
\* wants matched_amount_minor within the expected amount.
Stored(t, o, state, matched) ==
  [t EXCEPT !.occ[o] = [Versioned(@) EXCEPT !.state = state, !.matched = matched],
            !.ok = @ /\ (t.occ[o].amount = None \/ matched <= t.occ[o].amount \/ state = "needs_review")]

Draw(t, o) ==
  IF KindOf(t, o) = "savings" /\ t.occ[o].state = "verified" THEN Contribute(t, o) ELSE t

Review(o, t) ==
  LET state == StateOf(t, o)  matched == Total(t, Backing(t, o))
  IN  IF state = t.occ[o].state /\ matched = t.occ[o].matched THEN t
      ELSE Draw(Stored(t, o, state, matched), o)

ReviewAll(t) == FoldSet(Review, t, {o \in Rows(t) : t.occ[o].state # "skipped"})

\* A one-time bill that was verified on its due date is settled.
Settle(before, t) ==
  LET verified == {o \in Rows(t) : /\ IsCommitment(KindOf(t, o)) /\ t.occ[o].state = "verified"
                                   /\ t.occ[o] # before.occ[o]}
      Settling(s) == {o \in verified : /\ t.occ[o].source = s /\ Kind[s] = "one_time"
                                       /\ ~t.rule[s].settled /\ t.rule[s].due = t.occ[o].date}
      u == [t EXCEPT !.rule = [s \in DOMAIN @ |->
              IF Settling(s) = {} THEN @[s]
              ELSE [@[s] EXCEPT !.settled = TRUE, !.settledBy = CHOOSE o \in Settling(s) : TRUE]]]
  IN  IF verified = {} THEN t ELSE Synchronize(u)

\* recomputeIncomeSchedulesFromEvidence, for one schedule.
Advanced(t, s) ==
  LET r == t.rule[s]
      received == {o \in Rows(t) : t.occ[o].source = s /\ t.occ[o].state = "verified"}
      latest == LastOf(t, received)
      on == t.occ[latest].date
  IN  CASE received = {} ->
             IF r.from = None \/ r.previous = None THEN r
             ELSE [r EXCEPT !.due = r.previous, !.from = None, !.previous = None]
        [] received # {} /\ r.from = None /\ r.due # on -> r
        [] OTHER -> [r EXCEPT !.due = on + Period, !.from = latest, !.previous = on]

RecomputeIncome(t) ==
  Synchronize([t EXCEPT !.rule = [s \in DOMAIN @ |->
                 IF Kind[s] = "income" THEN Advanced(t, s) ELSE @[s]]])

\* After the consequences of lost evidence, plan and evidence agree again.
Reopens(t, lost) ==
  \E p \in lost : \/ \E s \in DOMAIN t.rule : t.rule[s].settledBy = p[1]
                  \/ \E m \in t.movement : m.occ = p[1] /\ ~m.reversed

Match(t) == DebtPayments(MatchCandidates(Withdrawals(Transfers(Reflect(t)))))
Conclude(t) == RecomputeIncome(Settle(t, ReviewAll(t)))
Renew(t, reopened) == IF reopened THEN Synchronize(t) ELSE t

ReconcileLive(t) ==
  Renew(Conclude(Match(ReopenAll(t, Lost(t)))), Reopens(t, Lost(t)))

Reconcile(t) == ReconcileLive(ReverseInvalidMovements(t))

(***************************************************************************)
(* Handlers.  Each holds the planning lock and is one transaction.         *)
(***************************************************************************)
Fresh(r) == [amount |-> r.amount, due |-> r.due, settled |-> FALSE, settledBy |-> None,
             from |-> None, previous |-> None]
Nothing == [x \in {} |-> x]

Init ==
  /\ world \in Worlds
  /\ rule = [s \in world.sources |-> Fresh(FirstRule[s])]
  /\ occ = Synchronize([ok |-> TRUE, rule |-> rule, occ |-> <<>>, match |-> Nothing]).occ
  /\ match = Nothing
  /\ arrived = {} /\ live = {} /\ covered = {}
  /\ movement = {} /\ proof = {}

\* The ledger part of processSync: one institution holds the accounts of a
\* place; its balances are newer than the transactions known so far.
PlaidSync(place, new, gone) ==
  /\ new \subseteq world.evidence \ arrived /\ gone \subseteq live
  /\ \A e \in new \cup gone : About[e].feed = "plaid" /\ About[e].place = place
  /\ LET t == [Tables EXCEPT
                 !.covered = @ \cup {e \in arrived : About[e].feed = "plaid" /\ About[e].place = place},
                 !.arrived = @ \cup new, !.live = (@ \cup new) \ gone]
     IN  Commit(Reconcile(t))

\* The user's choice in addManualTransaction and linkTransactionToOccurrence.
\* Only an account that is neither spendable nor the right protected one is
\* refused, so a spendable account passes for every kind.
Linkable(o, e) ==
  /\ occ[o].state \in Open
  /\ \/ About[e].place = "spendable"
     \/ About[e].place = "protected" /\ KindOf(Tables, o) \in {"income", "savings"}
  /\ About[e].way = Way(KindOf(Tables, o))
  /\ Remaining(Tables, o, About[e].amount) > 0

Linked(t, o, e, reflected) ==
  Put(t, o, e, Row("confirmed", Smaller(About[e].amount, Remaining(t, o, About[e].amount)),
                   reflected, "user"))

Recorded(e) == [Tables EXCEPT !.arrived = @ \cup {e}, !.live = @ \cup {e}]

AddManualTransaction(e, o, included) ==
  /\ e \in world.evidence \ arrived /\ About[e].feed = "manual"
  /\ \A f \in DOMAIN Successor : Successor[f] # e
  /\ IF o = None THEN ~included ELSE Linkable(o, e)
  /\ Commit(Reconcile(IF o = None THEN Recorded(e) ELSE Linked(Recorded(e), o, e, included)))

LinkTransactionToOccurrence(o, e) ==
  /\ e \in live /\ Linkable(o, e)
  /\ Using(Confirmed(Tables), e) = {}
  /\ LET others == Using(Proposed(Tables), e) \ {<<o, e>>}
         t == [Tables EXCEPT !.match = [p \in DOMAIN @ |->
                 IF p \in others THEN [@[p] EXCEPT !.state = "rejected", !.by = "user"] ELSE @[p]]]
     IN  Commit(Reconcile(Linked(t, o, e, FALSE)))

UnlinkTransactionFromOccurrence(p) ==
  /\ p \in Active(Tables) /\ p[2] \in live
  /\ LET t == [Tables EXCEPT !.match[p].state = "reversed", !.match[p].by = "user"]
     IN  Commit(Synchronize(Reconcile(Reopened(t, p[1]))))

UpdateManualTransaction(e) ==
  /\ e \in live \cap DOMAIN Successor
  /\ LET t == Recorded(Successor[e]) IN Commit(Reconcile([t EXCEPT !.live = @ \ {e}]))

VoidManualTransaction(e) ==
  /\ e \in live /\ About[e].feed = "manual"
  /\ Commit(Reconcile([Tables EXCEPT !.live = @ \ {e}]))

SaveManualBalance ==
  /\ \E e \in arrived \ covered : About[e].feed = "manual"
  /\ Commit(Reconcile([Tables EXCEPT !.covered = @ \cup {e \in arrived : About[e].feed = "manual"}]))

SkipPlanOccurrence(o) ==
  /\ KindOf(Tables, o) # "income" /\ occ[o].state \in Open
  /\ Commit(Skip(Tables, o, TRUE))

\* A rule saved in the plan editor; a settled bill is not shown there.
EditRule(s, r) ==
  /\ ~rule[s].settled
  /\ <<rule[s].amount, rule[s].due>> # <<r.amount, r.due>>
  /\ LET t == Synchronize([Tables EXCEPT !.rule[s] =
                [Fresh(r) EXCEPT !.settledBy = IF Kind[s] = "income" THEN None ELSE rule[s].settledBy]])
     IN  Commit(t)

Small(S) == {T \in SUBSET S : Cardinality(T) <= 1}

Next ==
  \/ \E place \in {"spendable", "protected", "liability"} :
       \E new \in Small(world.evidence \ arrived), gone \in Small(live) : PlaidSync(place, new, gone)
  \/ \E e \in world.evidence, o \in Rows(Tables) \cup {None}, included \in BOOLEAN :
       AddManualTransaction(e, o, included)
  \/ \E o \in Rows(Tables), e \in live : LinkTransactionToOccurrence(o, e)
  \/ \E p \in Active(Tables) : UnlinkTransactionFromOccurrence(p)
  \/ \E e \in live : UpdateManualTransaction(e)
  \/ \E e \in live : VoidManualTransaction(e)
  \/ SaveManualBalance
  \/ \E o \in Rows(Tables) : SkipPlanOccurrence(o)
  \/ \E s \in DOMAIN rule, r \in world.edits : EditRule(s, r)

Spec == Init /\ [][Next]_vars

(***************************************************************************)
(* Properties                                                              *)
(***************************************************************************)
MatchStates == {"proposed", "confirmed", "rejected", "reversed"}

\* Every table holds rows of its shape, and every match joins an existing
\* row of the plan with a transaction of the ledger (027:113, 027:166).
TypeOK ==
  /\ occ \in Seq([source : DOMAIN rule, date : Nat, amount : Nat, state : Open \cup {"verified", "skipped"},
                  matched : Nat, version : 1 .. MaxVersion, asked : BOOLEAN])
  /\ DOMAIN match \subseteq Rows(Tables) \X arrived
  /\ \A p \in DOMAIN match : match[p] \in
       [state : MatchStates, amount : Nat \ {0}, reflected : BOOLEAN, by : {"user", "system"}]
  /\ live \subseteq arrived /\ covered \subseteq arrived /\ arrived \subseteq world.evidence

\* What the plan calls verified is paid: the row is backed by confirmed
\* matches of posted transactions a later balance includes, for the whole
\* expected amount, whatever was corrected, voided, removed, unlinked or
\* skipped since (reconcilePlanEvidence, 5839).
VerifiedIsPaid ==
  \A o \in Rows(Tables) : occ[o].state = "verified" =>
    /\ Enough(Tables, o) /\ Total(Tables, Backing(Tables, o)) = occ[o].matched
    /\ {p[2] : p \in Backing(Tables, o)} \subseteq live

\* A bill is settled by a payment that still stands: when the evidence of
\* that payment goes, the bill is open again (4970).
SettledIsPaid ==
  \A s \in DOMAIN rule : rule[s].settled =>
    /\ rule[s].settledBy \in Rows(Tables)
    /\ occ[rule[s].settledBy].source = s /\ occ[rule[s].settledBy].state = "verified"

\* Savings progress counts a contribution once and only while the item it
\* came from is verified (5594, 5017).
ProgressIsVerified ==
  \A m \in movement : m.occ # None /\ ~m.reversed =>
    /\ occ[m.occ].state = "verified"
    /\ \A n \in movement : n.occ = m.occ /\ ~n.reversed => n = m

\* An income schedule that moved on was moved by a deposit that is still
\* verified; otherwise its earlier date is back (6493).
IncomeFollowsDeposits ==
  \A s \in DOMAIN rule : rule[s].from # None =>
    /\ occ[rule[s].from].source = s /\ occ[rule[s].from].state = "verified"
    /\ rule[s].due = occ[rule[s].from].date + Period

\* A payment of a debt the user did not confirm is confirmed only by both
\* legs and by balances after them, and the credit of the liability
\* account proves one payment at a time (5650).
DebtPaidByBothLegs ==
  \A p \in Confirmed(Tables) : KindOf(Tables, p[1]) = "debt" /\ match[p].by = "system" =>
    \E f \in proof : /\ f.pair = p /\ ~f.reversed /\ f.liability \in live \cap covered
                     /\ \A g \in proof : g.liability = f.liability /\ ~g.reversed => g = f

\* All of these, with the types: no consequence outlives its evidence.
ConsequencesStand ==
  /\ TypeOK
  /\ SettledIsPaid
  /\ ProgressIsVerified
  /\ IncomeFollowsDeposits
  /\ DebtPaidByBothLegs

\* A user's "this was not the matching transaction" stands: no sync, no
\* correction and no balance brings the pair back by itself (5958).
RefusalStands ==
  [][\A p \in DOMAIN match :
       match[p].state \in {"reversed", "rejected"} /\ match[p].by = "user"
         /\ KindOf(Tables, p[1]) # "savings"
       => match'[p] = match[p] \/ match'[p].by = "user"]_vars

\* Refuted.  The same of contributions to savings: the transfer search does
\* not look at the pairs a user refused (5270), so the very transaction that
\* unlinks a deposit proposes it again.
SavingsRefusalStands ==
  [][\A p \in DOMAIN match :
       match[p].state = "reversed" /\ match[p].by = "user" /\ KindOf(Tables, p[1]) = "savings"
       => match'[p] = match[p] \/ match'[p].by = "user"]_vars

\* Refuted.  A synchronisation with nothing new succeeds: what is stored
\* never makes the reconciliation break a constraint of the schema.
ReconcileSucceeds == Reconcile(Tables).ok

\* Refuted.  A one-time bill reserves its money once (4880).
ReservedOnce ==
  \A s \in DOMAIN rule : Kind[s] = "one_time" =>
    Cardinality({o \in Rows(Tables) : occ[o].source = s /\ occ[o].state \in Open}) <= 1

\* Refuted.  The proof of a contribution arrives in the protected
\* destination of the goal (484).
ProofAtDestination ==
  \A p \in Confirmed(Tables) : KindOf(Tables, p[1]) = "savings" => About[p[2]].place = "protected"

\* Refuted.  An item the user marked as not due does not come back while
\* its rule stays as it is (4810).
NotDueStands ==
  [][\A s \in DOMAIN rule : rule'[s] = rule[s] =>
       \A o \in Rows(Tables) : occ[o].asked /\ occ[o].source = s /\ occ[o].date = rule[s].due
                                /\ occ[o].amount = rule[s].amount =>
         \A n \in Rows(Tables)' : occ'[n].source = s /\ occ'[n].date = occ[o].date
                                   /\ n > Len(occ) => FALSE]_vars
====
