--------------------------- MODULE PlanLedgerProofs ---------------------------
(***************************************************************************)
(* Proofs about what a household enters into its plan, for any set of      *)
(* accounts and any number of goals, incomes, bills, debts and starters.   *)
(*                                                                         *)
(* A command is one transaction: it computes tables from tables and        *)
(* commits them.  Holds(t) says of tables what LedgerInv says of the       *)
(* state.  The lemmas <Operator>Fields say which tables an operator        *)
(* touches and what it makes of them; the lemmas <Command>Holds follow the *)
(* tables through a command from operator to operator and show that those  *)
(* it commits hold.  The sum of the contributions is a recursive function; *)
(* what is said about it is proved for the shortest prefix of the goals    *)
(* that would refute it.                                                   *)
(***************************************************************************)
EXTENDS PlanLedger, FiniteSetTheorems, WellFoundedInduction, TLAPS

\* What a transaction works on: rows of the tables and the histories.
Application == [items : SUBSET Nat, undone : BOOLEAN]
Inclusion == [account : Account, include : BOOLEAN]
TableSet ==
  [ok : BOOLEAN, connection : {"healthy", "revocation_pending", "revoked"},
   account : [Account -> AccountRow], goal : Seq(GoalRow), planned : Nat,
   income : Seq(IncomeRow), bill : Seq(BillRow), debt : Seq(DebtRow),
   application : Seq(Application), asked : SUBSET Inclusion,
   own : [Account -> Roles], overtaken : SUBSET Account]

Fields == {"ok", "connection", "account", "goal", "planned", "income", "bill", "debt",
           "application", "asked", "own", "overtaken"}
Only(n, t, changed) == \A f \in Fields \ changed : n[f] = t[f]

LEMMA TableFields ==
    ASSUME NEW t \in TableSet
    PROVE  /\ t.ok \in BOOLEAN /\ t.connection \in {"healthy", "revocation_pending", "revoked"}
           /\ t.account \in [Account -> AccountRow] /\ t.goal \in Seq(GoalRow) /\ t.planned \in Nat
           /\ t.income \in Seq(IncomeRow) /\ t.bill \in Seq(BillRow) /\ t.debt \in Seq(DebtRow)
           /\ t.application \in Seq(Application) /\ t.asked \in SUBSET Inclusion
           /\ t.own \in [Account -> Roles] /\ t.overtaken \in SUBSET Account
           /\ t.account = [a \in Account |-> t.account[a]]
           /\ Len(t.goal) \in Nat /\ DOMAIN t.goal = 1 .. Len(t.goal)
           /\ Len(t.income) \in Nat /\ DOMAIN t.income = 1 .. Len(t.income)
           /\ Len(t.bill) \in Nat /\ DOMAIN t.bill = 1 .. Len(t.bill)
           /\ Len(t.debt) \in Nat /\ DOMAIN t.debt = 1 .. Len(t.debt)
           /\ Len(t.application) \in Nat /\ DOMAIN t.application = 1 .. Len(t.application)
BY DEF TableSet

LEMMA Rows ==
    ASSUME NEW t \in TableSet
    PROVE  /\ \A a \in Account : t.account[a] \in AccountRow /\ t.own[a] \in Roles
           /\ \A g \in DOMAIN t.goal : t.goal[g] \in GoalRow
           /\ \A i \in DOMAIN t.income : t.income[i] \in IncomeRow
           /\ \A b \in DOMAIN t.bill : t.bill[b] \in BillRow
           /\ \A d \in DOMAIN t.debt : t.debt[d] \in DebtRow
           /\ \A n \in DOMAIN t.application : t.application[n] \in Application
<1>1. \A S : \A q \in Seq(S) : \A i \in DOMAIN q : q[i] \in S
  OBVIOUS
<1> QED BY <1>1, TableFields

\* A sequence whose rows are all changed in the same way.
LEMMA MappedRows ==
    ASSUME NEW S, NEW n \in Nat, NEW f \in [1 .. n -> S]
    PROVE  f \in Seq(S) /\ Len(f) = n /\ DOMAIN f = 1 .. n
OBVIOUS

LEMMA RowType ==
    ASSUME NEW S, NEW q \in Seq(S), NEW i \in DOMAIN q
    PROVE  q[i] \in S
OBVIOUS

LEMMA RetypedRows ==
    ASSUME NEW S, NEW T, NEW q \in Seq(S), \A i \in DOMAIN q : q[i] \in T
    PROVE  q \in Seq(T)
<1>1. Len(q) \in Nat /\ q \in [1 .. Len(q) -> S]
  OBVIOUS
<1>2. q \in [1 .. Len(q) -> T]
  BY <1>1
<1> QED BY <1>1, <1>2, MappedRows

LEMMA AppendedRows ==
    ASSUME NEW S, NEW s \in Seq(S), NEW x \in Seq(S)
    PROVE  /\ s \o x \in Seq(S) /\ Len(s \o x) = Len(s) + Len(x)
           /\ DOMAIN (s \o x) = DOMAIN s \cup (Len(s) + 1 .. Len(s) + Len(x))
           /\ \A i \in DOMAIN s : (s \o x)[i] = s[i]
           /\ \A i \in Len(s) + 1 .. Len(s) + Len(x) :
                 i \notin DOMAIN s /\ i - Len(s) \in DOMAIN x /\ (s \o x)[i] = x[i - Len(s)]
<1>1. Len(s) \in Nat /\ Len(x) \in Nat /\ DOMAIN s = 1 .. Len(s) /\ DOMAIN x = 1 .. Len(x)
  OBVIOUS
<1>2. s \o x \in Seq(S) /\ Len(s \o x) = Len(s) + Len(x)
  OBVIOUS
<1>3. \A i \in 1 .. Len(s) + Len(x) : (s \o x)[i] = IF i <= Len(s) THEN s[i] ELSE x[i - Len(s)]
  OBVIOUS
<1>4. DOMAIN (s \o x) = 1 .. Len(s) + Len(x)
  BY <1>2
<1> QED BY <1>1, <1>2, <1>3, <1>4

LEMMA AppendedRow ==
    ASSUME NEW S, NEW s \in Seq(S), NEW x \in S
    PROVE  /\ Append(s, x) \in Seq(S) /\ Len(Append(s, x)) = Len(s) + 1
           /\ DOMAIN Append(s, x) = DOMAIN s \cup {Len(s) + 1} /\ Len(s) + 1 \notin DOMAIN s
           /\ \A i \in DOMAIN s : Append(s, x)[i] = s[i]
           /\ Append(s, x)[Len(s) + 1] = x
OBVIOUS

------------------------------------------------------------------------------
(* Accounts.                                                               *)

LEMMA WrittenFields ==
    ASSUME NEW t \in TableSet, NEW S, NEW n, n = Written(t, S)
    PROVE  /\ n \in TableSet /\ Only(n, t, {"asked"})
           /\ n.asked = {r \in t.asked : r.account \notin S}
BY DEF Written, TableSet, Only, Fields

LEMMA AssignedFields ==
    ASSUME NEW t \in TableSet, NEW S, NEW role \in Roles, NEW n, n = Assigned(t, S, role)
    PROVE  /\ n \in TableSet /\ Only(n, t, {"asked", "account"}) /\ n.asked \subseteq t.asked
           /\ \A a \in Account : n.account[a] =
                 [t.account[a] EXCEPT !.role = IF a \in S THEN role ELSE @]
<1> DEFINE w == Written(t, S)
           rows == [a \in Account |-> IF a \in S THEN [t.account[a] EXCEPT !.role = role] ELSE t.account[a]]
<1>1. /\ w \in TableSet /\ Only(w, t, {"asked"}) /\ w.asked \subseteq t.asked
  BY WrittenFields
<1>2. w.account = t.account /\ DOMAIN w.account = Account
  BY <1>1, TableFields DEF Only, Fields
<1>3. n = [w EXCEPT !.account = rows]
  BY <1>2 DEF Assigned
<1>4. rows \in [Account -> AccountRow]
  BY Rows DEF AccountRow
<1>5. \A a \in Account : t.account[a] \in AccountRow
  BY Rows
<1> HIDE DEF w, rows
<1>6. n \in TableSet /\ Only(n, w, {"account"}) /\ n.account = rows
  BY <1>1, <1>3, <1>4 DEF TableSet, Only, Fields
<1> QED BY <1>1, <1>5, <1>6 DEF Only, Fields, rows, AccountRow

LEMMA ChosenFields ==
    ASSUME NEW t \in TableSet, NEW S, NEW role \in Roles, NEW n, n = Chosen(t, S, role)
    PROVE  /\ n \in TableSet /\ Only(n, t, {"asked", "account", "own"}) /\ n.asked \subseteq t.asked
           /\ \A a \in Account :
                 /\ n.account[a] = [t.account[a] EXCEPT !.role = IF a \in S THEN role ELSE @]
                 /\ n.own[a] = IF a \in S /\ ~Claimed(t, a) THEN role ELSE t.own[a]
<1> DEFINE w == Assigned(t, S, role)
           roles == [a \in Account |-> IF a \in S /\ ~Claimed(t, a) THEN role ELSE t.own[a]]
<1>1. /\ w \in TableSet /\ Only(w, t, {"asked", "account"}) /\ w.asked \subseteq t.asked
      /\ \A a \in Account : w.account[a] = [t.account[a] EXCEPT !.role = IF a \in S THEN role ELSE @]
  BY AssignedFields
<1>2. w.own = t.own /\ DOMAIN w.own = Account
  BY <1>1, TableFields DEF Only, Fields
<1>3. n = [w EXCEPT !.own = roles]
  BY <1>2 DEF Chosen
<1>4. roles \in [Account -> Roles]
  BY Rows
<1> HIDE DEF w, roles
<1>5. n \in TableSet /\ Only(n, w, {"own"}) /\ n.own = roles
  BY <1>1, <1>3, <1>4 DEF TableSet, Only, Fields
<1> QED BY <1>1, <1>5 DEF Only, Fields, roles

LEMMA UncountedFields ==
    ASSUME NEW t \in TableSet, NEW S, NEW n, n = Uncounted(t, S)
    PROVE  /\ n \in TableSet /\ Only(n, t, {"asked", "account", "own"}) /\ n.asked \subseteq t.asked
           /\ \A a \in Account :
                 LET counted == a \in S /\ t.account[a].role = "spendable"
                 IN  /\ n.account[a] = [t.account[a] EXCEPT !.role = IF counted THEN "excluded" ELSE @]
                     /\ n.own[a] = IF counted /\ ~Claimed(t, a) THEN "excluded" ELSE t.own[a]
<1> DEFINE w == Written(t, S)
           counted == {a \in S : t.account[a].role = "spendable"}
<1>1. w \in TableSet /\ Only(w, t, {"asked"}) /\ w.asked \subseteq t.asked
  BY WrittenFields
<1>2. n = Chosen(w, counted, "excluded")
  BY DEF Uncounted
<1>3. "excluded" \in Roles
  BY DEF Roles
<1>4. w.account = t.account /\ w.own = t.own /\ w.goal = t.goal
  BY <1>1 DEF Only, Fields
<1>5. \A a \in Account : Claimed(w, a) <=> Claimed(t, a)
  BY <1>4 DEF Claimed, ClaimedBy
<1> HIDE DEF w
<1>6. /\ n \in TableSet /\ Only(n, w, {"asked", "account", "own"}) /\ n.asked \subseteq w.asked
      /\ \A a \in Account :
            /\ n.account[a] = [w.account[a] EXCEPT !.role = IF a \in counted THEN "excluded" ELSE @]
            /\ n.own[a] = IF a \in counted /\ ~Claimed(w, a) THEN "excluded" ELSE w.own[a]
  BY <1>1, <1>2, <1>3, ChosenFields
<1>7. n \in TableSet /\ Only(n, t, {"asked", "account", "own"}) /\ n.asked \subseteq t.asked
  BY <1>1, <1>6 DEF Only, Fields
<1>8. \A a \in Account : a \in counted <=> a \in S /\ t.account[a].role = "spendable"
  OBVIOUS
<1> HIDE DEF counted
<1> QED BY <1>4, <1>5, <1>6, <1>7, <1>8

LEMMA ArchivedFields ==
    ASSUME NEW t \in TableSet, NEW S, NEW n, n = Archived(t, S)
    PROVE  /\ n \in TableSet /\ Only(n, t, {"asked", "account", "own"}) /\ n.asked \subseteq t.asked
           /\ \A a \in Account \ S : n.account[a].state = t.account[a].state
<1> DEFINE u == Uncounted(t, S)
           rows == [a \in Account |-> IF a \in S THEN [u.account[a] EXCEPT !.state = "archived"] ELSE u.account[a]]
<1>1. u \in TableSet /\ Only(u, t, {"asked", "account", "own"}) /\ u.asked \subseteq t.asked
  BY UncountedFields
<1>2. DOMAIN u.account = Account /\ \A a \in Account : u.account[a] \in AccountRow
  BY <1>1, Rows, TableFields
<1>3. n = [u EXCEPT !.account = rows]
  BY <1>2 DEF Archived
<1>4. \A a \in Account : u.account[a].state = t.account[a].state
  <2>1. \A a \in Account :
          /\ u.account[a] = [t.account[a] EXCEPT !.role = IF a \in S /\ t.account[a].role = "spendable" THEN "excluded" ELSE @]
          /\ t.account[a] \in AccountRow
    BY UncountedFields, Rows
  <2> QED BY <2>1 DEF AccountRow
<1> HIDE DEF u
<1>5. rows \in [Account -> AccountRow] /\ \A a \in Account \ S : rows[a] = u.account[a]
  BY <1>2 DEF AccountRow
<1> HIDE DEF rows
<1>6. n \in TableSet /\ Only(n, u, {"account"}) /\ n.account = rows
  BY <1>1, <1>3, <1>5 DEF TableSet, Only, Fields
<1> QED BY <1>1, <1>4, <1>5, <1>6 DEF Only, Fields

LEMMA PresentFields ==
    ASSUME NEW t \in TableSet, NEW S, NEW n, n = Present(t, S)
    PROVE  /\ n \in TableSet /\ Only(n, t, {"asked", "account"}) /\ n.asked \subseteq t.asked
           /\ \A a \in Account :
                 n.account[a] = IF a \notin S THEN t.account[a]
                                ELSE [state |-> "open",
                                      role |-> IF t.account[a].state = "absent" THEN "excluded" ELSE t.account[a].role]
<1> DEFINE T == {a \in S : t.account[a].state = "archived"}
           w == Written(t, T)
           rows == [a \in Account |-> IF a \notin S THEN t.account[a]
                                      ELSE IF t.account[a].state = "absent" THEN [state |-> "open", role |-> "excluded"]
                                      ELSE [t.account[a] EXCEPT !.state = "open"]]
<1>1. w \in TableSet /\ Only(w, t, {"asked"}) /\ w.asked \subseteq t.asked
  BY WrittenFields
<1>2. w.account = t.account /\ DOMAIN t.account = Account /\ \A a \in Account : t.account[a] \in AccountRow
  BY <1>1, Rows, TableFields DEF Only, Fields
<1>3. n = [w EXCEPT !.account = rows]
  BY <1>2 DEF Present
<1> HIDE DEF w
<1>4. rows \in [Account -> AccountRow]
  BY <1>2 DEF AccountRow, Roles
<1>5. \A a \in Account :
         rows[a] = IF a \notin S THEN t.account[a]
                   ELSE [state |-> "open",
                         role |-> IF t.account[a].state = "absent" THEN "excluded" ELSE t.account[a].role]
  BY <1>2 DEF AccountRow
<1> HIDE DEF rows
<1>6. n \in TableSet /\ Only(n, w, {"account"}) /\ n.account = rows
  BY <1>1, <1>3, <1>4 DEF TableSet, Only, Fields
<1> QED BY <1>1, <1>5, <1>6 DEF Only, Fields

\* What is said of roles, goals and inclusions, of the tables of a transaction.
KeptIn(t, a) == a \notin t.overtaken /\ (a \in FromBank => t.connection = "healthy")
RoleHolds(t, a) ==
  /\ KeptIn(t, a) => t.account[a].role = IF Claimed(t, a) THEN "protected" ELSE t.own[a]
  /\ \A g, h \in ClaimedBy(t, a) : g = h /\ (KeptIn(t, a) => t.goal[g].prior = t.own[a])
  /\ t.account[a].state = "absent" =>
       t.account[a].role = "excluded" /\ ~Claimed(t, a) /\ \A r \in t.asked : r.account # a
RolesHold(t) == \A a \in Account : RoleHolds(t, a)

\* A choice is taken back from nobody: it is made for accounts that are there,
\* and for those of a goal only as the goal has it.
LEMMA ChosenHolds ==
    ASSUME NEW t \in TableSet, RolesHold(t), NEW S, NEW role \in Roles, NEW n, n = Chosen(t, S, role),
           \A a \in S \cap Account : /\ t.account[a].state # "absent"
                                     /\ KeptIn(t, a) /\ Claimed(t, a) => role = "protected"
    PROVE  RolesHold(n)
<1> SUFFICES ASSUME NEW a \in Account PROVE RoleHolds(n, a)
  BY DEF RolesHold
<1>1. /\ Only(n, t, {"asked", "account", "own"}) /\ n.asked \subseteq t.asked
      /\ n.account[a] = [t.account[a] EXCEPT !.role = IF a \in S THEN role ELSE @]
      /\ n.own[a] = IF a \in S /\ ~Claimed(t, a) THEN role ELSE t.own[a]
  BY ChosenFields
<1>2. n.goal = t.goal /\ n.connection = t.connection /\ n.overtaken = t.overtaken
  BY <1>1 DEF Only, Fields
<1>3. /\ ClaimedBy(n, a) = ClaimedBy(t, a) /\ (Claimed(n, a) <=> Claimed(t, a))
      /\ KeptIn(n, a) <=> KeptIn(t, a)
  BY <1>2 DEF ClaimedBy, Claimed, KeptIn
<1>4. RoleHolds(t, a) /\ t.account[a] \in AccountRow
  BY Rows DEF RolesHold
<1>5. n.account[a].state = t.account[a].state /\ n.account[a].role = IF a \in S THEN role ELSE t.account[a].role
  BY <1>1, <1>4 DEF AccountRow
<1>6. Claimed(t, a) <=> ClaimedBy(t, a) # {}
  BY DEF Claimed
<1> QED BY <1>1, <1>2, <1>3, <1>4, <1>5, <1>6 DEF RoleHolds

LEMMA SameRoles ==
    ASSUME NEW t, RolesHold(t), NEW n, n.account = t.account, n.goal = t.goal, n.own = t.own,
           n.connection = t.connection, n.overtaken = t.overtaken, n.asked \subseteq t.asked
    PROVE  RolesHold(n)
<1> SUFFICES ASSUME NEW a \in Account PROVE RoleHolds(n, a)
  BY DEF RolesHold
<1>1. ClaimedBy(n, a) = ClaimedBy(t, a) /\ (KeptIn(n, a) <=> KeptIn(t, a))
  BY DEF ClaimedBy, KeptIn
<1>2. RoleHolds(t, a)
  BY DEF RolesHold
<1> QED BY <1>1, <1>2 DEF RoleHolds, Claimed

LEMMA UncountedHolds ==
    ASSUME NEW t \in TableSet, RolesHold(t), NEW S, NEW n, n = Uncounted(t, S)
    PROVE  RolesHold(n)
<1> DEFINE w == Written(t, S)
           counted == {a \in S : t.account[a].role = "spendable"}
<1>1. w \in TableSet /\ Only(w, t, {"asked"}) /\ w.asked \subseteq t.asked
  BY WrittenFields
<1>2. /\ w.account = t.account /\ w.goal = t.goal /\ w.own = t.own
      /\ w.connection = t.connection /\ w.overtaken = t.overtaken
  BY <1>1 DEF Only, Fields
<1>3. n = Chosen(w, counted, "excluded") /\ "excluded" \in Roles
  BY DEF Uncounted, Roles
<1> HIDE DEF w
<1>4. RolesHold(w)
  BY <1>1, <1>2, SameRoles
<1>5. \A a \in counted \cap Account : /\ w.account[a].state # "absent"
                                      /\ KeptIn(w, a) /\ Claimed(w, a) => "excluded" = "protected"
  <2> SUFFICES ASSUME NEW a \in counted \cap Account
               PROVE  w.account[a].state # "absent" /\ ~(KeptIn(w, a) /\ Claimed(w, a))
    OBVIOUS
  <2>1. RoleHolds(w, a) /\ w.account[a].role = "spendable"
    BY <1>2, <1>4 DEF RolesHold
  <2> QED BY <2>1 DEF RoleHolds
<1> HIDE DEF counted
<1> QED BY <1>1, <1>3, <1>4, <1>5, ChosenHolds

LEMMA ArchivedHolds ==
    ASSUME NEW t \in TableSet, RolesHold(t), NEW S, NEW n, n = Archived(t, S)
    PROVE  RolesHold(n)
<1> SUFFICES ASSUME NEW a \in Account PROVE RoleHolds(n, a)
  BY DEF RolesHold
<1> DEFINE u == Uncounted(t, S)
<1>1. /\ u \in TableSet /\ Only(u, t, {"asked", "account", "own"}) /\ u.asked \subseteq t.asked
      /\ RolesHold(u)
  BY UncountedFields, UncountedHolds
<1>2. u.account[a] \in AccountRow
  BY <1>1, Rows
<1> DEFINE w == [u EXCEPT !.account =
                   [b \in DOMAIN @ |-> IF b \in S THEN [@[b] EXCEPT !.state = "archived"] ELSE @[b]]]
<1>3. n = w
  BY DEF Archived
<1>4. DOMAIN u.account = Account
  BY <1>1, TableFields
<1> HIDE DEF u
<1>5. /\ w.goal = u.goal /\ w.connection = u.connection /\ w.overtaken = u.overtaken /\ w.own = u.own
      /\ w.asked = u.asked
      /\ w.account = [b \in DOMAIN u.account |-> IF b \in S THEN [u.account[b] EXCEPT !.state = "archived"] ELSE u.account[b]]
  BY <1>1 DEF TableSet
<1>6. w.account[a].role = u.account[a].role /\ (w.account[a].state = "absent" => u.account[a].state = "absent")
  BY <1>2, <1>4, <1>5 DEF AccountRow
<1> HIDE DEF w
<1>7. ClaimedBy(w, a) = ClaimedBy(u, a) /\ (KeptIn(w, a) <=> KeptIn(u, a))
  BY <1>5 DEF ClaimedBy, KeptIn
<1>8. RoleHolds(u, a)
  BY <1>1 DEF RolesHold
<1> QED BY <1>3, <1>5, <1>6, <1>7, <1>8 DEF RoleHolds, Claimed

LEMMA PresentHolds ==
    ASSUME NEW t \in TableSet, RolesHold(t), NEW S, NEW n, n = Present(t, S)
    PROVE  RolesHold(n)
<1> SUFFICES ASSUME NEW a \in Account PROVE RoleHolds(n, a)
  BY DEF RolesHold
<1>1. /\ Only(n, t, {"asked", "account"}) /\ n.asked \subseteq t.asked
      /\ n.account[a] = IF a \notin S THEN t.account[a]
                        ELSE [state |-> "open",
                              role |-> IF t.account[a].state = "absent" THEN "excluded" ELSE t.account[a].role]
  BY PresentFields
<1>2. n.goal = t.goal /\ n.connection = t.connection /\ n.overtaken = t.overtaken /\ n.own = t.own
  BY <1>1 DEF Only, Fields
<1>3. ClaimedBy(n, a) = ClaimedBy(t, a) /\ (KeptIn(n, a) <=> KeptIn(t, a))
  BY <1>2 DEF ClaimedBy, KeptIn
<1>4. RoleHolds(t, a)
  BY DEF RolesHold
<1> QED BY <1>1, <1>2, <1>3, <1>4 DEF RoleHolds, Claimed

------------------------------------------------------------------------------
(* What the goals contribute.                                              *)

\* Some set of numbers has a least element.
LEMMA First ==
    ASSUME NEW S \in SUBSET Nat, S # {}
    PROVE  \E m \in S : \A n \in S : m <= n
<1> DEFINE R == {p \in Nat \X Nat : p[1] < p[2]}
<1>1. IsWellFoundedOn(R, Nat)
  BY NatLessThanWellFounded DEF OpToRel
<1>2. PICK m \in S : \A n \in S : ~(<<n, m>> \in R)
  BY <1>1, WFMin
<1>3. \A n \in S : ~(n < m)
  BY <1>2
<1> QED BY <1>3

\* f[k] is what the first k goals of q contribute, up to n.
Sums(q, f, n) == f = [k \in 0 .. n |-> IF k = 0 THEN 0 ELSE f[k - 1] + Contribution(q[k])]

LEMMA SumsExist ==
    ASSUME NEW q, NEW n \in Nat
    PROVE  \E f : Sums(q, f, n)
<1> DEFINE S == {k \in Nat : ~\E f : Sums(q, f, k)}
<1> SUFFICES ASSUME S # {} PROVE FALSE
  OBVIOUS
<1>1. PICK m \in S : \A k \in S : m <= k
  BY First
<1>2. CASE m = 0
  <2>1. Sums(q, [k \in 0 .. 0 |-> 0], 0)
    BY DEF Sums
  <2> QED BY <2>1, <1>2, <1>1
<1>3. CASE m # 0
  <2>1. m - 1 \in Nat /\ m - 1 \notin S
    BY <1>1, <1>3
  <2>2. PICK f : Sums(q, f, m - 1)
    BY <2>1
  <2> DEFINE g == [k \in 0 .. m |-> IF k = m THEN f[m - 1] + Contribution(q[m]) ELSE f[k]]
  <2>3. \A k \in 0 .. m : g[k] = IF k = 0 THEN 0 ELSE g[k - 1] + Contribution(q[k])
    <3> SUFFICES ASSUME NEW k \in 0 .. m
                 PROVE  g[k] = IF k = 0 THEN 0 ELSE g[k - 1] + Contribution(q[k])
      OBVIOUS
    <3>1. CASE k = m
      BY <3>1, <1>3, <1>1
    <3>2. CASE k # m
      BY <3>2, <1>3, <1>1, <2>2 DEF Sums
    <3> QED BY <3>1, <3>2
  <2>4. Sums(q, g, m)
    BY <2>3 DEF Sums
  <2> QED BY <2>4, <1>1
<1> QED BY <1>2, <1>3

LEMMA ContributionsAreSums ==
    ASSUME NEW t \in TableSet
    PROVE  \E f : /\ Contributions(t) = f[Len(t.goal)]
                  /\ f[0] = 0
                  /\ \A k \in 1 .. Len(t.goal) : f[k] = f[k - 1] + Contribution(t.goal[k])
<1> DEFINE n == Len(t.goal)
           f == CHOOSE f : f = [k \in 0 .. n |-> IF k = 0 THEN 0 ELSE f[k - 1] + Contribution(t.goal[k])]
<1>1. n \in Nat
  BY TableFields
<1>2. Sums(t.goal, f, n)
  BY <1>1, SumsExist DEF Sums
<1>3. Contributions(t) = f[n]
  BY DEF Contributions
<1> HIDE DEF f
<1>4. f[0] = 0
  BY <1>1, <1>2 DEF Sums
<1>5. \A k \in 1 .. n : f[k] = f[k - 1] + Contribution(t.goal[k])
  BY <1>1, <1>2 DEF Sums
<1> QED BY <1>3, <1>4, <1>5

LEMMA ContributionsType ==
    ASSUME NEW t \in TableSet
    PROVE  Contributions(t) \in Nat
<1>1. PICK f : /\ Contributions(t) = f[Len(t.goal)] /\ f[0] = 0
               /\ \A k \in 1 .. Len(t.goal) : f[k] = f[k - 1] + Contribution(t.goal[k])
  BY ContributionsAreSums
<1>2. Len(t.goal) \in Nat /\ \A k \in 1 .. Len(t.goal) : Contribution(t.goal[k]) \in Nat
  BY Rows, TableFields DEF GoalRow, Contribution
<1> DEFINE S == {k \in 0 .. Len(t.goal) : f[k] \notin Nat}
<1> SUFFICES ASSUME S # {} PROVE FALSE
  BY <1>1, <1>2
<1>0. S \in SUBSET Nat
  BY <1>2
<1>3. PICK m \in S : \A k \in S : m <= k
  BY ONLY <1>0, S # {}, First
<1>4. m - 1 \in 0 .. Len(t.goal) /\ f[m - 1] \in Nat /\ m \in 1 .. Len(t.goal)
  BY <1>1, <1>2, <1>3
<1> QED BY <1>1, <1>2, <1>3, <1>4

\* At most one goal is active: what it contributes is all.
LEMMA ContributionOfOne ==
    ASSUME NEW t \in TableSet, NEW m \in DOMAIN t.goal, ActiveGoals(t) \subseteq {m}
    PROVE  Contributions(t) = Contribution(t.goal[m])
<1>1. PICK f : /\ Contributions(t) = f[Len(t.goal)] /\ f[0] = 0
               /\ \A k \in 1 .. Len(t.goal) : f[k] = f[k - 1] + Contribution(t.goal[k])
  BY ContributionsAreSums
<1>2. /\ Len(t.goal) \in Nat /\ m \in 1 .. Len(t.goal) /\ Contribution(t.goal[m]) \in Nat
      /\ \A k \in 1 .. Len(t.goal) : k # m => Contribution(t.goal[k]) = 0
  <2>1. Len(t.goal) \in Nat /\ DOMAIN t.goal = 1 .. Len(t.goal)
    BY TableFields
  <2>2. t.goal[m] \in GoalRow
    BY Rows
  <2>3. Contribution(t.goal[m]) \in Nat
    BY <2>2 DEF GoalRow, Contribution
  <2>4. ASSUME NEW k \in DOMAIN t.goal, k # m PROVE Contribution(t.goal[k]) = 0
    BY <2>4 DEF Contribution, ActiveGoals
  <2> QED BY <2>1, <2>3, <2>4
<1> DEFINE S == {k \in 0 .. Len(t.goal) : f[k] # IF k < m THEN 0 ELSE Contribution(t.goal[m])}
<1> SUFFICES ASSUME S # {} PROVE FALSE
  <2> SUFFICES ASSUME S = {} PROVE Contributions(t) = Contribution(t.goal[m])
    OBVIOUS
  <2>1. Len(t.goal) \in 0 .. Len(t.goal) /\ ~(Len(t.goal) < m)
    BY <1>2
  <2>2. f[Len(t.goal)] = IF Len(t.goal) < m THEN 0 ELSE Contribution(t.goal[m])
    BY <2>1
  <2> QED BY <1>1, <2>1, <2>2
<1>0. S \in SUBSET Nat
  BY <1>2
<1>3. PICK k \in S : \A i \in S : k <= i
  BY ONLY <1>0, S # {}, First
<1>4. k \in 1 .. Len(t.goal) /\ k - 1 \in 0 .. Len(t.goal) /\ k - 1 \notin S
  BY <1>1, <1>2, <1>3
<1>5. f[k - 1] = IF k - 1 < m THEN 0 ELSE Contribution(t.goal[m])
  BY <1>4
<1>6. f[k] = f[k - 1] + Contribution(t.goal[k]) /\ k \in Nat /\ m \in Nat
  BY <1>1, <1>2, <1>4
<1>7. f[k] # IF k < m THEN 0 ELSE Contribution(t.goal[m])
  BY <1>3
<1> HIDE DEF S
<1>8. CASE k < m
  <2>1. f[k - 1] = 0 /\ Contribution(t.goal[k]) = 0
    BY <1>2, <1>4, <1>5, <1>6, <1>8
  <2> QED BY <2>1, <1>6, <1>7, <1>8
<1>9. CASE k = m
  BY <1>2, <1>5, <1>6, <1>7, <1>9
<1>10. CASE m < k
  <2>1. f[k - 1] = Contribution(t.goal[m]) /\ Contribution(t.goal[k]) = 0
    BY <1>2, <1>4, <1>5, <1>6, <1>10
  <2> QED BY <2>1, <1>2, <1>6, <1>7, <1>10
<1> QED BY <1>6, <1>8, <1>9, <1>10

LEMMA ContributionOfNone ==
    ASSUME NEW t \in TableSet, ActiveGoals(t) = {}
    PROVE  Contributions(t) = 0
<1>1. CASE Len(t.goal) = 0
  BY <1>1, ContributionsAreSums
<1>2. CASE Len(t.goal) # 0
  <2>1. DOMAIN t.goal = 1 .. Len(t.goal) /\ Len(t.goal) \in Nat
    BY TableFields
  <2>2. 1 \in DOMAIN t.goal
    BY <2>1, <1>2
  <2> QED BY <2>2, ContributionOfOne DEF ActiveGoals, Contribution
<1> QED BY <1>1, <1>2

LEMMA SameContributions ==
    ASSUME NEW t, NEW n, n.goal = t.goal
    PROVE  Contributions(n) = Contributions(t)
BY DEF Contributions

PlanHolds(t) == t.planned = Contributions(t)

LEMMA Refreshed ==
    ASSUME NEW t \in TableSet, NEW n, n = RefreshSavingsPlanAggregate(t)
    PROVE  n \in TableSet /\ Only(n, t, {"planned"}) /\ PlanHolds(n)
<1>1. n \in TableSet /\ Only(n, t, {"planned"}) /\ n.planned = Contributions(t) /\ n.goal = t.goal
  BY ContributionsType DEF RefreshSavingsPlanAggregate, TableSet, Only, Fields
<1> QED BY <1>1, SameContributions DEF PlanHolds

------------------------------------------------------------------------------
(* Goals.                                                                  *)

LEMMA NoneIsNobody ==
    /\ None \notin Account /\ None \notin Roles /\ None \notin Nat
    /\ New \notin Account /\ New \notin Nat /\ None # New
BY LedgerAssumption

\* An account whose role and goals are as before.
LEMMA SameRole ==
    ASSUME NEW t, NEW n, NEW a \in Account, RoleHolds(t, a),
           n.account[a] = t.account[a], n.own[a] = t.own[a],
           n.asked \subseteq t.asked, KeptIn(n, a) => KeptIn(t, a),
           ClaimedBy(n, a) = ClaimedBy(t, a),
           \A g \in ClaimedBy(t, a) : n.goal[g].prior = t.goal[g].prior
    PROVE  RoleHolds(n, a)
BY DEF RoleHolds, Claimed

LEMMA SyncLegacyHolds ==
    ASSUME NEW t \in TableSet, RolesHold(t), NEW amount \in Nat,
           NEW n, n = SyncLegacySavingsInput(t, amount)
    PROVE  /\ n \in TableSet /\ Only(n, t, {"ok", "goal"})
           /\ n.ok => RolesHold(n) /\ Contributions(n) = amount
<1> DEFINE general == IF General(t) = {} THEN {} ELSE {Min(General(t))}
           legacy == [dest |-> None, status |-> "active", amount |-> amount, prior |-> None, general |-> TRUE]
           changed == [g \in DOMAIN t.goal |-> IF g \in general THEN [t.goal[g] EXCEPT !.amount = amount] ELSE t.goal[g]]
<1>1. n = IF Contributions(t) = amount THEN t
          ELSE IF ActiveGoals(t) # general THEN Demand(t, FALSE)
          ELSE IF general # {} THEN [t EXCEPT !.goal = changed]
          ELSE IF amount = 0 THEN t
          ELSE [t EXCEPT !.goal = Append(@, legacy)]
  BY DEF SyncLegacySavingsInput
<1>2. general = {} \/ \E m : general = {m}
  OBVIOUS
<1> HIDE DEF general
<1>3. DOMAIN t.goal = 1 .. Len(t.goal) /\ Len(t.goal) \in Nat /\ t.goal \in Seq(GoalRow)
      /\ \A g \in DOMAIN t.goal : t.goal[g] \in GoalRow
  BY TableFields, Rows
<1>4. CASE Contributions(t) = amount
  BY <1>1, <1>4 DEF Only, Fields
<1>5. CASE Contributions(t) # amount /\ ActiveGoals(t) # general
  <2>1. n = [t EXCEPT !.ok = @ /\ FALSE]
    BY <1>1, <1>5 DEF Demand
  <2>2. n \in TableSet /\ Only(n, t, {"ok"}) /\ n.ok = FALSE
    BY <2>1 DEF TableSet, Only, Fields
  <2> QED BY <2>2 DEF Only, Fields
<1>6. CASE Contributions(t) # amount /\ ActiveGoals(t) = general /\ general # {}
  <2>1. PICK m : general = {m}
    BY <1>2, <1>6
  <2>2. m \in DOMAIN t.goal /\ t.goal[m].status = "active"
    BY <1>6, <2>1 DEF ActiveGoals
  <2>3. n = [t EXCEPT !.goal = changed]
    BY <1>1, <1>6
  <2>4. changed \in [1 .. Len(t.goal) -> GoalRow]
    BY <1>3 DEF GoalRow
  <2>5. changed \in Seq(GoalRow) /\ DOMAIN changed = DOMAIN t.goal
    BY <1>3, <2>4, MappedRows
  <2>6. \A g \in DOMAIN t.goal :
          /\ changed[g].status = t.goal[g].status /\ changed[g].dest = t.goal[g].dest
          /\ changed[g].prior = t.goal[g].prior /\ (g = m => changed[g].amount = amount)
    BY <1>3, <2>1 DEF GoalRow
  <2> HIDE DEF changed
  <2>7. n \in TableSet /\ Only(n, t, {"goal"}) /\ n.goal = changed
    BY <2>3, <2>5 DEF TableSet, Only, Fields
  <2>8. ActiveGoals(n) = {m} /\ Contribution(n.goal[m]) = amount
    BY <1>6, <2>1, <2>2, <2>5, <2>6, <2>7 DEF ActiveGoals, Contribution
  <2>9. Contributions(n) = amount
    BY <2>2, <2>5, <2>7, <2>8, ContributionOfOne
  <2>10. RolesHold(n)
    <3> SUFFICES ASSUME NEW a \in Account PROVE RoleHolds(n, a)
      BY DEF RolesHold
    <3>1. ClaimedBy(n, a) = ClaimedBy(t, a)
      BY <2>5, <2>6, <2>7 DEF ClaimedBy
    <3>2. \A g \in ClaimedBy(t, a) : n.goal[g].prior = t.goal[g].prior
      BY <2>6, <2>7 DEF ClaimedBy
    <3>3. n.account = t.account /\ n.own = t.own /\ n.asked = t.asked /\ n.connection = t.connection
          /\ n.overtaken = t.overtaken
      BY <2>7 DEF Only, Fields
    <3> QED BY <3>1, <3>2, <3>3, SameRole DEF RolesHold, KeptIn
  <2> QED BY <2>7, <2>9, <2>10 DEF Only, Fields
<1>7. CASE Contributions(t) # amount /\ ActiveGoals(t) = general /\ general = {} /\ amount = 0
  <2>1. Contributions(t) = 0
    BY <1>7, ContributionOfNone
  <2> QED BY <2>1, <1>7
<1>8. CASE Contributions(t) # amount /\ ActiveGoals(t) = general /\ general = {} /\ amount # 0
  <2> DEFINE m == Len(t.goal) + 1
             longer == Append(t.goal, legacy)
  <2>1. n = [t EXCEPT !.goal = longer]
    BY <1>1, <1>8
  <2>2. legacy \in GoalRow
    BY DEF GoalRow
  <2>3. /\ longer \in Seq(GoalRow) /\ DOMAIN longer = DOMAIN t.goal \cup {m} /\ m \notin DOMAIN t.goal
        /\ longer[m] = legacy /\ \A g \in DOMAIN t.goal : longer[g] = t.goal[g]
    BY <1>3, <2>2, AppendedRow
  <2> HIDE DEF longer, m
  <2>4. n \in TableSet /\ Only(n, t, {"goal"}) /\ n.goal = longer
    BY <2>1, <2>3 DEF TableSet, Only, Fields
  <2>5. ActiveGoals(n) = {m} /\ Contribution(n.goal[m]) = amount
    BY <1>8, <2>3, <2>4 DEF ActiveGoals, Contribution
  <2>6. Contributions(n) = amount
    BY <2>3, <2>4, <2>5, ContributionOfOne
  <2>7. RolesHold(n)
    <3> SUFFICES ASSUME NEW a \in Account PROVE RoleHolds(n, a)
      BY DEF RolesHold
    <3>1. ClaimedBy(n, a) = ClaimedBy(t, a)
      BY <2>3, <2>4, NoneIsNobody DEF ClaimedBy
    <3>2. \A g \in ClaimedBy(t, a) : n.goal[g].prior = t.goal[g].prior
      BY <2>3, <2>4 DEF ClaimedBy
    <3>3. n.account = t.account /\ n.own = t.own /\ n.asked = t.asked /\ n.connection = t.connection
          /\ n.overtaken = t.overtaken
      BY <2>4 DEF Only, Fields
    <3> QED BY <3>1, <3>2, <3>3, SameRole DEF RolesHold, KeptIn
  <2> QED BY <2>4, <2>6, <2>7 DEF Only, Fields
<1> QED BY <1>4, <1>5, <1>6, <1>7, <1>8

LEMMA ProtectFields ==
    ASSUME NEW t \in TableSet, NEW a \in Account \cup {None}, NEW n, n = ProtectSavingsDestination(t, a)
    PROVE  /\ n \in TableSet /\ Only(n, t, {"asked", "account"}) /\ n.asked \subseteq t.asked
           /\ \A b \in Account : n.account[b] = [t.account[b] EXCEPT !.role = IF b = a THEN "protected" ELSE @]
<1>1. \A b \in Account : t.account[b] \in AccountRow
  BY Rows
<1>2. CASE a = None \/ t.account[a].role = "protected"
  <2>1. n = t
    BY <1>2 DEF ProtectSavingsDestination
  <2> QED BY <1>1, <1>2, <2>1, NoneIsNobody DEF Only, Fields, AccountRow
<1>3. CASE ~(a = None \/ t.account[a].role = "protected")
  <2>1. n = Assigned(t, {a}, "protected") /\ "protected" \in Roles
    BY <1>3 DEF ProtectSavingsDestination, Roles
  <2> QED BY <2>1, AssignedFields
<1> QED BY <1>2, <1>3

LEMMA RestoreFields ==
    ASSUME NEW t \in TableSet, NEW a \in Account \cup {None}, NEW prior \in Roles \cup {None},
           NEW n, n = RestoreSavingsDestination(t, a, prior)
    PROVE  /\ n \in TableSet /\ Only(n, t, {"asked", "account"}) /\ n.asked \subseteq t.asked
           /\ \A b \in Account : n.account[b] =
                [t.account[b] EXCEPT !.role = IF b # a \/ @ # "protected" THEN @
                                              ELSE IF prior = None THEN "excluded" ELSE prior]
<1>1. \A b \in Account : t.account[b] \in AccountRow
  BY Rows
<1>2. CASE a = None \/ t.account[a].role # "protected"
  <2>1. n = t
    BY <1>2 DEF RestoreSavingsDestination
  <2> QED BY <1>1, <1>2, <2>1, NoneIsNobody DEF Only, Fields, AccountRow
<1>3. CASE ~(a = None \/ t.account[a].role # "protected")
  <2> DEFINE role == IF prior = None THEN "excluded" ELSE prior
  <2>1. n = Assigned(t, {a}, role) /\ role \in Roles
    BY <1>3 DEF RestoreSavingsDestination, Roles
  <2> HIDE DEF role
  <2>2. /\ n \in TableSet /\ Only(n, t, {"asked", "account"}) /\ n.asked \subseteq t.asked
        /\ \A b \in Account : n.account[b] = [t.account[b] EXCEPT !.role = IF b \in {a} THEN role ELSE @]
    BY <2>1, AssignedFields
  <2>3. t.account[a].role = "protected"
    BY <1>3
  <2> QED BY <1>1, <2>2, <2>3 DEF role, AccountRow
<1> QED BY <1>2, <1>3

------------------------------------------------------------------------------
(* What every transaction keeps.                                           *)

DepositsHold(t) ==
  t.connection = "healthy" => \A s \in DOMAIN t.income :
    t.income[s].status # "archived" /\ t.income[s].dest # None => t.account[t.income[s].dest].state = "open"

LinkHolds(t, d) ==
  /\ t.debt[d].link \in (DOMAIN t.bill) \cup {None}
  /\ t.debt[d].managed => /\ t.debt[d].link # None
                          /\ t.bill[t.debt[d].link].made \/ ~t.bill[t.debt[d].link].active
Pays(t, d, b) == t.debt[d].link = b /\ t.debt[d].managed /\ t.debt[d].status \notin Untracked
PaymentsHold(t) ==
  /\ \A d \in DOMAIN t.debt : LinkHolds(t, d)
  /\ \A b \in DOMAIN t.bill : t.bill[b].made /\ t.bill[b].active => \E d \in DOMAIN t.debt : Pays(t, d, b)

Named(t, b, k) == t.bill[b].active /\ t.bill[b].starter = k /\ ~t.bill[b].renamed
StartersHold(t) ==
  /\ \A i \in DOMAIN t.application : t.application[i].items \subseteq DOMAIN t.bill
  /\ \A b, c \in DOMAIN t.bill :
       t.bill[b].starter # None /\ Named(t, b, t.bill[b].starter) /\ Named(t, c, t.bill[b].starter) => b = c

Holds(t) ==
  t \in TableSet /\ RolesHold(t) /\ PlanHolds(t) /\ DepositsHold(t) /\ PaymentsHold(t) /\ StartersHold(t)

LEMMA TablesAre ==
    /\ Tables.ok = TRUE /\ Tables.connection = connection /\ Tables.account = account /\ Tables.goal = goal
    /\ Tables.planned = planned /\ Tables.income = income /\ Tables.bill = bill /\ Tables.debt = debt
    /\ Tables.application = application /\ Tables.asked = asked /\ Tables.own = own
    /\ Tables.overtaken = overtaken
BY DEF Tables

LEMMA InvHolds ==
    ASSUME LedgerInv
    PROVE  Holds(Tables) /\ world \in Worlds
<1> USE TablesAre DEF LedgerInv, AccountsAreInOrder, BillsHaveAReason
<1>1. TypeOK
  BY DEF AccountsAreInOrder
<1>2. Tables \in TableSet
  <2> DEFINE S == [items : SUBSET DOMAIN bill, undone : BOOLEAN]
  <2>1. application \in Seq(S) /\ DOMAIN bill \subseteq Nat
    BY <1>1 DEF TypeOK
  <2>2. \A i \in DOMAIN application : application[i] \in S
    BY <2>1, RowType
  <2>3. \A i \in DOMAIN application : application[i] \in Application
    BY <2>1, <2>2 DEF Application
  <2>4. application \in Seq(Application)
    BY <2>1, <2>3, RetypedRows
  <2> QED BY <1>1, <2>4 DEF TypeOK, Tables, TableSet, Inclusion
<1>3. RolesHold(Tables)
  BY DEF AccountsAreInOrder, RolesAreReturned, GoalsAreAlone, AbsentIsExcluded, RolesHold, RoleHolds, KeptIn, Kept
<1>4. PlanHolds(Tables) /\ DepositsHold(Tables)
  BY DEF AccountsAreInOrder, PlannedIsContributed, PlanHolds, DepositsHold, IncomeHasAccount
<1>5. PaymentsHold(Tables)
  BY <1>1 DEF TypeOK, BillsHaveAReason, PaymentGoesWithDebt, ManagedIsMade, PaymentsHold, Pays, LinkHolds
<1>6. StartersHold(Tables)
  <2> DEFINE S == [items : SUBSET DOMAIN bill, undone : BOOLEAN]
  <2>0. application \in Seq(S)
    BY <1>1 DEF TypeOK
  <2>1. \A i \in DOMAIN application : application[i] \in S
    BY <2>0, RowType
  <2> QED BY <2>1 DEF BillsHaveAReason, NoTwinBills, StartersHold, Named
<1>7. world \in Worlds
  BY <1>1 DEF TypeOK
<1> QED BY <1>2, <1>3, <1>4, <1>5, <1>6, <1>7 DEF Holds

LEMMA Committed ==
    ASSUME world \in Worlds, NEW n, Holds(n), Commit(n)
    PROVE  LedgerInv'
<1>1. /\ connection' = n.connection /\ account' = n.account /\ goal' = n.goal /\ planned' = n.planned
      /\ income' = n.income /\ bill' = n.bill /\ debt' = n.debt /\ application' = n.application
      /\ asked' = n.asked /\ own' = n.own /\ overtaken' = n.overtaken /\ world' = world
  BY DEF Commit
<1>2. /\ n \in TableSet /\ RolesHold(n) /\ PlanHolds(n) /\ DepositsHold(n) /\ PaymentsHold(n) /\ StartersHold(n)
  BY DEF Holds
<1>3. /\ Tables'.goal = n.goal
      /\ \A a : ClaimedBy(Tables, a)' = ClaimedBy(n, a) /\ (Claimed(Tables, a)' <=> Claimed(n, a))
  BY <1>1 DEF Tables, ClaimedBy, Claimed
<1>4. TypeOK'
  <2>1. application' \in Seq([items : SUBSET DOMAIN bill, undone : BOOLEAN])'
    <3> DEFINE S == [items : SUBSET DOMAIN n.bill, undone : BOOLEAN]
    <3>1. \A i \in DOMAIN n.application : n.application[i] \in S
      BY <1>2, Rows DEF StartersHold, Application
    <3>2. n.application \in Seq(Application)
      BY <1>2, TableFields
    <3>4. n.application \in Seq(S)
      BY <3>1, <3>2, RetypedRows
    <3> QED BY <1>1, <3>4
  <2>2. /\ n.connection \in {"healthy", "revocation_pending", "revoked"} /\ n.account \in [Account -> AccountRow]
        /\ n.own \in [Account -> Roles] /\ n.goal \in Seq(GoalRow) /\ n.planned \in Nat
        /\ n.income \in Seq(IncomeRow) /\ n.bill \in Seq(BillRow) /\ n.debt \in Seq(DebtRow)
        /\ n.asked \in SUBSET Inclusion /\ n.overtaken \in SUBSET Account
    BY <1>2, TableFields
  <2>3. \A d \in DOMAIN n.debt : /\ n.debt[d].link \in (DOMAIN n.bill) \cup {None}
                                 /\ n.debt[d].managed => n.debt[d].link # None
    BY <1>2 DEF PaymentsHold, LinkHolds
  <2> QED BY <1>1, <2>1, <2>2, <2>3 DEF TypeOK, Inclusion
<1>5. RolesAreReturned' /\ GoalsAreAlone' /\ AbsentIsExcluded'
  BY <1>1, <1>2, <1>3 DEF RolesAreReturned, GoalsAreAlone, AbsentIsExcluded, RolesHold, RoleHolds, KeptIn, Kept
<1>6. IncomeHasAccount'
  BY <1>1, <1>2 DEF IncomeHasAccount, DepositsHold
<1>7. PlannedIsContributed'
  <2>1. Contributions(Tables') = Contributions(n)
    BY <1>3, SameContributions
  <2> QED BY <1>1, <1>2, <2>1 DEF PlannedIsContributed, PlanHolds
<1>8. PaymentGoesWithDebt' /\ ManagedIsMade'
  BY <1>1, <1>2 DEF PaymentGoesWithDebt, ManagedIsMade, PaymentsHold, Pays, LinkHolds
<1>9. NoTwinBills'
  BY <1>1, <1>2 DEF NoTwinBills, StartersHold, Named
<1> QED BY <1>4, <1>5, <1>6, <1>7, <1>8, <1>9 DEF LedgerInv, AccountsAreInOrder, BillsHaveAReason

\* A transaction leaves alone what it does not touch.
LEMMA SamePlan ==
    ASSUME NEW t, PlanHolds(t), NEW n, n.goal = t.goal, n.planned = t.planned
    PROVE  PlanHolds(n)
BY SameContributions DEF PlanHolds

LEMMA SameBills ==
    ASSUME NEW t, PaymentsHold(t), StartersHold(t),
           NEW n, n.bill = t.bill, n.debt = t.debt, n.application = t.application
    PROVE  PaymentsHold(n) /\ StartersHold(n)
BY DEF PaymentsHold, StartersHold, LinkHolds, Pays, Named

\* An account that was open still is, and the bank is not connected again.
LEMMA SameDeposits ==
    ASSUME NEW t \in TableSet, DepositsHold(t), NEW n, n.income = t.income, n.connection = t.connection,
           \A a \in Account : t.account[a].state = "open" => n.account[a].state = "open"
    PROVE  DepositsHold(n)
<1>1. \A s \in DOMAIN t.income : t.income[s].dest \in Account \cup {None}
  BY Rows DEF IncomeRow
<1> QED BY <1>1 DEF DepositsHold

------------------------------------------------------------------------------
(* Commands on accounts and goals.                                         *)

\* Nothing but accounts, goals and the reserve is touched.
LEMMA GoalsTouched ==
    ASSUME NEW t, Holds(t), NEW n \in TableSet, RolesHold(n), PlanHolds(n),
           n.connection = t.connection, n.income = t.income, n.bill = t.bill, n.debt = t.debt,
           n.application = t.application,
           \A a \in Account : t.account[a].state = "open" => n.account[a].state = "open"
    PROVE  Holds(n) /\ n.debt = t.debt
<1>1. t \in TableSet /\ DepositsHold(t) /\ PaymentsHold(t) /\ StartersHold(t)
  BY DEF Holds
<1>2. DepositsHold(n)
  BY <1>1, SameDeposits
<1>3. PaymentsHold(n) /\ StartersHold(n)
  BY <1>1, SameBills
<1> QED BY <1>2, <1>3 DEF Holds

LEMMA DestinationIs ==
    ASSUME NEW t \in TableSet, NEW a \in Account, NEW others, Destination(t, a, others)
    PROVE  t.account[a].state = "open" /\ ClaimedBy(t, a) \subseteq others
BY NoneIsNobody DEF Destination, Open

LEMMA AddSavingsGoalHolds ==
    ASSUME Holds(Tables), NEW dest \in Account \cup {None}, NEW amount \in Nat, NEW general \in BOOLEAN,
           AddSavingsGoal(dest, amount, general)
    PROVE  \E n : Holds(n) /\ Commit(n) /\ n.debt = Tables.debt
<1> DEFINE t == Tables
           row == [dest |-> dest, status |-> "active", amount |-> amount,
                   prior |-> RoleOf(Tables, dest), general |-> general]
           m == Len(t.goal) + 1
           longer == Append(t.goal, row)
           u == [t EXCEPT !.goal = longer]
           p == ProtectSavingsDestination(u, dest)
           n == RefreshSavingsPlanAggregate(p)
<1>1. Commit(n) /\ Destination(t, dest, {})
  BY DEF AddSavingsGoal
<1> HIDE DEF t
<1>2. t \in TableSet /\ RolesHold(t) /\ Holds(t)
  BY DEF t, Holds
<1>3. t.goal \in Seq(GoalRow) /\ t.goal = t.goal /\ \A a \in Account : t.account[a] \in AccountRow
  BY <1>2, TableFields, Rows
<1>4. row \in GoalRow
  <2>1. RoleOf(Tables, dest) \in Roles \cup {None}
    BY <1>3 DEF RoleOf, t, AccountRow
  <2> QED BY <2>1 DEF GoalRow
<1>5. row.dest = dest /\ row.status = "active" /\ (dest # None => row.prior = t.account[dest].role)
  BY DEF RoleOf, t
<1> HIDE DEF row
<1>6. /\ longer \in Seq(GoalRow) /\ DOMAIN longer = DOMAIN t.goal \cup {m} /\ m \notin DOMAIN t.goal
      /\ longer[m] = row /\ \A g \in DOMAIN t.goal : longer[g] = t.goal[g]
  BY <1>3, <1>4, AppendedRow
<1> HIDE DEF longer, m
<1>7. u \in TableSet /\ Only(u, t, {"goal"}) /\ u.goal = longer
  BY <1>2, <1>6 DEF TableSet, Only, Fields
<1> HIDE DEF u
<1>8. /\ p \in TableSet /\ Only(p, u, {"asked", "account"}) /\ p.asked \subseteq u.asked
      /\ \A b \in Account : p.account[b] = [u.account[b] EXCEPT !.role = IF b = dest THEN "protected" ELSE @]
  BY <1>7, ProtectFields
<1> HIDE DEF p
<1>9. n \in TableSet /\ Only(n, p, {"planned"}) /\ PlanHolds(n)
  BY <1>8, Refreshed
<1> HIDE DEF n
<1>10. /\ n.connection = t.connection /\ n.income = t.income /\ n.bill = t.bill /\ n.debt = t.debt
       /\ n.application = t.application /\ n.own = t.own /\ n.overtaken = t.overtaken
       /\ n.asked \subseteq t.asked /\ n.goal = longer
       /\ \A b \in Account : n.account[b] = [t.account[b] EXCEPT !.role = IF b = dest THEN "protected" ELSE @]
  BY <1>7, <1>8, <1>9 DEF Only, Fields
<1>11. \A b \in Account : n.account[b].state = t.account[b].state
                          /\ n.account[b].role = IF b = dest THEN "protected" ELSE t.account[b].role
  BY <1>3, <1>10 DEF AccountRow
<1>12. RolesHold(n)
  <2> SUFFICES ASSUME NEW a \in Account PROVE RoleHolds(n, a)
    BY DEF RolesHold
  <2>1. RoleHolds(t, a)
    BY <1>2 DEF RolesHold
  <2>2. KeptIn(n, a) <=> KeptIn(t, a)
    BY <1>10 DEF KeptIn
  <2>3. CASE a # dest
    <3>1. ClaimedBy(n, a) = ClaimedBy(t, a)
      BY <1>5, <1>6, <1>10, <2>3 DEF ClaimedBy
    <3>2. \A g \in ClaimedBy(t, a) : n.goal[g].prior = t.goal[g].prior
      BY <1>6, <1>10 DEF ClaimedBy
    <3>3. n.account[a] = t.account[a]
      BY <1>3, <1>10, <2>3 DEF AccountRow
    <3> QED BY <1>10, <2>1, <2>2, <3>1, <3>2, <3>3, SameRole
  <2>4. CASE a = dest
    <3>1. t.account[a].state = "open" /\ ClaimedBy(t, a) = {}
      BY <1>1, <1>2, <2>4, DestinationIs
    <3>2. ClaimedBy(n, a) = {m}
      BY <1>5, <1>6, <1>10, <2>4, <3>1 DEF ClaimedBy
    <3>3. n.goal[m].prior = t.account[a].role
      BY <1>5, <1>6, <1>10, <2>4, NoneIsNobody
    <3>4. KeptIn(t, a) => t.account[a].role = t.own[a]
      BY <2>1, <3>1 DEF RoleHolds, Claimed
    <3> QED BY <1>10, <1>11, <2>2, <2>4, <3>1, <3>2, <3>3, <3>4 DEF RoleHolds, Claimed
  <2> QED BY <2>3, <2>4
<1>13. Holds(n) /\ n.debt = t.debt
  BY <1>2, <1>9, <1>10, <1>11, <1>12, GoalsTouched
<1> QED BY <1>1, <1>13 DEF t

LEMMA AddTrackedGoalHolds ==
    ASSUME Holds(Tables), NEW amount \in Nat, AddTrackedGoal(amount), world \in Worlds
    PROVE  \E n : Holds(n) /\ Commit(n) /\ n.debt = Tables.debt
<1> DEFINE t == Tables
           m == Len(t.goal) + 1
<1>1. PICK a \in world.accounts \cap Manual :
         /\ account[a].state = "absent"
         /\ LET row == [dest |-> a, status |-> "active", amount |-> amount,
                        prior |-> "excluded", general |-> FALSE]
            IN  Commit(RefreshSavingsPlanAggregate(
                  [Opened(Tables, a, "protected") EXCEPT !.goal = Append(@, row)]))
  BY DEF AddTrackedGoal
<1> DEFINE row == [dest |-> a, status |-> "active", amount |-> amount, prior |-> "excluded", general |-> FALSE]
           longer == Append(t.goal, row)
           o == [t EXCEPT !.account[a] = [state |-> "open", role |-> "protected"]]
           u == [o EXCEPT !.goal = Append(o.goal, row)]
           n == RefreshSavingsPlanAggregate(u)
<1>2. Commit(n) /\ t.account[a].state = "absent" /\ a \in Account
  <2>1. a \in Account
    BY DEF Manual
  <2> QED BY <1>1, <2>1, TablesAre DEF Opened
<1> HIDE DEF t
<1>3. t \in TableSet /\ RolesHold(t) /\ Holds(t)
  BY DEF t, Holds
<1>4. t.goal \in Seq(GoalRow) /\ t.account \in [Account -> AccountRow]
  BY <1>3, TableFields
<1>5. row \in GoalRow /\ row.dest = a /\ row.status = "active" /\ row.prior = "excluded"
  BY <1>2 DEF GoalRow, Roles
<1> HIDE DEF row
<1>6. /\ longer \in Seq(GoalRow) /\ DOMAIN longer = DOMAIN t.goal \cup {m} /\ m \notin DOMAIN t.goal
      /\ longer[m] = row /\ \A g \in DOMAIN t.goal : longer[g] = t.goal[g]
  BY <1>4, <1>5, AppendedRow
<1> HIDE DEF m
<1>7. [t.account EXCEPT ![a] = [state |-> "open", role |-> "protected"]] \in [Account -> AccountRow]
  BY <1>4 DEF AccountRow, Roles
<1>8. o \in TableSet /\ Only(o, t, {"account"}) /\ o.goal = t.goal
      /\ o.account = [t.account EXCEPT ![a] = [state |-> "open", role |-> "protected"]]
  BY <1>3, <1>7 DEF TableSet, Only, Fields
<1>9. u = [o EXCEPT !.goal = longer]
  BY <1>8
<1> HIDE DEF o, longer
<1>10. u \in TableSet /\ Only(u, o, {"goal"}) /\ u.goal = longer
  BY <1>6, <1>8, <1>9 DEF TableSet, Only, Fields
<1> HIDE DEF u
<1>11. n \in TableSet /\ Only(n, u, {"planned"}) /\ PlanHolds(n)
  BY <1>10, Refreshed
<1> HIDE DEF n
<1>12. /\ n.connection = t.connection /\ n.income = t.income /\ n.bill = t.bill /\ n.debt = t.debt
       /\ n.application = t.application /\ n.own = t.own /\ n.overtaken = t.overtaken
       /\ n.asked = t.asked /\ n.goal = longer
       /\ n.account = [t.account EXCEPT ![a] = [state |-> "open", role |-> "protected"]]
  BY <1>8, <1>10, <1>11 DEF Only, Fields
<1>13. RolesHold(n)
  <2> SUFFICES ASSUME NEW b \in Account PROVE RoleHolds(n, b)
    BY DEF RolesHold
  <2>1. RoleHolds(t, b)
    BY <1>3 DEF RolesHold
  <2>2. KeptIn(n, b) <=> KeptIn(t, b)
    BY <1>12 DEF KeptIn
  <2>3. CASE b # a
    <3>1. ClaimedBy(n, b) = ClaimedBy(t, b)
      BY <1>5, <1>6, <1>12, <2>3 DEF ClaimedBy
    <3>2. \A g \in ClaimedBy(t, b) : n.goal[g].prior = t.goal[g].prior
      BY <1>6, <1>12 DEF ClaimedBy
    <3>3. n.account[b] = t.account[b]
      BY <1>4, <1>12, <2>3
    <3> QED BY <1>12, <2>1, <2>2, <3>1, <3>2, <3>3, SameRole
  <2>4. CASE b = a
    <3>1. ClaimedBy(t, b) = {} /\ t.account[b].role = "excluded" /\ (KeptIn(t, b) => t.own[b] = "excluded")
      BY <1>2, <2>1, <2>4 DEF RoleHolds, Claimed
    <3>2. ClaimedBy(n, b) = {m}
      BY <1>5, <1>6, <1>12, <2>4, <3>1 DEF ClaimedBy
    <3>3. n.goal[m].prior = "excluded"
      BY <1>5, <1>6, <1>12
    <3>4. n.account[b].state = "open" /\ n.account[b].role = "protected"
      BY <1>4, <1>12, <2>4
    <3> QED BY <1>12, <2>2, <3>1, <3>2, <3>3, <3>4 DEF RoleHolds, Claimed
  <2> QED BY <2>3, <2>4
<1>14. \A b \in Account : t.account[b].state = "open" => n.account[b].state = "open"
  BY <1>4, <1>12
<1>15. Holds(n) /\ n.debt = t.debt
  BY <1>3, <1>11, <1>12, <1>13, <1>14, GoalsTouched
<1> QED BY <1>2, <1>15 DEF t

LEMMA UpdateSavingsGoalHolds ==
    ASSUME Holds(Tables), NEW g \in DOMAIN goal, NEW request \in GoalRow, UpdateSavingsGoal(g, request)
    PROVE  \E n : Holds(n) /\ Commit(n) /\ n.debt = Tables.debt
<1> DEFINE t == Tables
           current == t.goal[g]
           c == current.dest
           d == request.dest
           row == [request EXCEPT !.prior = IF c # d THEN RoleOf(Tables, d) ELSE current.prior]
           rows == [t.goal EXCEPT ![g] = row]
           saved == [t EXCEPT !.goal[g] = row]
           released == c # d \/ request.status = "archived"
           restored == IF released THEN RestoreSavingsDestination(saved, c, current.prior) ELSE saved
           p == IF request.status = "archived" THEN restored ELSE ProtectSavingsDestination(restored, d)
           n == RefreshSavingsPlanAggregate(p)
<1>1. /\ current.status # "archived" /\ Destination(t, d, {g}) /\ Commit(n) /\ g \in DOMAIN t.goal
  BY TablesAre DEF UpdateSavingsGoal
<1>2. d # None => RoleOf(Tables, d) = t.account[d].role
  BY DEF RoleOf
<1>3. RoleOf(Tables, d) \in Roles \cup {None}
  <2>1. Tables \in TableSet /\ (d # None => d \in Account)
    BY DEF Holds, GoalRow
  <2> QED BY <2>1, Rows DEF RoleOf, AccountRow
<1> HIDE DEF t
<1>4. t \in TableSet /\ RolesHold(t) /\ Holds(t)
  BY DEF t, Holds
<1>5. /\ t.goal \in Seq(GoalRow) /\ DOMAIN t.goal = 1 .. Len(t.goal) /\ Len(t.goal) \in Nat
      /\ \A a \in Account : t.account[a] \in AccountRow
      /\ \A i \in DOMAIN t.goal : t.goal[i] \in GoalRow
      /\ current \in GoalRow
  BY <1>1, <1>4, TableFields, Rows
<1>6. c \in Account \cup {None} /\ d \in Account \cup {None} /\ current.prior \in Roles \cup {None}
  BY <1>5 DEF GoalRow
<1>7. /\ row \in GoalRow /\ row.dest = d /\ row.status = request.status
      /\ row.prior = IF c # d THEN RoleOf(Tables, d) ELSE current.prior
  BY <1>3, <1>6 DEF GoalRow
<1> HIDE DEF row
<1>8. rows \in Seq(GoalRow) /\ DOMAIN rows = DOMAIN t.goal /\ \A i \in DOMAIN t.goal : rows[i] = IF i = g THEN row ELSE t.goal[i]
  BY <1>1, <1>5, <1>7
<1>9. saved = [t EXCEPT !.goal = rows]
  BY <1>4 DEF TableSet
<1> HIDE DEF saved, rows
<1>10. saved \in TableSet /\ Only(saved, t, {"goal"}) /\ saved.goal = rows
  BY <1>4, <1>8, <1>9 DEF TableSet, Only, Fields
<1>11. saved.account = t.account
  BY <1>10 DEF Only, Fields
<1> DEFINE Back(a) == released /\ a = c /\ t.account[a].role = "protected"
           given == IF current.prior = None THEN "excluded" ELSE current.prior
<1>12. /\ restored \in TableSet /\ Only(restored, t, {"goal", "asked", "account"}) /\ restored.asked \subseteq t.asked
       /\ restored.goal = rows
       /\ \A a \in Account : restored.account[a] = [t.account[a] EXCEPT !.role = IF Back(a) THEN given ELSE @]
  <2>1. CASE released
    <3>1. restored = RestoreSavingsDestination(saved, c, current.prior)
      BY <2>1
    <3> HIDE DEF restored, current, c
    <3>2. /\ restored \in TableSet /\ Only(restored, saved, {"asked", "account"})
          /\ restored.asked \subseteq saved.asked
          /\ \A a \in Account : restored.account[a] =
                [saved.account[a] EXCEPT !.role = IF a # c \/ @ # "protected" THEN @ ELSE given]
      BY <1>6, <1>10, <3>1, RestoreFields
    <3>3. \A a \in Account : restored.account[a] = [t.account[a] EXCEPT !.role = IF Back(a) THEN given ELSE @]
      BY <1>5, <1>11, <2>1, <3>2 DEF AccountRow
    <3> QED BY <1>10, <3>2, <3>3 DEF Only, Fields
  <2>2. CASE ~released
    <3>1. restored = saved
      BY <2>2
    <3> HIDE DEF restored
    <3>2. \A a \in Account : restored.account[a] = [t.account[a] EXCEPT !.role = IF Back(a) THEN given ELSE @]
      BY <1>5, <1>11, <2>2, <3>1 DEF AccountRow
    <3> QED BY <1>10, <3>1, <3>2 DEF Only, Fields
  <2> QED BY <2>1, <2>2
<1> HIDE DEF restored, given
<1> DEFINE Role(a) == IF request.status # "archived" /\ a = d THEN "protected"
                      ELSE IF Back(a) THEN given ELSE t.account[a].role
<1>13. /\ p \in TableSet /\ Only(p, t, {"goal", "asked", "account"}) /\ p.asked \subseteq t.asked /\ p.goal = rows
       /\ \A a \in Account : p.account[a].role = Role(a) /\ p.account[a].state = t.account[a].state
  <2>0. \A a \in Account : restored.account[a].role = (IF Back(a) THEN given ELSE t.account[a].role)
                           /\ restored.account[a].state = t.account[a].state
    BY <1>5, <1>12 DEF AccountRow
  <2>1. CASE request.status = "archived"
    <3>1. p = restored
      BY <2>1
    <3> QED BY <1>12, <2>0, <2>1, <3>1
  <2>2. CASE request.status # "archived"
    <3>1. p = ProtectSavingsDestination(restored, d)
      BY <2>2
    <3> HIDE DEF p
    <3>2. /\ p \in TableSet /\ Only(p, restored, {"asked", "account"}) /\ p.asked \subseteq restored.asked
          /\ \A a \in Account : p.account[a] = [restored.account[a] EXCEPT !.role = IF a = d THEN "protected" ELSE @]
      BY <1>6, <1>12, <3>1, ProtectFields
    <3>3. \A a \in Account : restored.account[a] \in AccountRow
      BY <1>12, Rows
    <3>4. \A a \in Account : p.account[a].role = (IF a = d THEN "protected" ELSE restored.account[a].role)
                             /\ p.account[a].state = restored.account[a].state
      <4> SUFFICES ASSUME NEW a \in Account
                   PROVE  /\ p.account[a].role = (IF a = d THEN "protected" ELSE restored.account[a].role)
                          /\ p.account[a].state = restored.account[a].state
        OBVIOUS
      <4> HIDE DEF Role, Back, released
      <4>1. p.account[a] = [restored.account[a] EXCEPT !.role = IF a = d THEN "protected" ELSE restored.account[a].role]
        BY <3>2
      <4>2. restored.account[a] \in AccountRow
        BY <3>3
      <4> QED BY <4>1, <4>2 DEF AccountRow
    <3>5. \A a \in Account : p.account[a].role = Role(a) /\ p.account[a].state = t.account[a].state
      BY <2>0, <2>2, <3>4
    <3> QED BY <1>12, <3>2, <3>5 DEF Only, Fields
  <2> QED BY <2>1, <2>2
<1> HIDE DEF p
<1>14. n \in TableSet /\ Only(n, p, {"planned"}) /\ PlanHolds(n)
  BY <1>13, Refreshed
<1> HIDE DEF n
<1>15. /\ n.connection = t.connection /\ n.income = t.income /\ n.bill = t.bill /\ n.debt = t.debt
       /\ n.application = t.application /\ n.own = t.own /\ n.overtaken = t.overtaken
       /\ n.asked \subseteq t.asked /\ n.goal = rows
       /\ \A a \in Account : n.account[a].role = Role(a) /\ n.account[a].state = t.account[a].state
  BY <1>13, <1>14 DEF Only, Fields
<1>16. RolesHold(n)
  <2> SUFFICES ASSUME NEW a \in Account PROVE RoleHolds(n, a)
    BY DEF RolesHold
  <2>1. RoleHolds(t, a)
    BY <1>4 DEF RolesHold
  <2>2. KeptIn(n, a) <=> KeptIn(t, a)
    BY <1>15 DEF KeptIn
  <2>3. (g \in ClaimedBy(t, a) <=> a = c) /\ \A h \in ClaimedBy(t, a) \ {g} : h \in ClaimedBy(n, a) /\ n.goal[h] = t.goal[h]
    BY <1>1, <1>8, <1>15 DEF ClaimedBy
  <2>4. ClaimedBy(n, a) \subseteq ClaimedBy(t, a) \cup {g}
        /\ (g \in ClaimedBy(n, a) <=> a = d /\ request.status # "archived")
    BY <1>1, <1>7, <1>8, <1>15 DEF ClaimedBy
  <2>5. n.goal[g] = row
    BY <1>1, <1>8, <1>15
  <2>6. /\ KeptIn(t, a) => t.account[a].role = IF ClaimedBy(t, a) # {} THEN "protected" ELSE t.own[a]
        /\ \A i, j \in ClaimedBy(t, a) : i = j /\ (KeptIn(t, a) => t.goal[i].prior = t.own[a])
        /\ t.account[a].state = "absent" =>
             t.account[a].role = "excluded" /\ ClaimedBy(t, a) = {} /\ \A r \in t.asked : r.account # a
    BY <2>1 DEF RoleHolds, Claimed
  <2>7. n.account[a].role = Role(a) /\ n.account[a].state = t.account[a].state /\ n.own = t.own /\ n.asked \subseteq t.asked
    BY <1>15
  <2>8. t.own[a] \in Roles
    BY <1>4, Rows
  <2> SUFFICES /\ KeptIn(t, a) => Role(a) = IF ClaimedBy(n, a) # {} THEN "protected" ELSE t.own[a]
               /\ \A i, j \in ClaimedBy(n, a) : i = j /\ (KeptIn(t, a) => n.goal[i].prior = t.own[a])
               /\ t.account[a].state = "absent" => Role(a) = "excluded" /\ ClaimedBy(n, a) = {}
    BY <2>2, <2>6, <2>7 DEF RoleHolds, Claimed
  <2>9. CASE a # c /\ a # d
    <3>1. ClaimedBy(n, a) = ClaimedBy(t, a) /\ Role(a) = t.account[a].role
      BY <2>3, <2>4, <2>9
    <3>2. \A i \in ClaimedBy(n, a) : n.goal[i] = t.goal[i]
      BY <2>3, <2>9, <3>1
    <3> QED BY <2>6, <3>1, <3>2
  <2>10. CASE a = c /\ ~(a = d /\ request.status # "archived")
    <3>1. ClaimedBy(t, a) = {g}
      BY <2>3, <2>6, <2>10
    <3>2. ClaimedBy(n, a) = {}
      BY <2>4, <2>10, <3>1
    <3>3. KeptIn(t, a) => t.account[a].role = "protected" /\ current.prior = t.own[a]
      BY <2>6, <3>1
    <3>4. KeptIn(t, a) => Role(a) = t.own[a]
      BY <2>8, <2>10, <3>3, NoneIsNobody DEF given
    <3> QED BY <2>6, <3>1, <3>2, <3>4
  <2>11. CASE a = d /\ request.status # "archived"
    <3>1. t.account[a].state = "open" /\ ClaimedBy(t, a) \subseteq {g}
      BY <1>1, <1>4, <2>11, DestinationIs
    <3>2. ClaimedBy(n, a) = {g} /\ Role(a) = "protected"
      BY <2>4, <2>11, <3>1
    <3>3. KeptIn(t, a) => row.prior = t.own[a]
      <4>1. CASE c = d
        <5>1. g \in ClaimedBy(t, a) /\ row.prior = current.prior
          BY <1>7, <2>3, <2>11, <4>1
        <5> QED BY <2>6, <5>1
      <4>2. CASE c # d
        <5>1. ClaimedBy(t, a) = {} /\ row.prior = t.account[a].role
          BY <1>2, <1>7, <2>3, <2>11, <3>1, <4>2, NoneIsNobody
        <5> QED BY <2>6, <5>1
      <4> QED BY <4>1, <4>2
    <3> QED BY <2>5, <3>1, <3>2, <3>3
  <2>12. CASE a # c /\ a = d /\ request.status = "archived"
    <3>1. ClaimedBy(n, a) = ClaimedBy(t, a) /\ Role(a) = t.account[a].role
      BY <2>3, <2>4, <2>12
    <3>2. \A i \in ClaimedBy(n, a) : n.goal[i] = t.goal[i]
      BY <2>3, <2>12, <3>1
    <3> QED BY <2>6, <3>1, <3>2
  <2> QED BY <2>9, <2>10, <2>11, <2>12
<1>17. Holds(n) /\ n.debt = t.debt
  BY <1>4, <1>14, <1>15, <1>16, GoalsTouched
<1> QED BY <1>1, <1>17 DEF t

\* The number of the plan's form, saved.
LEMMA SavedPlan ==
    ASSUME NEW t, Holds(t), NEW amount \in Nat,
           NEW u, u = [SyncLegacySavingsInput(t, amount) EXCEPT !.planned = amount]
    PROVE  u \in TableSet /\ Only(u, t, {"ok", "goal", "planned"}) /\ (u.ok => Holds(u))
<1> DEFINE s == SyncLegacySavingsInput(t, amount)
<1>1. t \in TableSet /\ RolesHold(t)
  BY DEF Holds
<1>2. u = [s EXCEPT !.planned = amount]
  OBVIOUS
<1>3. s \in TableSet /\ Only(s, t, {"ok", "goal"}) /\ (s.ok => RolesHold(s) /\ Contributions(s) = amount)
  BY <1>1, SyncLegacyHolds
<1> HIDE DEF s
<1>4. u \in TableSet /\ Only(u, s, {"planned"}) /\ u.planned = amount /\ u.goal = s.goal /\ u.ok = s.ok
  BY <1>2, <1>3 DEF TableSet, Only, Fields
<1>5. ASSUME u.ok PROVE Holds(u)
  <2>1. PlanHolds(u)
    BY <1>3, <1>4, <1>5, SameContributions DEF PlanHolds
  <2>2. RolesHold(u)
    BY <1>3, <1>4, <1>5, SameRoles DEF Only, Fields
  <2> QED BY <1>3, <1>4, <2>1, <2>2, GoalsTouched DEF Only, Fields
<1> QED BY <1>3, <1>4, <1>5 DEF Only, Fields

LEMMA UpdatePlanHolds ==
    ASSUME Holds(Tables), NEW amount \in Nat, UpdatePlan(amount)
    PROVE  \E n : Holds(n) /\ Commit(n) /\ n.debt = Tables.debt
<1> DEFINE n == [SyncLegacySavingsInput(Tables, amount) EXCEPT !.planned = amount]
<1>1. Commit(n)
  BY DEF UpdatePlan
<1>2. Only(n, Tables, {"ok", "goal", "planned"}) /\ (n.ok => Holds(n))
  BY SavedPlan
<1> HIDE DEF n
<1>3. n.ok /\ n.debt = Tables.debt
  BY <1>1, <1>2 DEF Commit, Only, Fields
<1> QED BY <1>1, <1>2, <1>3

LEMMA SetAccountPlanningRoleHolds ==
    ASSUME Holds(Tables), world \in Worlds, NEW a \in Account, NEW role \in Roles, SetAccountPlanningRole(a, role)
    PROVE  \E n : Holds(n) /\ Commit(n) /\ n.debt = Tables.debt
<1> DEFINE t == Tables
           n == Chosen(t, {a}, role)
<1>1. Commit(n) /\ (role # "protected" => ~Claimed(t, a)) /\ a \in Open(t, world.accounts)
  BY DEF SetAccountPlanningRole
<1>2. t \in TableSet /\ RolesHold(t) /\ PlanHolds(t) /\ Holds(t)
  BY DEF Holds
<1> HIDE DEF t
<1>3. t.account[a].state = "open"
  BY <1>1 DEF Open
<1> HIDE DEF n
<1>4. /\ n \in TableSet /\ Only(n, t, {"asked", "account", "own"})
      /\ \A b \in Account : n.account[b] = [t.account[b] EXCEPT !.role = IF b \in {a} THEN role ELSE @]
  BY <1>2, ChosenFields DEF n
<1>5. \A b \in Account : n.account[b].state = t.account[b].state
  BY <1>2, <1>4, Rows DEF AccountRow
<1>6. RolesHold(n)
  <2>1. \A b \in {a} \cap Account : /\ t.account[b].state # "absent"
                                    /\ KeptIn(t, b) /\ Claimed(t, b) => role = "protected"
    BY <1>1, <1>3
  <2> QED BY <1>2, <2>1, ChosenHolds DEF n
<1>7. PlanHolds(n)
  BY <1>2, <1>4, SamePlan DEF Only, Fields
<1>8. Holds(n) /\ n.debt = t.debt
  BY <1>2, <1>4, <1>5, <1>6, <1>7, GoalsTouched DEF Only, Fields
<1> QED BY <1>1, <1>8 DEF t

LEMMA CheckInclusionHolds ==
    ASSUME Holds(Tables), world \in Worlds, NEW a \in Account, NEW include \in BOOLEAN, CheckInclusion(a, include)
    PROVE  \E n : Holds(n) /\ Commit(n) /\ n.debt = Tables.debt
<1> DEFINE t == Tables
           wish == [account |-> a, include |-> include]
           n == [t EXCEPT !.asked = {wish}]
<1>1. Commit(n) /\ a \in Open(t, world.accounts)
  BY DEF CheckInclusion
<1>2. t \in TableSet /\ RolesHold(t) /\ PlanHolds(t) /\ Holds(t)
  BY DEF Holds
<1> HIDE DEF t
<1>3. t.account[a].state = "open"
  BY <1>1 DEF Open
<1>4. wish \in Inclusion /\ wish.account = a
  BY DEF Inclusion
<1> HIDE DEF wish
<1>5. n \in TableSet /\ Only(n, t, {"asked"}) /\ n.asked = {wish}
  BY <1>2, <1>4 DEF TableSet, Only, Fields
<1> HIDE DEF n
<1>6. /\ n.account = t.account /\ n.goal = t.goal /\ n.own = t.own
      /\ n.connection = t.connection /\ n.overtaken = t.overtaken
  BY <1>5 DEF Only, Fields
<1>7. RolesHold(n)
  <2> SUFFICES ASSUME NEW b \in Account PROVE RoleHolds(n, b)
    BY DEF RolesHold
  <2>1. RoleHolds(t, b)
    BY <1>2 DEF RolesHold
  <2>2. (KeptIn(n, b) <=> KeptIn(t, b)) /\ ClaimedBy(n, b) = ClaimedBy(t, b)
    BY <1>6 DEF KeptIn, ClaimedBy
  <2>3. t.account[b].state = "absent" => \A r \in n.asked : r.account # b
    BY <1>3, <1>4, <1>5
  <2> QED BY <1>6, <2>1, <2>2, <2>3 DEF RoleHolds, Claimed
<1>8. PlanHolds(n)
  BY <1>2, <1>5, SamePlan DEF Only, Fields
<1>9. Holds(n) /\ n.debt = t.debt
  BY <1>2, <1>5, <1>7, <1>8, GoalsTouched DEF Only, Fields
<1> QED BY <1>1, <1>9 DEF t

\* What is said of accounts only.
AccountsMove(t, n) ==
  /\ n \in TableSet /\ RolesHold(n) /\ Only(n, t, {"ok", "asked", "account", "own", "overtaken"})
  /\ n.asked \subseteq t.asked
  /\ \A a \in Account : n.account[a].state = t.account[a].state

LEMMA AccountsMoveHolds ==
    ASSUME NEW t, Holds(t), NEW n, AccountsMove(t, n)
    PROVE  Holds(n) /\ n.debt = t.debt
<1>1. PlanHolds(t)
  BY DEF Holds
<1>2. PlanHolds(n)
  BY <1>1, SamePlan DEF AccountsMove, Only, Fields
<1> QED BY <1>2, GoalsTouched DEF AccountsMove, Only, Fields

LEMMA AccountsMoveOn ==
    ASSUME NEW t, NEW u, AccountsMove(t, u), NEW n, AccountsMove(u, n)
    PROVE  AccountsMove(t, n)
BY DEF AccountsMove, Only, Fields

LEMMA UncountedMoves ==
    ASSUME NEW t \in TableSet, RolesHold(t), NEW S, NEW n, n = Uncounted(t, S)
    PROVE  AccountsMove(t, n)
<1>1. /\ n \in TableSet /\ Only(n, t, {"asked", "account", "own"}) /\ n.asked \subseteq t.asked
      /\ \A a \in Account :
            n.account[a] = [t.account[a] EXCEPT !.role = IF a \in S /\ t.account[a].role = "spendable" THEN "excluded" ELSE @]
  BY UncountedFields
<1>2. \A a \in Account : t.account[a] \in AccountRow
  BY Rows
<1>3. \A a \in Account : n.account[a].state = t.account[a].state
  BY <1>1, <1>2 DEF AccountRow
<1>4. RolesHold(n)
  BY UncountedHolds
<1> QED BY <1>1, <1>3, <1>4 DEF AccountsMove, Only, Fields

LEMMA ChosenMoves ==
    ASSUME NEW t \in TableSet, RolesHold(t), NEW S, NEW role \in Roles, NEW n, n = Chosen(t, S, role),
           \A a \in S \cap Account : /\ t.account[a].state # "absent"
                                     /\ KeptIn(t, a) /\ Claimed(t, a) => role = "protected"
    PROVE  AccountsMove(t, n)
<1>1. /\ n \in TableSet /\ Only(n, t, {"asked", "account", "own"}) /\ n.asked \subseteq t.asked
      /\ \A a \in Account : n.account[a] = [t.account[a] EXCEPT !.role = IF a \in S THEN role ELSE @]
  BY ChosenFields
<1>2. \A a \in Account : t.account[a] \in AccountRow
  BY Rows
<1>3. \A a \in Account : n.account[a].state = t.account[a].state
  BY <1>1, <1>2 DEF AccountRow
<1>4. RolesHold(n)
  BY ChosenHolds
<1> QED BY <1>1, <1>3, <1>4 DEF AccountsMove, Only, Fields

LEMMA ApplyInclusionHolds ==
    ASSUME Holds(Tables), world \in Worlds, ApplyInclusion
    PROVE  \E n : Holds(n) /\ Commit(n) /\ n.debt = Tables.debt
<1> DEFINE t == Tables
<1>1. PICK r \in asked :
        Commit(OthersStepBack(
          Chosen([Tables EXCEPT !.overtaken = @ \cup {a \in {r.account} : Claimed(Tables, a)}],
                 {r.account}, IF r.include THEN "spendable" ELSE "excluded"), r.account, r.include))
  BY DEF ApplyInclusion
<1> DEFINE taken == {a \in {r.account} : Claimed(t, a)}
           o == [t EXCEPT !.overtaken = @ \cup taken]
           role == IF r.include THEN "spendable" ELSE "excluded"
           u == Chosen(o, {r.account}, role)
           n == OthersStepBack(u, r.account, r.include)
<1>2. Commit(n) /\ r \in t.asked
  BY <1>1, TablesAre
<1> HIDE DEF t
<1>3. t \in TableSet /\ RolesHold(t) /\ Holds(t)
  BY DEF Holds, t
<1>4. r \in Inclusion /\ r.account \in Account /\ role \in Roles
  BY <1>2, <1>3, TableFields DEF Inclusion, Roles
<1> HIDE DEF role
<1>5. o \in TableSet /\ Only(o, t, {"overtaken"}) /\ o.overtaken = t.overtaken \cup taken
  BY <1>3, <1>4 DEF TableSet, Only, Fields
<1> HIDE DEF o
<1>6. RolesHold(o)
  <2> SUFFICES ASSUME NEW a \in Account PROVE RoleHolds(o, a)
    BY DEF RolesHold
  <2>1. KeptIn(o, a) => KeptIn(t, a)
    BY <1>5 DEF KeptIn, Only, Fields
  <2>2. ClaimedBy(o, a) = ClaimedBy(t, a)
    BY <1>5 DEF ClaimedBy, Only, Fields
  <2> QED BY <1>3, <1>5, <2>1, <2>2, SameRole DEF RolesHold, Only, Fields
<1>7. AccountsMove(t, o)
  BY <1>5, <1>6 DEF AccountsMove, Only, Fields
<1>8. AccountsMove(o, u)
  <2> SUFFICES ASSUME NEW a, a = r.account
               PROVE  /\ o.account[a].state # "absent"
                      /\ KeptIn(o, a) /\ Claimed(o, a) => role = "protected"
    BY <1>4, <1>5, <1>6, ChosenMoves
  <2>1. RoleHolds(t, a)
    BY <1>3, <1>4 DEF RolesHold
  <2>2. t.account[a].state # "absent"
    BY <1>2, <2>1 DEF RoleHolds
  <2>3. Claimed(o, a) <=> Claimed(t, a)
    BY <1>5 DEF Claimed, ClaimedBy, Only, Fields
  <2>4. Claimed(t, a) => ~KeptIn(o, a)
    BY <1>5 DEF KeptIn
  <2> QED BY <1>5, <2>2, <2>3, <2>4 DEF Only, Fields
<1> HIDE DEF u
<1>9. u \in TableSet /\ RolesHold(u)
  BY <1>8 DEF AccountsMove
<1>10. AccountsMove(u, u)
  BY <1>9 DEF AccountsMove, Only, Fields
<1>11. AccountsMove(u, n)
  <2>1. CASE ~r.include
    BY <2>1, <1>10 DEF OthersStepBack
  <2>2. CASE r.include /\ r.account \in FromBank
    BY <2>2, <1>9, UncountedMoves DEF OthersStepBack
  <2>3. CASE r.include /\ r.account \notin FromBank
    <3> DEFINE v == Uncounted(u, Spendable(u, Manual \ {r.account}))
               b == Spendable(u, FromBank) = {}
    <3>1. AccountsMove(u, v)
      BY <1>9, UncountedMoves
    <3>2. n = [v EXCEPT !.ok = @ /\ b]
      BY <2>3 DEF OthersStepBack, Demand
    <3> HIDE DEF v, b, n
    <3>3. v \in TableSet /\ RolesHold(v)
      BY <3>1 DEF AccountsMove
    <3>4. n \in TableSet /\ Only(n, v, {"ok"})
      BY <3>2, <3>3 DEF TableSet, Only, Fields
    <3>5. RolesHold(n)
      BY <3>3, <3>4, SameRoles DEF Only, Fields
    <3>6. AccountsMove(v, n)
      BY <3>4, <3>5 DEF AccountsMove, Only, Fields
    <3> QED BY <3>1, <3>6, AccountsMoveOn
  <2> QED BY <2>1, <2>2, <2>3
<1> HIDE DEF n
<1>12. Holds(n) /\ n.debt = t.debt
  BY <1>3, <1>7, <1>8, <1>11, AccountsMoveOn, AccountsMoveHolds
<1> QED BY <1>2, <1>12 DEF t

LEMMA RefuseInclusionHolds ==
    ASSUME Holds(Tables), RefuseInclusion
    PROVE  \E n : Holds(n) /\ Commit(n) /\ n.debt = Tables.debt
<1> DEFINE t == Tables
           n == [t EXCEPT !.asked = {}]
<1>1. Commit(n)
  BY DEF RefuseInclusion
<1>2. t \in TableSet /\ RolesHold(t) /\ Holds(t)
  BY DEF Holds
<1> HIDE DEF t
<1>3. n \in TableSet /\ Only(n, t, {"asked"}) /\ n.asked \subseteq t.asked
  BY <1>2 DEF TableSet, Only, Fields
<1> HIDE DEF n
<1>4. RolesHold(n)
  BY <1>2, <1>3, SameRoles DEF Only, Fields
<1>5. AccountsMove(t, n)
  BY <1>3, <1>4 DEF AccountsMove, Only, Fields
<1> QED BY <1>1, <1>2, <1>5, AccountsMoveHolds DEF t

LEMMA ActivateManualModeHolds ==
    ASSUME Holds(Tables), ActivateManualMode
    PROVE  \E n : Holds(n) /\ Commit(n) /\ n.debt = Tables.debt
<1> DEFINE t == Tables
<1>1. PICK a \in ManualAccounts :
         Commit(Uncounted(
           IF account[a].role = "spendable" THEN Tables ELSE Chosen(Tables, {a}, "spendable"),
           Spendable(Tables, Account \ {a})))
  BY DEF ActivateManualMode
<1> DEFINE u == IF t.account[a].role = "spendable" THEN t ELSE Chosen(t, {a}, "spendable")
           n == Uncounted(u, Spendable(t, Account \ {a}))
<1>2. Commit(n) /\ t.account[a].state = "open" /\ t.account[a].role # "protected" /\ a \in Account
  BY <1>1, TablesAre DEF ManualAccounts, Open, Manual
<1>3. t \in TableSet /\ RolesHold(t) /\ Holds(t) /\ "spendable" \in Roles
  BY DEF Holds, Roles
<1> HIDE DEF t
<1>4. AccountsMove(t, u)
  <2>1. CASE t.account[a].role = "spendable"
    BY <1>3, <2>1 DEF AccountsMove, Only, Fields
  <2>2. CASE t.account[a].role # "spendable"
    <3> SUFFICES ASSUME NEW b, b = a
                 PROVE  /\ t.account[b].state # "absent"
                        /\ KeptIn(t, b) /\ Claimed(t, b) => "spendable" = "protected"
      BY <1>3, <2>2, ChosenMoves
    <3>1. RoleHolds(t, a)
      BY <1>2, <1>3 DEF RolesHold
    <3> QED BY <1>2, <3>1 DEF RoleHolds
  <2> QED BY <2>1, <2>2
<1> HIDE DEF u
<1>5. u \in TableSet /\ RolesHold(u)
  BY <1>4 DEF AccountsMove
<1>6. AccountsMove(u, n)
  BY <1>5, UncountedMoves
<1> HIDE DEF n
<1> QED BY <1>2, <1>3, <1>4, <1>6, AccountsMoveOn, AccountsMoveHolds DEF t

------------------------------------------------------------------------------
(* Incomes.                                                                *)

\* Nothing but incomes is touched.
LEMMA IncomesTouched ==
    ASSUME NEW t, Holds(t), NEW x \in Seq(IncomeRow), NEW n, n = [t EXCEPT !.income = x], DepositsHold(n)
    PROVE  Holds(n) /\ n.debt = t.debt
<1>1. /\ t \in TableSet /\ RolesHold(t) /\ PlanHolds(t) /\ PaymentsHold(t) /\ StartersHold(t)
  BY DEF Holds
<1>2. n \in TableSet /\ Only(n, t, {"income"})
  BY <1>1 DEF TableSet, Only, Fields
<1>3. RolesHold(n) /\ PlanHolds(n) /\ PaymentsHold(n) /\ StartersHold(n)
  BY <1>1, <1>2, SameRoles, SamePlan, SameBills DEF Only, Fields
<1> QED BY <1>2, <1>3 DEF Holds, Only, Fields

LEMMA AddIncomeScheduleHolds ==
    ASSUME Holds(Tables), NEW dest \in Account \cup {None}, NEW confirmed \in BOOLEAN,
           AddIncomeSchedule(dest, confirmed)
    PROVE  \E n : Holds(n) /\ Commit(n) /\ n.debt = Tables.debt
<1> DEFINE t == Tables
           row == [dest |-> dest, status |-> "active", confirmed |-> confirmed]
           x == Append(t.income, row)
           n == [t EXCEPT !.income = x]
<1>1. Commit(n) /\ (dest # None => t.account[dest].state = "open")
  BY DEF AddIncomeSchedule, Deposit, Open
<1>2. t \in TableSet /\ Holds(t) /\ DepositsHold(t) /\ t.income \in Seq(IncomeRow)
  BY TableFields DEF Holds
<1> HIDE DEF t
<1>3. row \in IncomeRow /\ row.dest = dest
  BY DEF IncomeRow
<1> HIDE DEF row
<1>4. /\ x \in Seq(IncomeRow) /\ DOMAIN x = DOMAIN t.income \cup {Len(t.income) + 1}
      /\ x[Len(t.income) + 1] = row /\ \A s \in DOMAIN t.income : x[s] = t.income[s]
  BY <1>2, <1>3, AppendedRow
<1> HIDE DEF x
<1>5. n.income = x /\ n.connection = t.connection /\ n.account = t.account
  BY <1>2 DEF TableSet
<1>6. DepositsHold(n)
  BY <1>1, <1>2, <1>3, <1>4, <1>5 DEF DepositsHold
<1> QED BY <1>1, <1>2, <1>4, <1>6, IncomesTouched DEF t

LEMMA UpdateIncomeScheduleHolds ==
    ASSUME Holds(Tables), NEW s \in DOMAIN income, NEW dest \in Account \cup {None},
           NEW status \in {"active", "paused", "archived"}, NEW confirmed \in BOOLEAN,
           UpdateIncomeSchedule(s, dest, status, confirmed)
    PROVE  \E n : Holds(n) /\ Commit(n) /\ n.debt = Tables.debt
<1> DEFINE t == Tables
           row == [dest |-> dest, status |-> status, confirmed |-> confirmed /\ status = "active"]
           x == [t.income EXCEPT ![s] = row]
           n == [t EXCEPT !.income[s] = row]
<1>1. Commit(n) /\ (dest # None => t.account[dest].state = "open") /\ s \in DOMAIN t.income
  BY TablesAre DEF UpdateIncomeSchedule, Deposit, Open
<1>2. t \in TableSet /\ Holds(t) /\ DepositsHold(t) /\ t.income \in Seq(IncomeRow)
  BY TableFields DEF Holds
<1> HIDE DEF t
<1>3. row \in IncomeRow /\ row.dest = dest
  BY DEF IncomeRow
<1> HIDE DEF row
<1>4. /\ x \in Seq(IncomeRow) /\ DOMAIN x = DOMAIN t.income
      /\ \A i \in DOMAIN t.income : x[i] = IF i = s THEN row ELSE t.income[i]
  BY <1>1, <1>2, <1>3
<1>5. n = [t EXCEPT !.income = x]
  BY <1>2 DEF TableSet
<1> HIDE DEF x, n
<1>6. n.income = x /\ n.connection = t.connection /\ n.account = t.account
  BY <1>2, <1>5 DEF TableSet
<1>7. DepositsHold(n)
  BY <1>1, <1>2, <1>3, <1>4, <1>6 DEF DepositsHold
<1> QED BY <1>1, <1>2, <1>4, <1>5, <1>7, IncomesTouched DEF t

------------------------------------------------------------------------------
(* Bills.                                                                  *)

\* Old bills are what they were or less.
BillGoesOn(old, new) ==
  new.active => /\ old.active /\ new.made = old.made /\ new.starter = old.starter
                /\ old.renamed => new.renamed
OldBillsGoOn(t, n) ==
  /\ DOMAIN t.bill \subseteq DOMAIN n.bill
  /\ \A b \in DOMAIN t.bill : BillGoesOn(t.bill[b], n.bill[b])
\* And new ones are not made for a debt.
BillsGoOn(t, n) ==
  /\ OldBillsGoOn(t, n)
  /\ \A b \in DOMAIN n.bill \ DOMAIN t.bill : ~n.bill[b].made \/ ~n.bill[b].active

LEMMA BillsGoOnOn ==
    ASSUME NEW t, NEW u, BillsGoOn(t, u), NEW n, BillsGoOn(u, n)
    PROVE  BillsGoOn(t, n)
BY DEF BillsGoOn, OldBillsGoOn, BillGoesOn

LEMMA PaymentsGoOn ==
    ASSUME NEW t, PaymentsHold(t), NEW n, BillsGoOn(t, n), n.debt = t.debt
    PROVE  PaymentsHold(n)
<1>1. ASSUME NEW d \in DOMAIN n.debt PROVE LinkHolds(n, d)
  BY <1>1, NoneIsNobody DEF PaymentsHold, LinkHolds, BillsGoOn, OldBillsGoOn, BillGoesOn
<1>2. ASSUME NEW b \in DOMAIN n.bill, n.bill[b].made, n.bill[b].active
      PROVE  \E d \in DOMAIN n.debt : Pays(n, d, b)
  <2>1. b \in DOMAIN t.bill /\ t.bill[b].made /\ t.bill[b].active
    BY <1>2 DEF BillsGoOn, OldBillsGoOn, BillGoesOn
  <2> QED BY <2>1 DEF PaymentsHold, Pays
<1> QED BY <1>1, <1>2 DEF PaymentsHold

\* No starter is added, and the applications are the same.
LEMMA StartersGoOn ==
    ASSUME NEW t, StartersHold(t), NEW n, OldBillsGoOn(t, n),
           \A i \in DOMAIN n.application :
             i \in DOMAIN t.application /\ n.application[i].items = t.application[i].items,
           \A b \in DOMAIN n.bill \ DOMAIN t.bill : n.bill[b].starter = None
    PROVE  StartersHold(n)
<1>1. \A i \in DOMAIN n.application : n.application[i].items \subseteq DOMAIN n.bill
  BY DEF StartersHold, OldBillsGoOn
<1>2. ASSUME NEW b \in DOMAIN n.bill, NEW c \in DOMAIN n.bill,
             n.bill[b].starter # None, Named(n, b, n.bill[b].starter), Named(n, c, n.bill[b].starter)
      PROVE  b = c
  <2>1. b \in DOMAIN t.bill /\ c \in DOMAIN t.bill
    BY <1>2 DEF Named
  <2>2. t.bill[b].starter = n.bill[b].starter /\ Named(t, b, t.bill[b].starter) /\ Named(t, c, t.bill[b].starter)
    BY <1>2, <2>1 DEF Named, OldBillsGoOn, BillGoesOn
  <2> QED BY <1>2, <2>1, <2>2 DEF StartersHold
<1> QED BY <1>1, <1>2 DEF StartersHold

\* Nothing but bills and applications is touched.
LEMMA BillsTouched ==
    ASSUME NEW t, Holds(t), NEW n \in TableSet, Only(n, t, {"bill", "application"}),
           PaymentsHold(n), StartersHold(n)
    PROVE  Holds(n) /\ n.debt = t.debt
<1>1. RolesHold(n)
  BY SameRoles DEF Holds, Only, Fields
<1>2. PlanHolds(n)
  BY SamePlan DEF Holds, Only, Fields
<1>3. DepositsHold(n)
  BY SameDeposits DEF Holds, Only, Fields
<1> QED BY <1>1, <1>2, <1>3 DEF Holds, Only, Fields

LEMMA BillType ==
    ASSUME NEW empty \in BOOLEAN, NEW monthly \in BOOLEAN, NEW made \in BOOLEAN, NEW starter \in Nat \cup {None},
           NEW row, row = Bill(empty, monthly, made, starter)
    PROVE  /\ row \in BillRow /\ row.made = made /\ row.starter = starter /\ row.active /\ ~row.settled
           /\ ~row.renamed
BY DEF Bill, BillRow

LEMMA AddCommitmentHolds ==
    ASSUME Holds(Tables), NEW monthly \in BOOLEAN, AddCommitment(monthly)
    PROVE  \E n : Holds(n) /\ Commit(n) /\ n.debt = Tables.debt
<1> DEFINE t == Tables
           row == Bill(FALSE, monthly, FALSE, None)
           x == Append(t.bill, row)
           n == [t EXCEPT !.bill = x]
<1>1. Commit(n)
  BY DEF AddCommitment
<1>2. t \in TableSet /\ Holds(t) /\ PaymentsHold(t) /\ StartersHold(t) /\ t.bill \in Seq(BillRow)
  BY TableFields DEF Holds
<1> HIDE DEF t
<1>3. row \in BillRow /\ ~row.made /\ row.starter = None
  <2>1. row = Bill(FALSE, monthly, FALSE, None)
    OBVIOUS
  <2>2. None \in Nat \cup {None}
    OBVIOUS
  <2> HIDE DEF row, x, n
  <2> QED BY <2>1, <2>2 DEF Bill, BillRow
<1> HIDE DEF row
<1>4. /\ x \in Seq(BillRow) /\ DOMAIN x = DOMAIN t.bill \cup {Len(t.bill) + 1}
      /\ x[Len(t.bill) + 1] = row /\ \A b \in DOMAIN t.bill : x[b] = t.bill[b]
  BY <1>2, <1>3, AppendedRow
<1> HIDE DEF x
<1>5. n \in TableSet /\ Only(n, t, {"bill"}) /\ n.bill = x
  BY <1>2, <1>4 DEF TableSet, Only, Fields
<1> HIDE DEF n
<1>6. BillsGoOn(t, n)
  BY <1>3, <1>4, <1>5 DEF BillsGoOn, OldBillsGoOn, BillGoesOn
<1>7. PaymentsHold(n)
  BY <1>2, <1>5, <1>6, PaymentsGoOn DEF Only, Fields
<1>8. n.application = t.application /\ \A b \in DOMAIN n.bill \ DOMAIN t.bill : n.bill[b].starter = None
  BY <1>3, <1>4, <1>5 DEF Only, Fields
<1>9. StartersHold(n)
  BY <1>2, <1>6, <1>8, StartersGoOn DEF BillsGoOn
<1> QED BY <1>1, <1>2, <1>5, <1>7, <1>9, BillsTouched DEF Only, t

LEMMA RemovedFields ==
    ASSUME NEW t \in TableSet, NEW S, NEW n, n = Removed(t, S)
    PROVE  /\ n \in TableSet /\ Only(n, t, {"bill"}) /\ DOMAIN n.bill = DOMAIN t.bill /\ Len(n.bill) = Len(t.bill)
           /\ \A b \in DOMAIN t.bill : IF b \in S THEN ~n.bill[b].active /\ ~n.bill[b].made ELSE n.bill[b] = t.bill[b]
           /\ BillsGoOn(t, n)
<1> DEFINE gone == [Bill(TRUE, FALSE, FALSE, None) EXCEPT !.active = FALSE]
           x == [b \in DOMAIN t.bill |-> IF b \in S THEN gone ELSE t.bill[b]]
<1>1. n = [t EXCEPT !.bill = x]
  BY DEF Removed
<1>2. gone \in BillRow /\ ~gone.active /\ ~gone.made
  BY DEF Bill, BillRow
<1> HIDE DEF gone
<1>3. DOMAIN t.bill = 1 .. Len(t.bill) /\ Len(t.bill) \in Nat /\ \A b \in DOMAIN t.bill : t.bill[b] \in BillRow
  BY TableFields, Rows
<1>4. x \in [1 .. Len(t.bill) -> BillRow]
  BY <1>2, <1>3
<1>5. x \in Seq(BillRow) /\ DOMAIN x = DOMAIN t.bill /\ Len(x) = Len(t.bill)
  BY <1>3, <1>4, MappedRows
<1>6. \A b \in DOMAIN t.bill : x[b] = IF b \in S THEN gone ELSE t.bill[b]
  OBVIOUS
<1> HIDE DEF x
<1>7. n \in TableSet /\ Only(n, t, {"bill"}) /\ n.bill = x
  BY <1>1, <1>5 DEF TableSet, Only, Fields
<1> QED BY <1>2, <1>5, <1>6, <1>7 DEF BillsGoOn, OldBillsGoOn, BillGoesOn

LEMMA EditedFields ==
    ASSUME NEW t \in TableSet, NEW edits, NEW n, n = Edited(t, edits),
           \A b \in DOMAIN edits : edits[b] \in [empty : BOOLEAN, monthly : BOOLEAN, renamed : BOOLEAN]
    PROVE  /\ n \in TableSet /\ Only(n, t, {"bill"}) /\ DOMAIN n.bill = DOMAIN t.bill /\ BillsGoOn(t, n)
<1> DEFINE new(b) == [Touched(t.bill[b], edits[b].renamed) EXCEPT
                        !.empty = edits[b].empty, !.monthly = edits[b].monthly, !.settled = FALSE]
           x == [b \in DOMAIN t.bill |-> IF b \in DOMAIN edits THEN new(b) ELSE t.bill[b]]
<1>1. n = [t EXCEPT !.bill = x]
  BY DEF Edited
<1>2. DOMAIN t.bill = 1 .. Len(t.bill) /\ Len(t.bill) \in Nat /\ \A b \in DOMAIN t.bill : t.bill[b] \in BillRow
  BY TableFields, Rows
<1>3. \A b \in DOMAIN t.bill \cap DOMAIN edits : new(b) \in BillRow /\ BillGoesOn(t.bill[b], new(b))
  <2> SUFFICES ASSUME NEW b \in DOMAIN t.bill, b \in DOMAIN edits
               PROVE  new(b) \in BillRow /\ BillGoesOn(t.bill[b], new(b))
    OBVIOUS
  <2> DEFINE row == t.bill[b]
             e == edits[b]
             touched == Touched(row, e.renamed)
  <2>1. row \in BillRow /\ e \in [empty : BOOLEAN, monthly : BOOLEAN, renamed : BOOLEAN]
    BY <1>2
  <2> HIDE DEF row, e
  <2>2. /\ touched \in BillRow /\ touched.active = row.active /\ touched.made = row.made
        /\ touched.starter = row.starter /\ (row.renamed => touched.renamed)
    <3> DEFINE p == row.starter # None
               q == row.renamed \/ (e.renamed /\ row.starter # None)
    <3>1. p \in BOOLEAN /\ q \in BOOLEAN /\ (row.renamed => q)
      OBVIOUS
    <3>2. touched = [row EXCEPT !.touched = p, !.renamed = q]
      BY <2>1 DEF Touched, BillRow
    <3> HIDE DEF p, q, touched
    <3> QED BY <2>1, <3>1, <3>2 DEF BillRow
  <2> HIDE DEF touched
  <2>3. LET m == [touched EXCEPT !.empty = e.empty, !.monthly = e.monthly, !.settled = FALSE]
        IN  m \in BillRow /\ BillGoesOn(row, m)
    BY <2>1, <2>2 DEF BillRow, BillGoesOn
  <2> QED BY <2>3 DEF touched, row, e
<1> HIDE DEF new
<1>4. x \in [1 .. Len(t.bill) -> BillRow]
  BY <1>2, <1>3
<1>5. x \in Seq(BillRow) /\ DOMAIN x = DOMAIN t.bill
  BY <1>2, <1>4, MappedRows
<1>6. \A b \in DOMAIN t.bill : BillGoesOn(t.bill[b], x[b])
  BY <1>3 DEF BillGoesOn
<1> HIDE DEF x
<1>7. n \in TableSet /\ Only(n, t, {"bill"}) /\ n.bill = x
  BY <1>1, <1>5 DEF TableSet, Only, Fields
<1> QED BY <1>5, <1>6, <1>7 DEF BillsGoOn, OldBillsGoOn

\* Starters are added only where none of the same name stands.
LEMMA StartedHolds ==
    ASSUME NEW t \in TableSet, PaymentsHold(t), StartersHold(t), NEW keys \in Seq(Nat), IsInjective(keys),
           NEW n, n = Started(t, keys)
    PROVE  /\ n \in TableSet /\ Only(n, t, {"ok", "bill", "application"})
           /\ n.ok => t.ok /\ PaymentsHold(n) /\ StartersHold(n)
<1>1. CASE keys = <<>>
  BY <1>1 DEF Started, Only
<1>2. CASE keys # <<>>
  <2> DEFINE free == \A i \in DOMAIN keys, b \in DOMAIN t.bill : ~Stands(t.bill[b], keys[i])
             x == [i \in DOMAIN keys |-> Bill(TRUE, TRUE, FALSE, keys[i])]
             y == t.bill \o x
             item == [items |-> Len(t.bill) + 1 .. Len(t.bill) + Len(keys), undone |-> FALSE]
             z == Append(t.application, item)
             d == [t EXCEPT !.ok = @ /\ free]
             e == [d EXCEPT !.bill = @ \o x]
  <2>1. n = [e EXCEPT !.application = Append(@, item)]
    BY <1>2 DEF Started, Demand
  <2> HIDE DEF free, item
  <2>2. /\ Len(keys) \in Nat /\ DOMAIN keys = 1 .. Len(keys) /\ \A i \in DOMAIN keys : keys[i] \in Nat
    OBVIOUS
  <2>3. \A i \in DOMAIN keys : x[i] \in BillRow /\ ~x[i].made /\ x[i].starter = keys[i] /\ ~x[i].renamed
    <3> SUFFICES ASSUME NEW i \in DOMAIN keys, NEW row, row = Bill(TRUE, TRUE, FALSE, keys[i])
                 PROVE  row \in BillRow /\ ~row.made /\ row.starter = keys[i] /\ ~row.renamed
      OBVIOUS
    <3> QED BY <2>2 DEF Bill, BillRow
  <2>4. x \in [1 .. Len(keys) -> BillRow]
    BY <2>2, <2>3
  <2>5. x \in Seq(BillRow) /\ Len(x) = Len(keys) /\ DOMAIN x = DOMAIN keys
    BY <2>2, <2>4, MappedRows
  <2>6. /\ t.bill \in Seq(BillRow) /\ Len(t.bill) \in Nat /\ DOMAIN t.bill = 1 .. Len(t.bill)
        /\ t.application \in Seq(Application) /\ t.ok \in BOOLEAN
    BY TableFields
  <2> HIDE DEF x
  <2>7. /\ y \in Seq(BillRow) /\ Len(y) = Len(t.bill) + Len(keys)
        /\ DOMAIN y = DOMAIN t.bill \cup (Len(t.bill) + 1 .. Len(t.bill) + Len(keys))
        /\ \A b \in DOMAIN t.bill : y[b] = t.bill[b]
        /\ \A b \in Len(t.bill) + 1 .. Len(t.bill) + Len(keys) :
              b \notin DOMAIN t.bill /\ b - Len(t.bill) \in DOMAIN keys /\ y[b] = x[b - Len(t.bill)]
    <3>1. /\ y \in Seq(BillRow) /\ Len(y) = Len(t.bill) + Len(x)
          /\ DOMAIN y = DOMAIN t.bill \cup (Len(t.bill) + 1 .. Len(t.bill) + Len(x))
          /\ \A b \in DOMAIN t.bill : y[b] = t.bill[b]
          /\ \A b \in Len(t.bill) + 1 .. Len(t.bill) + Len(x) :
                b \notin DOMAIN t.bill /\ b - Len(t.bill) \in DOMAIN x /\ y[b] = x[b - Len(t.bill)]
      BY <2>5, <2>6, AppendedRows
    <3> QED BY <2>5, <3>1
  <2>8. item \in Application /\ item.items = Len(t.bill) + 1 .. Len(t.bill) + Len(keys)
    BY <2>2, <2>6 DEF Application, item
  <2>9. /\ z \in Seq(Application) /\ DOMAIN z = DOMAIN t.application \cup {Len(t.application) + 1}
        /\ z[Len(t.application) + 1] = item /\ \A i \in DOMAIN t.application : z[i] = t.application[i]
    BY <2>6, <2>8, AppendedRow
  <2>10. d \in TableSet /\ Only(d, t, {"ok"}) /\ d.ok = (t.ok /\ free) /\ d.bill = t.bill
    BY DEF TableSet, Only, Fields
  <2>11. e = [d EXCEPT !.bill = y]
    BY <2>10
  <2> HIDE DEF d, e, y
  <2>12. e \in TableSet /\ Only(e, d, {"bill"}) /\ e.bill = y
    BY <2>7, <2>10, <2>11 DEF TableSet, Only, Fields
  <2>13. e.application = t.application
    BY <2>10, <2>12 DEF Only, Fields
  <2>14. n = [e EXCEPT !.application = z]
    BY <2>1, <2>13
  <2> HIDE DEF z
  <2>15. n \in TableSet /\ Only(n, e, {"application"}) /\ n.application = z
    BY <2>9, <2>12, <2>14 DEF TableSet, Only, Fields
  <2>16. /\ Only(n, t, {"ok", "bill", "application"}) /\ n.bill = y /\ n.application = z /\ n.debt = t.debt
         /\ n.ok = (t.ok /\ free)
    BY <2>10, <2>12, <2>15 DEF Only, Fields
  <2>17. n \in TableSet /\ (n.ok => t.ok)
    BY <2>6, <2>15, <2>16
  <2> SUFFICES ASSUME n.ok PROVE PaymentsHold(n) /\ StartersHold(n)
    BY <2>16, <2>17
  <2>25. free
    BY <2>6, <2>16
  <2>18. BillsGoOn(t, n)
    BY <2>3, <2>7, <2>16 DEF BillsGoOn, OldBillsGoOn, BillGoesOn
  <2>19. PaymentsHold(n)
    BY <2>16, <2>18, PaymentsGoOn
  <2>20. \A i \in DOMAIN n.application : n.application[i].items \subseteq DOMAIN n.bill
    BY <2>7, <2>8, <2>9, <2>16 DEF StartersHold
  <2> DEFINE old(b) == b \in DOMAIN t.bill
             key(b) == keys[b - Len(t.bill)]
  <2>21. ASSUME NEW b \in DOMAIN y, ~old(b)
         PROVE  b - Len(t.bill) \in DOMAIN keys /\ y[b].starter = key(b) /\ b \in Nat
    <3>1. b \in Len(t.bill) + 1 .. Len(t.bill) + Len(keys)
      BY <2>7, <2>21
    <3>2. b - Len(t.bill) \in DOMAIN keys /\ y[b] = x[b - Len(t.bill)]
      BY <2>7, <3>1
    <3> QED BY <2>2, <2>3, <2>6, <3>1, <3>2
  <2>22. ASSUME NEW b \in DOMAIN y, NEW c \in DOMAIN y, NEW k, Named(n, b, k), Named(n, c, k), old(b), ~old(c)
         PROVE  FALSE
    <3>1. c - Len(t.bill) \in DOMAIN keys /\ k = key(c)
      BY <2>16, <2>21, <2>22 DEF Named
    <3>2. t.bill[b].active /\ t.bill[b].starter = k /\ ~t.bill[b].renamed
      BY <2>7, <2>16, <2>22 DEF Named
    <3> QED BY <2>25, <2>22, <3>1, <3>2 DEF free, Stands
  <2>23. ASSUME NEW b \in DOMAIN n.bill, NEW c \in DOMAIN n.bill, n.bill[b].starter # None,
                Named(n, b, n.bill[b].starter), Named(n, c, n.bill[b].starter)
         PROVE  b = c
    <3>1. CASE old(b) /\ old(c)
      <4>1. n.bill[b] = t.bill[b] /\ n.bill[c] = t.bill[c]
        BY <2>7, <2>16, <3>1
      <4> QED BY <2>23, <3>1, <4>1 DEF StartersHold, Named
    <3>2. CASE ~old(b) /\ ~old(c)
      <4>1. keys[b - Len(t.bill)] = keys[c - Len(t.bill)]
        BY <2>16, <2>21, <2>23, <3>2 DEF Named
      <4>2. b - Len(t.bill) = c - Len(t.bill) /\ b \in Nat /\ c \in Nat
        BY <2>16, <2>21, <3>2, <4>1 DEF IsInjective
      <4> QED BY <2>6, <4>2
    <3> QED BY <2>16, <2>22, <2>23, <3>1, <3>2
  <2>24. StartersHold(n)
    BY <2>20, <2>23 DEF StartersHold
  <2> QED BY <2>19, <2>24
<1> QED BY <1>1, <1>2

LEMMA CalibratePlanHolds ==
    ASSUME Holds(Tables), NEW amount \in Nat, NEW edits, NEW removals, NEW keys \in Seq(Nat), IsInjective(keys),
           \A b \in DOMAIN edits : edits[b] \in [empty : BOOLEAN, monthly : BOOLEAN, renamed : BOOLEAN],
           CalibratePlan(amount, edits, removals, keys)
    PROVE  \E n : Holds(n) /\ Commit(n) /\ n.debt = Tables.debt
<1> DEFINE t == Tables
           u == [SyncLegacySavingsInput(t, amount) EXCEPT !.planned = amount]
           e == Edited(u, edits)
           s == Started(e, keys)
           n == Removed(s, removals)
<1>1. Commit(n)
  BY DEF CalibratePlan
<1> HIDE DEF t
<1>2. Holds(t)
  BY DEF t
<1> HIDE DEF n, s, e, u
<1>3. u \in TableSet /\ Only(u, t, {"ok", "goal", "planned"}) /\ (u.ok => Holds(u))
  BY <1>2, SavedPlan DEF u
<1>4. u.bill = t.bill /\ u.debt = t.debt /\ u.application = t.application
  BY <1>3 DEF Only, Fields
<1>7. PaymentsHold(u) /\ StartersHold(u)
  BY <1>2, <1>4, SameBills DEF Holds
<1>8. e \in TableSet /\ Only(e, u, {"bill"}) /\ DOMAIN e.bill = DOMAIN u.bill /\ BillsGoOn(u, e)
  BY <1>3, EditedFields DEF e
<1>9. PaymentsHold(e)
  BY <1>7, <1>8, PaymentsGoOn DEF Only, Fields
<1>10. StartersHold(e)
  <2>1. e.application = u.application /\ \A b \in DOMAIN e.bill \ DOMAIN u.bill : e.bill[b].starter = None
    BY <1>8 DEF Only, Fields
  <2> QED BY <1>7, <1>8, <2>1, StartersGoOn DEF BillsGoOn
<1>11. /\ s \in TableSet /\ Only(s, e, {"ok", "bill", "application"})
       /\ s.ok => e.ok /\ PaymentsHold(s) /\ StartersHold(s)
  BY <1>8, <1>9, <1>10, StartedHolds DEF s
<1>12. n \in TableSet /\ Only(n, s, {"bill"}) /\ DOMAIN n.bill = DOMAIN s.bill /\ BillsGoOn(s, n)
  BY <1>11, RemovedFields DEF n
<1>5. s.ok
  BY <1>1, <1>12 DEF Commit, Only, Fields
<1>6. Holds(u)
  <2>1. u.ok
    BY <1>5, <1>8, <1>11 DEF Only, Fields
  <2> QED BY <1>3, <2>1
<1>13. PaymentsHold(n)
  BY <1>5, <1>11, <1>12, PaymentsGoOn DEF Only, Fields
<1>14. StartersHold(n)
  <2>1. n.application = s.application /\ \A b \in DOMAIN n.bill \ DOMAIN s.bill : n.bill[b].starter = None
    BY <1>12 DEF Only, Fields
  <2> QED BY <1>5, <1>11, <1>12, <2>1, StartersGoOn DEF BillsGoOn
<1>15. Only(n, u, {"bill", "application"})
  <2>1. n.ok /\ u.ok /\ Only(n, u, {"ok", "bill", "application"})
    BY <1>1, <1>5, <1>8, <1>11, <1>12 DEF Commit, Only, Fields
  <2>2. n.ok \in BOOLEAN /\ u.ok \in BOOLEAN
    BY <1>3, <1>12, TableFields
  <2> QED BY <2>1, <2>2 DEF Only, Fields
<1>16. Holds(n) /\ n.debt = u.debt
  BY <1>6, <1>12, <1>13, <1>14, <1>15, BillsTouched
<1> QED BY <1>1, <1>4, <1>16 DEF t

LEMMA UndoStarterApplicationHolds ==
    ASSUME Holds(Tables), NEW i \in DOMAIN application, UndoStarterApplication(i)
    PROVE  \E n : Holds(n) /\ Commit(n) /\ n.debt = Tables.debt
<1> DEFINE t == Tables
           r == Removed(t, application[i].items)
           row == [r.application[i] EXCEPT !.undone = TRUE]
           z == [r.application EXCEPT ![i] = row]
           n == [r EXCEPT !.application[i].undone = TRUE]
<1>1. Commit(n) /\ i \in DOMAIN t.application
  BY TablesAre DEF UndoStarterApplication
<1> HIDE DEF t
<1>2. t \in TableSet /\ Holds(t) /\ PaymentsHold(t) /\ StartersHold(t)
  BY DEF t, Holds
<1>3. r \in TableSet /\ Only(r, t, {"bill"}) /\ DOMAIN r.bill = DOMAIN t.bill /\ BillsGoOn(t, r)
  BY <1>2, RemovedFields
<1>4. n = [r EXCEPT !.application = z]
  BY <1>3 DEF TableSet
<1> HIDE DEF r
<1>5. r.application = t.application /\ r.application \in Seq(Application)
  BY <1>3, TableFields DEF Only, Fields
<1>6. t.application[i] \in Application
  BY <1>1, <1>2, Rows
<1>7. row \in Application /\ row.items = t.application[i].items
  BY <1>5, <1>6 DEF Application
<1> HIDE DEF row
<1>8. /\ z \in Seq(Application) /\ DOMAIN z = DOMAIN t.application
      /\ \A j \in DOMAIN t.application : z[j].items = t.application[j].items
  BY <1>1, <1>5, <1>7
<1> HIDE DEF z, n
<1>9. n \in TableSet /\ Only(n, r, {"application"}) /\ n.application = z
  BY <1>3, <1>4, <1>8 DEF TableSet, Only, Fields
<1>10. Only(n, t, {"bill", "application"}) /\ n.bill = r.bill /\ n.debt = t.debt
  BY <1>3, <1>9 DEF Only, Fields
<1>11. BillsGoOn(t, n)
  BY <1>3, <1>10 DEF BillsGoOn, OldBillsGoOn
<1>12. PaymentsHold(n)
  BY <1>2, <1>10, <1>11, PaymentsGoOn
<1>13. StartersHold(n)
  <2>1. /\ \A j \in DOMAIN n.application :
             j \in DOMAIN t.application /\ n.application[j].items = t.application[j].items
        /\ \A b \in DOMAIN n.bill \ DOMAIN t.bill : n.bill[b].starter = None
    BY <1>3, <1>8, <1>9, <1>10
  <2> QED BY <1>2, <1>11, <2>1, StartersGoOn DEF BillsGoOn
<1>14. Holds(n) /\ n.debt = t.debt
  BY <1>2, <1>9, <1>10, <1>12, <1>13, BillsTouched
<1> QED BY <1>1, <1>14 DEF t

LEMMA EvidenceSettlesHolds ==
    ASSUME Holds(Tables), NEW b \in DOMAIN bill, EvidenceSettles(b)
    PROVE  \E n : Holds(n) /\ Commit(n) /\ n.debt = Tables.debt
<1> DEFINE t == Tables
           old == t.bill[b]
           touched == Touched(old, FALSE)
           row == [touched EXCEPT !.settled = ~old.settled]
           x == [t.bill EXCEPT ![b] = row]
           n == [t EXCEPT !.bill[b] = [Touched(@, FALSE) EXCEPT !.settled = ~old.settled]]
<1>1. Commit(n) /\ b \in DOMAIN t.bill
  BY TablesAre DEF EvidenceSettles
<1> HIDE DEF t
<1>2. t \in TableSet /\ Holds(t) /\ PaymentsHold(t) /\ StartersHold(t) /\ t.bill \in Seq(BillRow)
  BY TableFields DEF t, Holds
<1>3. n = [t EXCEPT !.bill = x]
  BY <1>2 DEF TableSet
<1>4. old \in BillRow
  BY <1>1, <1>2, Rows
<1> HIDE DEF old
<1>5. /\ touched \in BillRow /\ touched.active = old.active /\ touched.made = old.made
      /\ touched.starter = old.starter /\ (old.renamed => touched.renamed)
  BY <1>4 DEF Touched, BillRow
<1> HIDE DEF touched
<1>6. row \in BillRow /\ BillGoesOn(old, row)
  BY <1>5 DEF BillRow, BillGoesOn
<1> HIDE DEF row
<1>7. /\ x \in Seq(BillRow) /\ DOMAIN x = DOMAIN t.bill
      /\ \A c \in DOMAIN t.bill : x[c] = IF c = b THEN row ELSE t.bill[c]
  BY <1>1, <1>2, <1>6
<1> HIDE DEF x, n
<1>8. n \in TableSet /\ Only(n, t, {"bill"}) /\ n.bill = x
  BY <1>2, <1>3, <1>7 DEF TableSet, Only, Fields
<1>9. BillsGoOn(t, n)
  BY <1>6, <1>7, <1>8 DEF BillsGoOn, OldBillsGoOn, BillGoesOn, old
<1>10. n.debt = t.debt /\ n.application = t.application /\ Only(n, t, {"bill", "application"})
  BY <1>8 DEF Only, Fields
<1>11. PaymentsHold(n)
  BY <1>2, <1>9, <1>10, PaymentsGoOn
<1>12. StartersHold(n)
  <2>1. \A c \in DOMAIN n.bill \ DOMAIN t.bill : n.bill[c].starter = None
    BY <1>7, <1>8
  <2> QED BY <1>2, <1>9, <1>10, <2>1, StartersGoOn DEF BillsGoOn
<1> QED BY <1>1, <1>2, <1>8, <1>10, <1>11, <1>12, BillsTouched DEF t

------------------------------------------------------------------------------
(* Debts.                                                                  *)

\* The bills the user entered stay.
UserBillsHold(t, n) == \A b \in DOMAIN t.bill : t.bill[b].active /\ ~t.bill[b].made => n.bill[b].active

\* Appended bills are typed and the old ones are what they were.
LEMMA OneMoreBill ==
    ASSUME NEW t \in TableSet, NEW row \in BillRow, NEW n, n = [t EXCEPT !.bill = Append(t.bill, row)]
    PROVE  /\ n \in TableSet /\ Only(n, t, {"bill"})
           /\ DOMAIN n.bill = DOMAIN t.bill \cup {Len(t.bill) + 1} /\ Len(t.bill) + 1 \notin DOMAIN t.bill
           /\ \A b \in DOMAIN t.bill : n.bill[b] = t.bill[b]
           /\ n.bill[Len(t.bill) + 1] = row
<1> DEFINE x == Append(t.bill, row)
<1>1. t.bill \in Seq(BillRow)
  BY TableFields
<1>2. /\ x \in Seq(BillRow) /\ DOMAIN x = DOMAIN t.bill \cup {Len(t.bill) + 1} /\ Len(t.bill) + 1 \notin DOMAIN t.bill
      /\ \A b \in DOMAIN t.bill : x[b] = t.bill[b]
      /\ x[Len(t.bill) + 1] = row
  BY <1>1, AppendedRow
<1> HIDE DEF x
<1>3. n = [t EXCEPT !.bill = x]
  BY DEF x
<1>4. n \in TableSet /\ Only(n, t, {"bill"}) /\ n.bill = x
  BY <1>2, <1>3 DEF TableSet, Only, Fields
<1> QED BY <1>2, <1>4

DebtLinkHolds(t, d) ==
  /\ d.link \in (DOMAIN t.bill) \cup {None} /\ d.managed \in BOOLEAN
  /\ d.managed => d.link # None /\ (t.bill[d.link].made \/ ~t.bill[d.link].active)

\* The payment a debt is left with is a bill, and the bill made for it goes
\* unless it stays its payment.
ResolvedHolds(t, d, status, r) ==
  LET m == r.tables
  IN  /\ m \in TableSet /\ Only(m, t, {"ok", "bill"}) /\ (m.ok => t.ok)
      /\ OldBillsGoOn(t, m)
      /\ r.link \in (DOMAIN m.bill) \cup {None} /\ r.managed \in BOOLEAN
      /\ r.managed => /\ r.link # None /\ status \notin Untracked
                      /\ m.bill[r.link].made \/ ~m.bill[r.link].active
      /\ \A b \in DOMAIN m.bill \ DOMAIN t.bill : m.bill[b].starter = None /\ r.managed /\ r.link = b
      /\ \A b \in DOMAIN t.bill :
           /\ m.ok /\ d.managed /\ d.link = b /\ m.bill[b].active => r.managed /\ r.link = b
           /\ t.bill[b].active /\ ~m.bill[b].active => d.managed /\ d.link = b

LEMMA DemandFields ==
    ASSUME NEW t \in TableSet, NEW c, NEW n, n = Demand(t, c)
    PROVE  n \in TableSet /\ Only(n, t, {"ok"}) /\ (n.ok => t.ok /\ c)
<1> DEFINE b == t.ok /\ c
<1>1. n = [t EXCEPT !.ok = b] /\ b \in BOOLEAN /\ (b => t.ok /\ c)
  BY DEF Demand
<1> HIDE DEF b
<1> QED BY <1>1 DEF TableSet, Only, Fields

Gone(d) == {b \in {d.link} : d.managed}

LEMMA DeactivatedFields ==
    ASSUME NEW t \in TableSet, NEW d, NEW n, n = DeactivateManagedDebtCommitment(t, d)
    PROVE  /\ n \in TableSet /\ Only(n, t, {"bill"}) /\ DOMAIN n.bill = DOMAIN t.bill
           /\ OldBillsGoOn(t, n)
           /\ \A b \in DOMAIN t.bill : IF b \in Gone(d) THEN ~n.bill[b].active ELSE n.bill[b] = t.bill[b]
<1>1. CASE d.managed
  <2>1. n = Removed(t, {d.link})
    BY <1>1 DEF DeactivateManagedDebtCommitment
  <2>2. /\ n \in TableSet /\ Only(n, t, {"bill"}) /\ DOMAIN n.bill = DOMAIN t.bill
        /\ \A b \in DOMAIN t.bill : IF b \in {d.link} THEN ~n.bill[b].active /\ ~n.bill[b].made ELSE n.bill[b] = t.bill[b]
        /\ BillsGoOn(t, n)
    BY <2>1, RemovedFields
  <2> QED BY <1>1, <2>2 DEF BillsGoOn, Gone
<1>2. CASE ~d.managed
  <2>1. n = t
    BY <1>2 DEF DeactivateManagedDebtCommitment
  <2> QED BY <1>2, <2>1 DEF Only, OldBillsGoOn, BillGoesOn, Gone
<1> QED BY <1>1, <1>2

LEMMA ResolveDebtCommitmentHolds ==
    ASSUME NEW t \in TableSet, NEW d, DebtLinkHolds(t, d), NEW status, NEW choice \in {None, New} \cup DOMAIN t.bill,
           NEW r, r = ResolveDebtCommitment(t, d, status, choice)
    PROVE  ResolvedHolds(t, d, status, r)
<1> DEFINE m == r.tables
<1>1. CASE status \in Untracked \/ choice = None
  <2>1. r = Linked(DeactivateManagedDebtCommitment(t, d), None, FALSE)
    BY <1>1 DEF ResolveDebtCommitment
  <2>2. m = DeactivateManagedDebtCommitment(t, d) /\ r.link = None /\ r.managed = FALSE
    BY <2>1 DEF Linked
  <2>3. /\ m \in TableSet /\ Only(m, t, {"bill"}) /\ DOMAIN m.bill = DOMAIN t.bill
        /\ OldBillsGoOn(t, m)
        /\ \A b \in DOMAIN t.bill : IF b \in Gone(d) THEN ~m.bill[b].active ELSE m.bill[b] = t.bill[b]
    BY <2>2, DeactivatedFields
  <2> QED BY <2>2, <2>3 DEF ResolvedHolds, Only, Fields, Gone
<1>2. CASE ~(status \in Untracked \/ choice = None) /\ choice = New
  <2> DEFINE row == Bill(FALSE, TRUE, TRUE, None)
             e == Demand(t, d.link = None)
             k == Len(t.bill) + 1
  <2>1. r = Linked([e EXCEPT !.bill = Append(@, row)], k, TRUE)
    BY <1>2 DEF ResolveDebtCommitment
  <2>2. m = [e EXCEPT !.bill = Append(e.bill, row)] /\ r.link = k /\ r.managed = TRUE
    BY <2>1 DEF Linked
  <2>3. row \in BillRow /\ row.made /\ row.starter = None
    BY DEF Bill, BillRow
  <2>4. e \in TableSet /\ Only(e, t, {"ok"}) /\ (e.ok => t.ok /\ d.link = None)
    BY DemandFields
  <2> HIDE DEF row, e, m
  <2>5. /\ m \in TableSet /\ Only(m, e, {"bill"})
        /\ DOMAIN m.bill = DOMAIN e.bill \cup {Len(e.bill) + 1} /\ Len(e.bill) + 1 \notin DOMAIN e.bill
        /\ \A b \in DOMAIN e.bill : m.bill[b] = e.bill[b]
        /\ m.bill[Len(e.bill) + 1] = row
    BY <2>2, <2>3, <2>4, OneMoreBill
  <2>6. e.bill = t.bill /\ Only(m, t, {"ok", "bill"}) /\ m.ok = e.ok
    BY <2>4, <2>5 DEF Only, Fields
  <2>7. /\ DOMAIN m.bill = DOMAIN t.bill \cup {k} /\ k \notin DOMAIN t.bill
        /\ \A b \in DOMAIN t.bill : m.bill[b] = t.bill[b]
        /\ m.bill[k] = row
    BY <2>5, <2>6
  <2>8. k # None
    BY NoneIsNobody, TableFields
  <2>9. OldBillsGoOn(t, m)
    BY <2>7 DEF OldBillsGoOn, BillGoesOn
  <2> HIDE DEF k
  <2>10. \A b \in DOMAIN t.bill : ~(m.ok /\ d.managed /\ d.link = b)
    BY <2>4, <2>6 DEF DebtLinkHolds
  <2> QED BY <1>2, <2>2, <2>3, <2>4, <2>5, <2>6, <2>7, <2>8, <2>9, <2>10 DEF ResolvedHolds, m
<1>3. CASE ~(status \in Untracked \/ choice = None) /\ choice # New /\ choice = d.link
  <2>0. choice \in DOMAIN t.bill
    BY <1>3
  <2>1. CASE ~d.managed
    <3>1. r = Linked(t, choice, d.managed)
      BY <1>3, <2>1 DEF ResolveDebtCommitment
    <3>2. m = t /\ r.link = choice /\ r.managed = d.managed
      BY <3>1 DEF Linked
    <3>3. OldBillsGoOn(t, t)
      BY DEF OldBillsGoOn, BillGoesOn
    <3> QED BY <1>3, <2>0, <2>1, <3>2, <3>3 DEF ResolvedHolds, Only, DebtLinkHolds
  <2>2. CASE d.managed
    <3> DEFINE e == Demand(t, t.bill[choice].active)
               row == [e.bill[choice] EXCEPT !.empty = FALSE]
               x == [e.bill EXCEPT ![choice] = row]
               filled == [e EXCEPT !.bill[choice].empty = FALSE]
    <3>1. r = Linked(filled, choice, d.managed)
      BY <1>3, <2>2 DEF ResolveDebtCommitment
    <3>2. m = filled /\ r.link = choice /\ r.managed = TRUE
      <4> HIDE DEF filled, e
      <4>1. d.managed = TRUE
        BY <2>2 DEF DebtLinkHolds
      <4> QED BY <3>1, <4>1 DEF Linked
    <3>3. e \in TableSet /\ Only(e, t, {"ok"}) /\ (e.ok => t.ok)
      BY DemandFields
    <3>4. m = [e EXCEPT !.bill = x]
      BY <3>2, <3>3 DEF TableSet
    <3> HIDE DEF e, m
    <3>5. e.bill = t.bill /\ e.bill \in Seq(BillRow) /\ t.bill[choice] \in BillRow
      BY <2>0, <3>3, TableFields, Rows DEF Only, Fields
    <3>6. /\ row \in BillRow /\ row.active = t.bill[choice].active /\ row.made = t.bill[choice].made
          /\ BillGoesOn(t.bill[choice], row)
      BY <3>5 DEF BillRow, BillGoesOn
    <3> HIDE DEF row
    <3>7. /\ x \in Seq(BillRow) /\ DOMAIN x = DOMAIN t.bill
          /\ \A b \in DOMAIN t.bill : x[b] = IF b = choice THEN row ELSE t.bill[b]
      BY <2>0, <3>5, <3>6
    <3> HIDE DEF x
    <3>8. m \in TableSet /\ Only(m, e, {"bill"}) /\ m.bill = x
      BY <3>3, <3>4, <3>7 DEF TableSet, Only, Fields
    <3>9. OldBillsGoOn(t, m)
      BY <3>6, <3>7, <3>8 DEF OldBillsGoOn, BillGoesOn
    <3>10. Only(m, t, {"ok", "bill"}) /\ (m.ok => t.ok)
      BY <3>3, <3>8 DEF Only, Fields
    <3>11. \A b \in DOMAIN t.bill : m.bill[b].active = t.bill[b].active /\ m.bill[b].made = t.bill[b].made
      BY <3>6, <3>7, <3>8
    <3>12. choice # None /\ (m.bill[choice].made \/ ~m.bill[choice].active)
      BY <1>3, <2>0, <2>2, <3>11 DEF DebtLinkHolds
    <3> QED BY <1>3, <2>0, <3>2, <3>7, <3>8, <3>9, <3>10, <3>11, <3>12 DEF ResolvedHolds, m
  <2> QED BY <2>1, <2>2 DEF DebtLinkHolds
<1>4. CASE ~(status \in Untracked \/ choice = None) /\ choice # New /\ choice # d.link
  <2> DEFINE c == t.bill[choice].active /\ ~t.bill[choice].settled /\ t.bill[choice].monthly /\ choice \notin PaymentsOf(t)
             e == Demand(t, c)
  <2>0. choice \in DOMAIN t.bill
    BY <1>4
  <2>1. r = Linked(DeactivateManagedDebtCommitment(e, d), choice, FALSE)
    BY <1>4 DEF ResolveDebtCommitment
  <2>2. m = DeactivateManagedDebtCommitment(e, d) /\ r.link = choice /\ r.managed = FALSE
    BY <2>1 DEF Linked
  <2> HIDE DEF c
  <2>3. e \in TableSet /\ Only(e, t, {"ok"}) /\ (e.ok => t.ok)
    BY DemandFields
  <2> HIDE DEF e, m
  <2>4. /\ m \in TableSet /\ Only(m, e, {"bill"}) /\ DOMAIN m.bill = DOMAIN e.bill
        /\ OldBillsGoOn(e, m)
        /\ \A b \in DOMAIN e.bill : IF b \in Gone(d) THEN ~m.bill[b].active ELSE m.bill[b] = e.bill[b]
    BY <2>2, <2>3, DeactivatedFields
  <2>5. e.bill = t.bill /\ Only(m, t, {"ok", "bill"}) /\ m.ok = e.ok
    BY <2>3, <2>4 DEF Only, Fields
  <2>6. OldBillsGoOn(t, m)
    BY <2>4, <2>5 DEF OldBillsGoOn
  <2> QED BY <2>0, <2>2, <2>3, <2>4, <2>5, <2>6 DEF ResolvedHolds, Gone, m
<1> QED BY <1>1, <1>2, <1>3, <1>4

\* The row i is inserted or written with the payment it is left with.
LEMMA SavedFields ==
    ASSUME NEW m \in TableSet, NEW r, r.tables = m, r.link \in Nat \cup {None}, r.managed \in BOOLEAN,
           NEW i \in DOMAIN m.debt \cup {Len(m.debt) + 1}, NEW row \in DebtRow, NEW n, n = Saved(r, i, row)
    PROVE  /\ n \in TableSet /\ Only(n, m, {"debt"}) /\ DOMAIN n.debt = DOMAIN m.debt \cup {i}
           /\ n.debt[i].account = row.account /\ n.debt[i].status = row.status
           /\ n.debt[i].link = r.link /\ (n.debt[i].managed <=> r.managed)
           /\ \A j \in DOMAIN m.debt \ {i} : n.debt[j] = m.debt[j]
<1> DEFINE new == [row EXCEPT !.link = r.link, !.managed = r.managed]
           x == [d \in DOMAIN m.debt \cup {i} |-> IF d = i THEN new ELSE m.debt[d]]
<1>2. n = [m EXCEPT !.debt = x]
  BY DEF Saved
<1>3. /\ new \in DebtRow /\ new.account = row.account /\ new.status = row.status
      /\ new.link = r.link /\ (new.managed <=> r.managed)
  <2> HIDE DEF x
  <2> QED BY DEF DebtRow
<1> HIDE DEF new
<1>4. DOMAIN m.debt = 1 .. Len(m.debt) /\ Len(m.debt) \in Nat /\ \A d \in DOMAIN m.debt : m.debt[d] \in DebtRow
  BY TableFields, Rows
<1>5. \E k \in Nat : DOMAIN m.debt \cup {i} = 1 .. k
  <2> HIDE DEF x
  <2>1. CASE i \in DOMAIN m.debt
    BY <1>4, <2>1
  <2>2. CASE i = Len(m.debt) + 1
    <3> DEFINE e == Len(m.debt) + 1
    <3>1. e \in Nat /\ DOMAIN m.debt \cup {i} = 1 .. e
      BY <1>4, <2>2
    <3> HIDE DEF e
    <3> QED BY <3>1
  <2> QED BY <2>1, <2>2
<1>6. PICK k \in Nat : DOMAIN m.debt \cup {i} = 1 .. k
  BY <1>5
<1>7. x \in [1 .. k -> DebtRow]
  BY <1>3, <1>4, <1>6
<1>8. x \in Seq(DebtRow) /\ DOMAIN x = DOMAIN m.debt \cup {i}
  BY <1>6, <1>7, MappedRows
<1>9. \A d \in DOMAIN m.debt \cup {i} : x[d] = IF d = i THEN new ELSE m.debt[d]
  OBVIOUS
<1> HIDE DEF x
<1>10. n \in TableSet /\ Only(n, m, {"debt"}) /\ n.debt = x
  BY <1>2, <1>8 DEF TableSet, Only, Fields
<1> QED BY <1>3, <1>8, <1>9, <1>10

\* A debt d, the row i or a new one, is saved as row.
IsRow(t, i, d) == IF i \in DOMAIN t.debt THEN d = t.debt[i] ELSE ~d.managed
SavedHolds(t, i, row, n) ==
  /\ n \in TableSet /\ Only(n, t, {"ok", "bill", "debt"}) /\ DOMAIN n.debt = DOMAIN t.debt \cup {i}
  /\ n.debt[i].account = row.account /\ n.debt[i].status = row.status
  /\ n.ok => PaymentsHold(n) /\ StartersHold(n) /\ UserBillsHold(t, n) /\ t.ok

LEMMA DebtSaved ==
    ASSUME NEW t \in TableSet, PaymentsHold(t), StartersHold(t),
           NEW i \in DOMAIN t.debt \cup {Len(t.debt) + 1}, NEW d \in DebtRow, DebtLinkHolds(t, d),
           IsRow(t, i, d), NEW row \in DebtRow, NEW choice \in {None, New} \cup DOMAIN t.bill,
           NEW n, n = Saved(ResolveDebtCommitment(t, d, row.status, choice), i, row)
    PROVE  SavedHolds(t, i, row, n)
<1> DEFINE r == ResolveDebtCommitment(t, d, row.status, choice)
           m == r.tables
<1>1. ResolvedHolds(t, d, row.status, r)
  BY ResolveDebtCommitmentHolds
<1>2. r.tables = m
  OBVIOUS
<1> HIDE DEF r
<1>3. /\ m \in TableSet /\ Only(m, t, {"ok", "bill"}) /\ (m.ok => t.ok)
      /\ OldBillsGoOn(t, m)
      /\ r.link \in (DOMAIN m.bill) \cup {None} /\ r.managed \in BOOLEAN
      /\ r.managed => /\ r.link # None /\ row.status \notin Untracked
                      /\ m.bill[r.link].made \/ ~m.bill[r.link].active
      /\ \A b \in DOMAIN m.bill \ DOMAIN t.bill : m.bill[b].starter = None /\ r.managed /\ r.link = b
      /\ \A b \in DOMAIN t.bill :
           /\ m.ok /\ d.managed /\ d.link = b /\ m.bill[b].active => r.managed /\ r.link = b
           /\ t.bill[b].active /\ ~m.bill[b].active => d.managed /\ d.link = b
  BY <1>1 DEF ResolvedHolds
<1> HIDE DEF m
<1>4. r.link \in Nat \cup {None} /\ m.debt = t.debt /\ m.application = t.application
  <2>1. Len(m.bill) \in Nat /\ DOMAIN m.bill = 1 .. Len(m.bill)
    BY <1>3, TableFields
  <2>2. m.debt = t.debt /\ m.application = t.application
    BY <1>3 DEF Only, Fields
  <2> QED BY <1>3, <2>1, <2>2
<1>5. /\ n \in TableSet /\ Only(n, m, {"debt"}) /\ DOMAIN n.debt = DOMAIN t.debt \cup {i}
      /\ n.debt[i].account = row.account /\ n.debt[i].status = row.status
      /\ n.debt[i].link = r.link /\ (n.debt[i].managed <=> r.managed)
      /\ \A j \in DOMAIN t.debt \ {i} : n.debt[j] = t.debt[j]
  <2>1. n = Saved(r, i, row) /\ i \in DOMAIN m.debt \cup {Len(m.debt) + 1}
    BY <1>4 DEF r
  <2>2. /\ n \in TableSet /\ Only(n, m, {"debt"}) /\ DOMAIN n.debt = DOMAIN m.debt \cup {i}
        /\ n.debt[i].account = row.account /\ n.debt[i].status = row.status
        /\ n.debt[i].link = r.link /\ (n.debt[i].managed <=> r.managed)
        /\ \A j \in DOMAIN m.debt \ {i} : n.debt[j] = m.debt[j]
    BY <1>2, <1>3, <1>4, <2>1, SavedFields
  <2> QED BY <1>4, <2>2
<1>6. /\ Only(n, t, {"ok", "bill", "debt"}) /\ n.bill = m.bill /\ n.ok = m.ok /\ n.application = t.application
  BY <1>3, <1>4, <1>5 DEF Only, Fields
<1>7. OldBillsGoOn(t, n)
  BY <1>3, <1>6 DEF OldBillsGoOn
<1>8. ASSUME n.ok PROVE PaymentsHold(n) /\ StartersHold(n) /\ UserBillsHold(t, n) /\ t.ok
  <2>1. ASSUME NEW j \in DOMAIN n.debt PROVE LinkHolds(n, j)
    <3>1. CASE j = i
      BY <1>3, <1>5, <1>6, <3>1 DEF LinkHolds
    <3>2. CASE j # i
      <4>1. j \in DOMAIN t.debt /\ n.debt[j] = t.debt[j] /\ LinkHolds(t, j)
        BY <1>5, <2>1, <3>2 DEF PaymentsHold
      <4> QED BY <1>7, <4>1, NoneIsNobody DEF LinkHolds, OldBillsGoOn, BillGoesOn
    <3> QED BY <3>1, <3>2
  <2>2. ASSUME NEW b \in DOMAIN n.bill, n.bill[b].made, n.bill[b].active
        PROVE  \E j \in DOMAIN n.debt : Pays(n, j, b)
    <3>1. CASE b \notin DOMAIN t.bill
      <4>1. r.managed /\ r.link = b /\ row.status \notin Untracked
        BY <1>3, <1>6, <2>2, <3>1
      <4> QED BY <1>5, <4>1 DEF Pays
    <3>2. CASE b \in DOMAIN t.bill
      <4>1. t.bill[b].made /\ t.bill[b].active
        BY <1>7, <2>2, <3>2 DEF OldBillsGoOn, BillGoesOn
      <4>2. PICK j \in DOMAIN t.debt : Pays(t, j, b)
        BY <3>2, <4>1 DEF PaymentsHold
      <4>3. CASE j # i
        BY <1>5, <4>2, <4>3 DEF Pays
      <4>4. CASE j = i
        <5>1. d.managed /\ d.link = b
          BY <4>2, <4>4 DEF Pays, IsRow
        <5>2. r.managed /\ r.link = b
          BY <1>3, <1>6, <1>8, <2>2, <3>2, <5>1
        <5> QED BY <1>3, <1>5, <5>2 DEF Pays
      <4> QED BY <4>3, <4>4
    <3> QED BY <3>1, <3>2
  <2>3. StartersHold(n)
    BY <1>3, <1>6, <1>7, StartersGoOn
  <2>4. UserBillsHold(t, n)
    BY <1>3, <1>6 DEF UserBillsHold, DebtLinkHolds
  <2> QED BY <1>3, <1>6, <1>8, <2>1, <2>2, <2>3, <2>4 DEF PaymentsHold
<1> QED BY <1>5, <1>6, <1>8 DEF SavedHolds

\* Nothing but bills and debts is touched.
LEMMA DebtsTouched ==
    ASSUME NEW t, Holds(t), NEW n \in TableSet, Only(n, t, {"ok", "bill", "debt"}),
           PaymentsHold(n), StartersHold(n)
    PROVE  Holds(n)
<1>1. RolesHold(n)
  BY SameRoles DEF Holds, Only, Fields
<1>2. PlanHolds(n)
  BY SamePlan DEF Holds, Only, Fields
<1>3. DepositsHold(n)
  BY SameDeposits DEF Holds, Only, Fields
<1> QED BY <1>1, <1>2, <1>3 DEF Holds

\* What the user decided: his bills stay, and a debt comes to review only
\* for an account that never had one.
Decided(t, n) ==
  /\ UserBillsHold(t, n)
  /\ \A j \in DOMAIN n.debt \ DOMAIN t.debt :
       n.debt[j].status = "needs_review" => \A d \in DOMAIN t.debt : t.debt[d].account # n.debt[j].account

LEMMA UpdateDebtHolds ==
    ASSUME Holds(Tables), NEW d \in DOMAIN debt, NEW choice \in {None, New} \cup DOMAIN bill,
           NEW status \in {"active", "paused", "closed", "archived"}, UpdateDebt(d, status, choice)
    PROVE  \E n : Holds(n) /\ Commit(n) /\ Decided(Tables, n)
<1> DEFINE t == Tables
           old == t.debt[d]
           row == [old EXCEPT !.status = status]
           n == Saved(ResolveDebtCommitment(t, old, status, choice), d, row)
<1>1. Commit(n) /\ d \in DOMAIN t.debt /\ choice \in {None, New} \cup DOMAIN t.bill
  BY TablesAre DEF UpdateDebt
<1> HIDE DEF t
<1>2. t \in TableSet /\ Holds(t) /\ PaymentsHold(t) /\ StartersHold(t)
  BY DEF t, Holds
<1>3. old \in DebtRow /\ DebtLinkHolds(t, old)
  <2>1. old \in DebtRow /\ LinkHolds(t, d)
    BY <1>1, <1>2, Rows DEF PaymentsHold
  <2> QED BY <2>1 DEF LinkHolds, DebtLinkHolds, DebtRow
<1>4. row \in DebtRow /\ row.status = status
  BY <1>3 DEF DebtRow
<1>5. n = Saved(ResolveDebtCommitment(t, old, row.status, choice), d, row) /\ old = t.debt[d]
  BY <1>4
<1> HIDE DEF n, row, old
<1>6. /\ n \in TableSet /\ Only(n, t, {"ok", "bill", "debt"}) /\ DOMAIN n.debt = DOMAIN t.debt \cup {d}
      /\ n.ok => PaymentsHold(n) /\ StartersHold(n) /\ UserBillsHold(t, n) /\ t.ok
  <2>1. d \in DOMAIN t.debt \cup {Len(t.debt) + 1} /\ IsRow(t, d, old)
    BY <1>1, <1>5 DEF IsRow
  <2>2. SavedHolds(t, d, row, n)
    BY <1>1, <1>2, <1>3, <1>4, <1>5, <2>1, DebtSaved
  <2> QED BY <2>2 DEF SavedHolds
<1>7. n.ok
  BY <1>1 DEF Commit
<1>8. Holds(n)
  BY <1>2, <1>6, <1>7, DebtsTouched
<1> QED BY <1>1, <1>6, <1>7, <1>8 DEF Decided, t

LEMMA AddDebtHolds ==
    ASSUME Holds(Tables), NEW a \in Account, NEW choice \in {None, New} \cup DOMAIN bill, AddDebt(a, choice)
    PROVE  \E n : Holds(n) /\ Commit(n) /\ Decided(Tables, n)
<1> DEFINE t == Tables
           o == IF t.account[a].state = "absent" THEN Opened(t, a, "excluded") ELSE t
           row == NewDebt(a, "active")
           i == Len(t.debt) + 1
           n == Saved(ResolveDebtCommitment(o, row, "active", choice), i, row)
<1>1. Commit(n) /\ choice \in {None, New} \cup DOMAIN t.bill
  BY TablesAre DEF AddDebt
<1> HIDE DEF t
<1>2. t \in TableSet /\ Holds(t) /\ RolesHold(t) /\ PlanHolds(t)
  BY DEF t, Holds
<1>3. row \in DebtRow /\ row.status = "active" /\ row.link = None /\ row.managed = FALSE
  BY DEF NewDebt, DebtRow
<1> HIDE DEF row
<1>4. Holds(o) /\ Only(o, t, {"account"})
  <2>1. CASE t.account[a].state # "absent"
    BY <1>2, <2>1 DEF Only
  <2>2. CASE t.account[a].state = "absent"
    <3> DEFINE x == [t.account EXCEPT ![a] = [state |-> "open", role |-> "excluded"]]
    <3>1. o = [t EXCEPT !.account = x]
      BY <1>2, <2>2 DEF Opened, TableSet
    <3>2. t.account \in [Account -> AccountRow] /\ RoleHolds(t, a)
      BY <1>2, TableFields DEF RolesHold
    <3>3. x \in [Account -> AccountRow]
      BY <3>2 DEF AccountRow, Roles
    <3>4. x[a].state = "open" /\ x[a].role = t.account[a].role /\ \A b \in Account \ {a} : x[b] = t.account[b]
      BY <2>2, <3>2 DEF RoleHolds
    <3> HIDE DEF x, o
    <3>5. o \in TableSet /\ Only(o, t, {"account"}) /\ o.account = x
      BY <1>2, <3>1, <3>3 DEF TableSet, Only, Fields
    <3>6. RolesHold(o)
      <4> SUFFICES ASSUME NEW b \in Account PROVE RoleHolds(o, b)
        BY DEF RolesHold
      <4>1. RoleHolds(t, b) /\ ClaimedBy(o, b) = ClaimedBy(t, b) /\ (KeptIn(o, b) <=> KeptIn(t, b))
        BY <1>2, <3>5 DEF RolesHold, ClaimedBy, KeptIn, Only, Fields
      <4>2. o.goal = t.goal /\ o.own = t.own /\ o.asked = t.asked
        BY <3>5 DEF Only, Fields
      <4>3. o.account[b].role = t.account[b].role /\ (o.account[b].state = "absent" => t.account[b].state = "absent")
        BY <3>4, <3>5
      <4> QED BY <4>1, <4>2, <4>3 DEF RoleHolds, Claimed
    <3>7. PlanHolds(o)
      BY <1>2, <3>5, SamePlan DEF Only, Fields
    <3>8. \A b \in Account : t.account[b].state = "open" => o.account[b].state = "open"
      BY <3>4, <3>5
    <3>9. /\ o.connection = t.connection /\ o.income = t.income /\ o.bill = t.bill /\ o.debt = t.debt
          /\ o.application = t.application
      BY <3>5 DEF Only, Fields
    <3> QED BY <1>2, <3>5, <3>6, <3>7, <3>8, <3>9, GoalsTouched
  <2> QED BY <2>1, <2>2
<1> HIDE DEF o
<1>5. o \in TableSet /\ PaymentsHold(o) /\ StartersHold(o) /\ o.debt = t.debt /\ o.bill = t.bill
  BY <1>4 DEF Holds, Only, Fields
<1>6. DebtLinkHolds(o, row)
  BY <1>3 DEF DebtLinkHolds
<1>7. i \notin DOMAIN o.debt /\ i \in DOMAIN o.debt \cup {Len(o.debt) + 1}
  BY <1>5, TableFields
<1>8. n = Saved(ResolveDebtCommitment(o, row, row.status, choice), i, row)
  BY <1>3
<1> HIDE DEF n, i
<1>9. /\ n \in TableSet /\ Only(n, o, {"ok", "bill", "debt"}) /\ DOMAIN n.debt = DOMAIN o.debt \cup {i}
      /\ n.debt[i].status = "active"
      /\ n.ok => PaymentsHold(n) /\ StartersHold(n) /\ UserBillsHold(o, n) /\ o.ok
  <2>1. IsRow(o, i, row) /\ choice \in {None, New} \cup DOMAIN o.bill
    BY <1>1, <1>3, <1>5, <1>7 DEF IsRow
  <2>2. SavedHolds(o, i, row, n)
    BY <1>3, <1>5, <1>6, <1>7, <1>8, <2>1, DebtSaved
  <2> QED BY <1>3, <2>2 DEF SavedHolds
<1>10. n.ok
  BY <1>1 DEF Commit
<1>11. Holds(n)
  BY <1>4, <1>9, <1>10, DebtsTouched
<1>12. UserBillsHold(t, n) /\ DOMAIN n.debt = DOMAIN t.debt \cup {i}
  BY <1>5, <1>9, <1>10 DEF UserBillsHold
<1> QED BY <1>1, <1>9, <1>11, <1>12 DEF Decided, t

------------------------------------------------------------------------------
(* The bank comes and goes.                                                *)

\* The goals let go of the accounts in S, and the plan of what they gave.
LEMMA DetachedGoals ==
    ASSUME NEW t \in TableSet, PlanHolds(t), NEW S \in SUBSET Account, NEW n, n = DetachSavingsGoals(t, S)
    PROVE  /\ n \in TableSet /\ Only(n, t, {"goal", "planned"}) /\ PlanHolds(n)
           /\ \A a \in S : ClaimedBy(n, a) = {}
           /\ \A a \in Account \ S : /\ ClaimedBy(n, a) = ClaimedBy(t, a)
                                     /\ \A g \in ClaimedBy(t, a) : n.goal[g].prior = t.goal[g].prior
<1> DEFINE held(g) == t.goal[g].status # "archived" /\ t.goal[g].dest \in S
<1>1. CASE \A g \in DOMAIN t.goal : t.goal[g].status = "archived" \/ t.goal[g].dest \notin S
  <2>1. n = t
    BY <1>1 DEF DetachSavingsGoals
  <2> QED BY <1>1, <2>1 DEF Only, ClaimedBy
<1>2. CASE ~(\A g \in DOMAIN t.goal : t.goal[g].status = "archived" \/ t.goal[g].dest \notin S)
  <2> DEFINE new(g) == [t.goal[g] EXCEPT !.dest = None, !.prior = None,
                          !.status = IF t.goal[g].status = "active" THEN "paused" ELSE @]
             x == [g \in DOMAIN t.goal |-> IF held(g) THEN new(g) ELSE t.goal[g]]
             u == [t EXCEPT !.goal = x]
  <2>1. n = RefreshSavingsPlanAggregate(u)
    BY <1>2 DEF DetachSavingsGoals
  <2>2. DOMAIN t.goal = 1 .. Len(t.goal) /\ Len(t.goal) \in Nat /\ \A g \in DOMAIN t.goal : t.goal[g] \in GoalRow
    BY TableFields, Rows
  <2>3. \A g \in DOMAIN t.goal : new(g) \in GoalRow /\ new(g).dest = None
    BY <2>2 DEF GoalRow
  <2> HIDE DEF new
  <2>4. x \in [1 .. Len(t.goal) -> GoalRow]
    BY <2>2, <2>3
  <2>5. x \in Seq(GoalRow) /\ DOMAIN x = DOMAIN t.goal
    BY <2>2, <2>4, MappedRows
  <2>6. \A g \in DOMAIN t.goal : x[g] = IF held(g) THEN new(g) ELSE t.goal[g]
    OBVIOUS
  <2> HIDE DEF x
  <2>7. u \in TableSet /\ Only(u, t, {"goal"}) /\ u.goal = x
    BY <2>5 DEF TableSet, Only, Fields
  <2> HIDE DEF u
  <2>8. n \in TableSet /\ Only(n, u, {"planned"}) /\ PlanHolds(n)
    BY <2>1, <2>7, Refreshed
  <2>9. Only(n, t, {"goal", "planned"}) /\ n.goal = x
    BY <2>7, <2>8 DEF Only, Fields
  <2>10. ASSUME NEW a \in S PROVE ClaimedBy(n, a) = {}
    BY <2>3, <2>5, <2>6, <2>9, NoneIsNobody DEF ClaimedBy
  <2>11. ASSUME NEW a \in Account \ S
         PROVE  /\ ClaimedBy(n, a) = ClaimedBy(t, a)
                /\ \A g \in ClaimedBy(t, a) : n.goal[g].prior = t.goal[g].prior
    <3>1. ClaimedBy(n, a) \subseteq ClaimedBy(t, a)
      BY <2>3, <2>5, <2>6, <2>9, <2>11, NoneIsNobody DEF ClaimedBy
    <3>2. \A g \in ClaimedBy(t, a) : g \in DOMAIN t.goal /\ n.goal[g] = t.goal[g]
      BY <2>6, <2>9, <2>11 DEF ClaimedBy
    <3>3. ClaimedBy(t, a) \subseteq ClaimedBy(n, a)
      BY <2>5, <2>9, <3>2 DEF ClaimedBy
    <3> QED BY <3>1, <3>2, <3>3
  <2> QED BY <2>8, <2>9, <2>10, <2>11
<1> QED BY <1>1, <1>2

LEMMA DetachedIncomes ==
    ASSUME NEW t \in TableSet, NEW S \in SUBSET Account, NEW n, n = DetachIncomeSchedules(t, S)
    PROVE  /\ n \in TableSet /\ Only(n, t, {"income"}) /\ DOMAIN n.income = DOMAIN t.income
           /\ \A i \in DOMAIN t.income :
                n.income[i].status # "archived" /\ n.income[i].dest # None
                  => /\ t.income[i].status # "archived" /\ n.income[i].dest = t.income[i].dest
                     /\ t.income[i].dest \notin S
<1> DEFINE held(i) == t.income[i].status # "archived" /\ t.income[i].dest \in S
           new(i) == [t.income[i] EXCEPT !.dest = None, !.confirmed = FALSE]
           x == [i \in DOMAIN t.income |-> IF held(i) THEN new(i) ELSE t.income[i]]
<1>1. n = [t EXCEPT !.income = x]
  BY DEF DetachIncomeSchedules
<1>2. /\ DOMAIN t.income = 1 .. Len(t.income) /\ Len(t.income) \in Nat
      /\ \A i \in DOMAIN t.income : t.income[i] \in IncomeRow
  BY TableFields, Rows
<1>3. \A i \in DOMAIN t.income : new(i) \in IncomeRow /\ new(i).dest = None
  BY <1>2 DEF IncomeRow
<1> HIDE DEF new
<1>4. x \in [1 .. Len(t.income) -> IncomeRow]
  BY <1>2, <1>3
<1>5. x \in Seq(IncomeRow) /\ DOMAIN x = DOMAIN t.income
  BY <1>2, <1>4, MappedRows
<1>6. \A i \in DOMAIN t.income : x[i] = IF held(i) THEN new(i) ELSE t.income[i]
  OBVIOUS
<1> HIDE DEF x
<1>7. n \in TableSet /\ Only(n, t, {"income"}) /\ n.income = x
  BY <1>1, <1>5 DEF TableSet, Only, Fields
<1> QED BY <1>3, <1>5, <1>6, <1>7

LEMMA PausedDebts ==
    ASSUME NEW t \in TableSet, PaymentsHold(t), StartersHold(t), NEW S, NEW n, n = PauseDebtTracking(t, S)
    PROVE  /\ n \in TableSet /\ Only(n, t, {"bill", "debt"}) /\ DOMAIN n.debt = DOMAIN t.debt
           /\ \A d \in DOMAIN t.debt : n.debt[d].account = t.debt[d].account
           /\ PaymentsHold(n) /\ StartersHold(n) /\ UserBillsHold(t, n)
<1> DEFINE paused == {d \in DOMAIN t.debt : t.debt[d].account \in S /\ t.debt[d].status \in {"active", "needs_review"}}
           managed == {d \in paused : t.debt[d].managed}
           links == {t.debt[d].link : d \in managed}
           new(d) == [t.debt[d] EXCEPT !.status = "paused", !.managed = FALSE,
                                       !.link = IF d \in managed THEN None ELSE @]
           x == [d \in DOMAIN t.debt |-> IF d \notin paused THEN t.debt[d] ELSE new(d)]
           m == Removed(t, links)
<1>1. /\ m \in TableSet /\ Only(m, t, {"bill"}) /\ DOMAIN m.bill = DOMAIN t.bill
      /\ \A b \in DOMAIN t.bill : IF b \in links THEN ~m.bill[b].active /\ ~m.bill[b].made ELSE m.bill[b] = t.bill[b]
      /\ BillsGoOn(t, m)
  <2> HIDE DEF links
  <2> QED BY RemovedFields
<1>2. m.debt = t.debt /\ m.application = t.application
  BY <1>1 DEF Only, Fields
<1>3. n = [m EXCEPT !.debt = x]
  BY <1>2 DEF PauseDebtTracking
<1> HIDE DEF m
<1>4. DOMAIN t.debt = 1 .. Len(t.debt) /\ Len(t.debt) \in Nat /\ \A d \in DOMAIN t.debt : t.debt[d] \in DebtRow
  BY TableFields, Rows
<1>5. \A d \in DOMAIN t.debt :
        /\ new(d) \in DebtRow /\ ~new(d).managed /\ new(d).account = t.debt[d].account
        /\ new(d).link = None \/ new(d).link = t.debt[d].link
  <2> HIDE DEF managed
  <2> QED BY <1>4 DEF DebtRow
<1> HIDE DEF new
<1>6. x \in [1 .. Len(t.debt) -> DebtRow]
  BY <1>4, <1>5
<1>7. x \in Seq(DebtRow) /\ DOMAIN x = DOMAIN t.debt
  BY <1>4, <1>6, MappedRows
<1>8. \A d \in DOMAIN t.debt : x[d] = IF d \notin paused THEN t.debt[d] ELSE new(d)
  OBVIOUS
<1> HIDE DEF x
<1>9. n \in TableSet /\ Only(n, m, {"debt"}) /\ n.debt = x
  BY <1>1, <1>3, <1>7 DEF TableSet, Only, Fields
<1>10. Only(n, t, {"bill", "debt"}) /\ n.bill = m.bill /\ n.application = t.application
  BY <1>1, <1>9 DEF Only, Fields
<1>11. \A d \in DOMAIN t.debt : n.debt[d].account = t.debt[d].account
  BY <1>5, <1>8, <1>9
<1>12. OldBillsGoOn(t, n) /\ DOMAIN n.bill = DOMAIN t.bill
  BY <1>1, <1>10 DEF BillsGoOn, OldBillsGoOn
<1>13. ASSUME NEW d \in DOMAIN n.debt PROVE LinkHolds(n, d)
  <2>1. d \in DOMAIN t.debt /\ LinkHolds(t, d)
    BY <1>7, <1>9, <1>13 DEF PaymentsHold
  <2>2. CASE d \notin paused
    <3>1. n.debt[d] = t.debt[d]
      BY <1>8, <1>9, <2>1, <2>2
    <3> QED BY <1>12, <2>1, <3>1, NoneIsNobody DEF LinkHolds, OldBillsGoOn, BillGoesOn
  <2>3. CASE d \in paused
    <3>1. n.debt[d] = new(d)
      BY <1>8, <1>9, <2>1, <2>3
    <3> QED BY <1>5, <1>12, <2>1, <3>1 DEF LinkHolds
  <2> QED BY <2>2, <2>3
<1>14. ASSUME NEW b \in DOMAIN n.bill, n.bill[b].made, n.bill[b].active
       PROVE  \E d \in DOMAIN n.debt : Pays(n, d, b)
  <2>1. b \in DOMAIN t.bill /\ b \notin links /\ t.bill[b].made /\ t.bill[b].active
    BY <1>1, <1>10, <1>14
  <2>2. PICK d \in DOMAIN t.debt : Pays(t, d, b)
    BY <2>1 DEF PaymentsHold
  <2>3. d \notin paused
    BY <2>1, <2>2 DEF Pays
  <2>4. n.debt[d] = t.debt[d]
    BY <1>8, <1>9, <2>3
  <2> QED BY <1>7, <1>9, <2>2, <2>4 DEF Pays
<1>15. UserBillsHold(t, n)
  <2> SUFFICES ASSUME NEW b \in DOMAIN t.bill, t.bill[b].active, ~t.bill[b].made PROVE n.bill[b].active
    BY DEF UserBillsHold
  <2>1. b \notin links
    BY DEF PaymentsHold, LinkHolds
  <2> HIDE DEF links
  <2> QED BY <1>1, <1>10, <2>1
<1>16. StartersHold(n)
  <2>1. \A b \in DOMAIN n.bill \ DOMAIN t.bill : n.bill[b].starter = None
    BY <1>12
  <2> QED BY <1>10, <1>12, <2>1, StartersGoOn
<1> QED BY <1>7, <1>9, <1>10, <1>11, <1>13, <1>14, <1>15, <1>16 DEF PaymentsHold

LEMMA DisconnectHolds ==
    ASSUME Holds(Tables), Disconnect
    PROVE  \E n : Holds(n) /\ Commit(n) /\ Decided(Tables, n)
<1> DEFINE t == Tables
           g == DetachSavingsGoals(t, FromBank)
           i == DetachIncomeSchedules(g, FromBank)
           p == PauseDebtTracking(i, FromBank)
           u == Uncounted(p, Open(t, FromBank))
           n == [u EXCEPT !.connection = "revocation_pending"]
<1>1. Commit(n)
  BY DEF Disconnect
<1> HIDE DEF t
<1>2. t \in TableSet /\ RolesHold(t) /\ PlanHolds(t) /\ PaymentsHold(t) /\ StartersHold(t)
  BY DEF t, Holds
<1>3. FromBank \in SUBSET Account
  BY LedgerAssumption
<1>4. /\ g \in TableSet /\ Only(g, t, {"goal", "planned"}) /\ PlanHolds(g)
      /\ \A a \in FromBank : ClaimedBy(g, a) = {}
      /\ \A a \in Account \ FromBank : /\ ClaimedBy(g, a) = ClaimedBy(t, a)
                                       /\ \A h \in ClaimedBy(t, a) : g.goal[h].prior = t.goal[h].prior
  BY <1>2, <1>3, DetachedGoals
<1> HIDE DEF g
<1>5. i \in TableSet /\ Only(i, g, {"income"})
  BY <1>3, <1>4, DetachedIncomes
<1> HIDE DEF i
<1>6. i.bill = t.bill /\ i.debt = t.debt /\ i.application = t.application
  BY <1>4, <1>5 DEF Only, Fields
<1>7. PaymentsHold(i) /\ StartersHold(i)
  BY <1>2, <1>6, SameBills
<1>8. /\ p \in TableSet /\ Only(p, i, {"bill", "debt"}) /\ DOMAIN p.debt = DOMAIN i.debt
      /\ PaymentsHold(p) /\ StartersHold(p) /\ UserBillsHold(i, p)
  BY <1>5, <1>7, PausedDebts
<1> HIDE DEF p
<1> DEFINE counted(a) == a \in Open(t, FromBank) /\ p.account[a].role = "spendable"
<1>9. /\ u \in TableSet /\ Only(u, p, {"asked", "account", "own"}) /\ u.asked \subseteq p.asked
      /\ \A a \in Account :
            /\ u.account[a] = [p.account[a] EXCEPT !.role = IF counted(a) THEN "excluded" ELSE @]
            /\ u.own[a] = IF counted(a) /\ ~Claimed(p, a) THEN "excluded" ELSE p.own[a]
  BY <1>8, UncountedFields
<1> HIDE DEF u
<1>10. n \in TableSet /\ Only(n, u, {"connection"}) /\ n.connection = "revocation_pending"
  BY <1>9 DEF TableSet, Only, Fields
<1> HIDE DEF n
<1>11. p.account = t.account /\ p.own = t.own /\ p.asked = t.asked /\ p.goal = g.goal
  BY <1>4, <1>5, <1>8 DEF Only, Fields
<1>12. /\ n.goal = g.goal /\ n.planned = g.planned /\ n.bill = p.bill /\ n.debt = p.debt
       /\ n.application = p.application /\ n.asked \subseteq t.asked /\ n.overtaken = t.overtaken
       /\ n.account = u.account /\ n.own = u.own
  BY <1>4, <1>5, <1>8, <1>9, <1>10, <1>11 DEF Only, Fields
<1>13. RolesHold(n)
  <2> SUFFICES ASSUME NEW a \in Account PROVE RoleHolds(n, a)
    BY DEF RolesHold
  <2>1. RoleHolds(t, a) /\ t.account[a] \in AccountRow
    BY <1>2, Rows DEF RolesHold
  <2>2. ClaimedBy(n, a) = ClaimedBy(g, a) /\ (Claimed(p, a) <=> ClaimedBy(g, a) # {})
    BY <1>11, <1>12 DEF ClaimedBy, Claimed
  <2>3. KeptIn(n, a) => a \notin FromBank /\ KeptIn(t, a)
    BY <1>10, <1>12 DEF KeptIn
  <2>4. /\ n.account[a].state = t.account[a].state
        /\ n.account[a].role = IF counted(a) THEN "excluded" ELSE t.account[a].role
    <3> HIDE DEF counted
    <3>1. n.account[a] = [t.account[a] EXCEPT !.role = IF counted(a) THEN "excluded" ELSE t.account[a].role]
      BY <1>9, <1>11, <1>12
    <3> QED BY <2>1, <3>1 DEF AccountRow
  <2>5. counted(a) => a \in FromBank
    BY DEF Open
  <2>6. a \notin FromBank => n.own[a] = t.own[a]
    BY <1>9, <1>11, <1>12, <2>5
  <2> HIDE DEF counted
  <2>7. CASE a \in FromBank
    <3>1. ClaimedBy(n, a) = {}
      BY <1>4, <2>2, <2>7
    <3>2. n.account[a].state = "absent" => t.account[a].state = "absent" /\ n.account[a].role = "excluded"
      BY <2>1, <2>4 DEF RoleHolds
    <3> QED BY <1>12, <2>1, <2>3, <2>7, <3>1, <3>2 DEF RoleHolds, Claimed
  <2>8. CASE a \notin FromBank
    <3>1. ClaimedBy(n, a) = ClaimedBy(t, a) /\ \A h \in ClaimedBy(t, a) : n.goal[h].prior = t.goal[h].prior
      BY <1>4, <1>12, <2>2, <2>8
    <3>2. n.account[a].role = t.account[a].role
      BY <2>4, <2>5, <2>8
    <3> QED BY <1>12, <2>1, <2>3, <2>4, <2>6, <2>8, <3>1, <3>2 DEF RoleHolds, Claimed
  <2> QED BY <2>7, <2>8
<1>14. PlanHolds(n)
  BY <1>4, <1>12, SamePlan
<1>15. PaymentsHold(n) /\ StartersHold(n)
  BY <1>8, <1>12, SameBills
<1>16. Holds(n)
  BY <1>10, <1>13, <1>14, <1>15 DEF Holds, DepositsHold
<1>17. UserBillsHold(t, n) /\ DOMAIN n.debt = DOMAIN t.debt
  BY <1>6, <1>8, <1>12 DEF UserBillsHold
<1> QED BY <1>1, <1>16, <1>17 DEF Decided, t

LEMMA FinalizeRevocationHolds ==
    ASSUME Holds(Tables), FinalizeRevocation
    PROVE  \E n : Holds(n) /\ Commit(n) /\ n.debt = Tables.debt
<1> DEFINE t == Tables
           u == Archived(t, Open(t, FromBank))
           n == [u EXCEPT !.connection = "revoked"]
<1>1. Commit(n) /\ t.connection = "revocation_pending"
  BY TablesAre DEF FinalizeRevocation
<1> HIDE DEF t
<1>2. t \in TableSet /\ RolesHold(t) /\ PlanHolds(t) /\ PaymentsHold(t) /\ StartersHold(t)
  BY DEF t, Holds
<1>3. u \in TableSet /\ Only(u, t, {"asked", "account", "own"}) /\ RolesHold(u)
  BY <1>2, ArchivedFields, ArchivedHolds
<1> HIDE DEF u
<1>4. n \in TableSet /\ Only(n, u, {"connection"}) /\ n.connection = "revoked"
  BY <1>3 DEF TableSet, Only, Fields
<1> HIDE DEF n
<1>5. /\ n.goal = u.goal /\ n.account = u.account /\ n.own = u.own /\ n.asked = u.asked
      /\ n.overtaken = u.overtaken /\ u.connection = "revocation_pending"
  BY <1>1, <1>3, <1>4 DEF Only, Fields
<1>6. /\ n.goal = t.goal /\ n.planned = t.planned /\ n.bill = t.bill /\ n.debt = t.debt
      /\ n.application = t.application
  BY <1>3, <1>4 DEF Only, Fields
<1>7. RolesHold(n)
  <2> SUFFICES ASSUME NEW a \in Account PROVE RoleHolds(n, a)
    BY DEF RolesHold
  <2>1. ClaimedBy(n, a) = ClaimedBy(u, a) /\ (KeptIn(n, a) <=> KeptIn(u, a))
    BY <1>4, <1>5 DEF ClaimedBy, KeptIn
  <2>2. RoleHolds(u, a)
    BY <1>3 DEF RolesHold
  <2> QED BY <1>5, <2>1, <2>2 DEF RoleHolds, Claimed
<1>8. PlanHolds(n) /\ PaymentsHold(n) /\ StartersHold(n)
  BY <1>2, <1>6, SamePlan, SameBills
<1>9. Holds(n)
  BY <1>4, <1>7, <1>8 DEF Holds, DepositsHold
<1> QED BY <1>1, <1>6, <1>9 DEF t

\* A debt to review has no payment yet.
ReviewedFor(t, n, k, order) ==
  /\ n \in TableSet /\ Only(n, t, {"debt"}) /\ PaymentsHold(n) /\ StartersHold(n)
  /\ DOMAIN t.debt \subseteq DOMAIN n.debt
  /\ \A d \in DOMAIN n.debt \ DOMAIN t.debt : \E j \in 1 .. k : n.debt[d].account = order[j]

LEMMA ReviewedDebts ==
    ASSUME NEW t \in TableSet, PaymentsHold(t), StartersHold(t), NEW k \in Nat, NEW order \in [1 .. k -> Account],
           NEW n, n = [t EXCEPT !.debt = @ \o [j \in DOMAIN order |-> NewDebt(order[j], "needs_review")]]
    PROVE  ReviewedFor(t, n, k, order)
<1> DEFINE x == [j \in DOMAIN order |-> NewDebt(order[j], "needs_review")]
           y == t.debt \o x
<1>1. \A j \in 1 .. k : x[j] \in DebtRow /\ x[j].account = order[j] /\ x[j].link = None /\ ~x[j].managed
  BY DEF NewDebt, DebtRow
<1>2. x \in [1 .. k -> DebtRow]
  BY <1>1
<1>3. x \in Seq(DebtRow) /\ Len(x) = k /\ DOMAIN x = 1 .. k
  BY <1>2, MappedRows
<1>4. t.debt \in Seq(DebtRow) /\ Len(t.debt) \in Nat /\ DOMAIN t.debt = 1 .. Len(t.debt)
  BY TableFields
<1> HIDE DEF x
<1>5. /\ y \in Seq(DebtRow)
      /\ DOMAIN y = DOMAIN t.debt \cup (Len(t.debt) + 1 .. Len(t.debt) + Len(x))
      /\ \A d \in DOMAIN t.debt : y[d] = t.debt[d]
      /\ \A d \in Len(t.debt) + 1 .. Len(t.debt) + Len(x) :
            d \notin DOMAIN t.debt /\ d - Len(t.debt) \in DOMAIN x /\ y[d] = x[d - Len(t.debt)]
  BY <1>3, <1>4, AppendedRows
<1>6. n = [t EXCEPT !.debt = y]
  BY DEF x
<1> HIDE DEF y
<1>7. n \in TableSet /\ Only(n, t, {"debt"}) /\ n.debt = y
  BY <1>5, <1>6 DEF TableSet, Only, Fields
<1>8. n.bill = t.bill /\ n.application = t.application
  BY <1>7 DEF Only, Fields
<1>9. ASSUME NEW d \in DOMAIN n.debt \ DOMAIN t.debt
      PROVE  \E j \in 1 .. k : n.debt[d].account = order[j] /\ n.debt[d].link = None /\ ~n.debt[d].managed
  <2>1. PICK j \in 1 .. k : y[d] = x[j]
    BY <1>3, <1>5, <1>7
  <2>2. x[j].account = order[j] /\ x[j].link = None /\ ~x[j].managed
    BY <1>1
  <2> QED BY <1>7, <2>1, <2>2
<1>10. ASSUME NEW d \in DOMAIN n.debt PROVE LinkHolds(n, d)
  <2>1. CASE d \in DOMAIN t.debt
    BY <1>5, <1>7, <1>8, <2>1 DEF PaymentsHold, LinkHolds
  <2>2. CASE d \notin DOMAIN t.debt
    <3>1. n.debt[d].link = None /\ ~n.debt[d].managed
      BY <1>9, <1>10, <2>2
    <3> QED BY <3>1 DEF LinkHolds
  <2> QED BY <2>1, <2>2
<1>11. \A b \in DOMAIN n.bill : n.bill[b].made /\ n.bill[b].active => \E d \in DOMAIN n.debt : Pays(n, d, b)
  BY <1>5, <1>7, <1>8 DEF PaymentsHold, Pays
<1>12. StartersHold(n)
  BY <1>8 DEF StartersHold, Named
<1>13. DOMAIN t.debt \subseteq DOMAIN n.debt
  BY <1>5, <1>7
<1>14. PaymentsHold(n)
  BY <1>10, <1>11 DEF PaymentsHold
<1> QED BY <1>7, <1>9, <1>12, <1>13, <1>14 DEF ReviewedFor

LEMMA SyncAccountsHolds ==
    ASSUME Holds(Tables), NEW present \in SUBSET Account, SyncAccounts(present)
    PROVE  \E n : Holds(n) /\ Commit(n) /\ Decided(Tables, n)
<1> DEFINE t == Tables
           reported == Reported(t, present)
           gone == Open(t, FromBank) \ present
<1>1. PICK order \in SetToSeqs(reported) :
        LET kept == [Present(t, present) EXCEPT
                       !.debt = @ \o [i \in DOMAIN order |-> NewDebt(order[i], "needs_review")]]
        IN  /\ connection = "healthy"
            /\ Commit(Archived(PauseDebtTracking(DetachIncomeSchedules(kept, gone), gone), gone))
  BY DEF SyncAccounts
<1> DEFINE v == Present(t, present)
           kept == [v EXCEPT !.debt = @ \o [i \in DOMAIN order |-> NewDebt(order[i], "needs_review")]]
           i == DetachIncomeSchedules(kept, gone)
           p == PauseDebtTracking(i, gone)
           n == Archived(p, gone)
<1>2. Commit(n)
  BY <1>1
<1> HIDE DEF t
<1>3. t \in TableSet /\ RolesHold(t) /\ PlanHolds(t) /\ DepositsHold(t) /\ PaymentsHold(t) /\ StartersHold(t)
  BY DEF t, Holds
<1>4. gone \in SUBSET Account
  BY LedgerAssumption DEF Open
<1>5. /\ \E k \in Nat : order \in [1 .. k -> Account]
      /\ \A j \in DOMAIN order : \A d \in DOMAIN t.debt : t.debt[d].account # order[j]
  <2>1. reported \subseteq Account /\ \A a \in reported : \A d \in DOMAIN t.debt : t.debt[d].account # a
    BY DEF Reported
  <2>2. IsFiniteSet(Account)
    BY LedgerAssumption
  <2> HIDE DEF reported
  <2>3. Cardinality(reported) \in Nat
    BY <2>1, <2>2, FS_Subset, FS_CardinalityType
  <2>4. order \in [1 .. Cardinality(reported) -> reported]
    BY DEF SetToSeqs
  <2>5. order \in [1 .. Cardinality(reported) -> Account]
    BY <2>1, <2>4
  <2> QED BY <2>1, <2>3, <2>4, <2>5
<1>6. PICK k \in Nat : order \in [1 .. k -> Account]
  BY <1>5
<1> HIDE DEF reported
<1>7. /\ v \in TableSet /\ Only(v, t, {"asked", "account"}) /\ RolesHold(v)
      /\ \A a \in Account : t.account[a].state = "open" => v.account[a].state = "open"
  <2>1. /\ v \in TableSet /\ Only(v, t, {"asked", "account"})
        /\ \A a \in Account :
             v.account[a] = IF a \notin present THEN t.account[a]
                            ELSE [state |-> "open",
                                  role |-> IF t.account[a].state = "absent" THEN "excluded" ELSE t.account[a].role]
    BY <1>3, PresentFields
  <2>2. RolesHold(v)
    BY <1>3, PresentHolds
  <2> HIDE DEF v, i, p, n, kept, gone
  <2>3. ASSUME NEW a \in Account, t.account[a].state = "open" PROVE v.account[a].state = "open"
    <3>1. v.account[a] = t.account[a] \/ v.account[a] = [state |-> "open", role |-> t.account[a].role]
      BY <2>1, <2>3
    <3> QED BY <2>3, <3>1
  <2> QED BY <2>1, <2>2, <2>3
<1> HIDE DEF v
<1>8. v.bill = t.bill /\ v.debt = t.debt /\ v.application = t.application /\ v.goal = t.goal /\ v.planned = t.planned
      /\ v.income = t.income
  BY <1>7 DEF Only, Fields
<1>9. PaymentsHold(v) /\ StartersHold(v)
  BY <1>3, <1>8, SameBills
<1>10. /\ kept \in TableSet /\ Only(kept, v, {"debt"}) /\ PaymentsHold(kept) /\ StartersHold(kept)
       /\ DOMAIN v.debt \subseteq DOMAIN kept.debt
       /\ \A d \in DOMAIN kept.debt \ DOMAIN v.debt : \E j \in 1 .. k : kept.debt[d].account = order[j]
  <2>1. kept = [v EXCEPT !.debt = @ \o [j \in DOMAIN order |-> NewDebt(order[j], "needs_review")]]
    OBVIOUS
  <2>2. order \in [1 .. k -> Account]
    BY <1>6
  <2> HIDE DEF kept, i, p, n
  <2>3. ReviewedFor(v, kept, k, order)
    BY <1>7, <1>9, <2>1, <2>2, ReviewedDebts
  <2> QED BY <2>3 DEF ReviewedFor
<1> HIDE DEF kept
<1>11. /\ i \in TableSet /\ Only(i, kept, {"income"}) /\ DOMAIN i.income = DOMAIN kept.income
       /\ \A s \in DOMAIN kept.income :
            i.income[s].status # "archived" /\ i.income[s].dest # None
              => /\ kept.income[s].status # "archived" /\ i.income[s].dest = kept.income[s].dest
                 /\ kept.income[s].dest \notin gone
  BY <1>4, <1>10, DetachedIncomes
<1> HIDE DEF i
<1>12. i.bill = kept.bill /\ i.debt = kept.debt /\ i.application = kept.application
  BY <1>11 DEF Only, Fields
<1>13. PaymentsHold(i) /\ StartersHold(i)
  BY <1>10, <1>12, SameBills
<1>14. /\ p \in TableSet /\ Only(p, i, {"bill", "debt"}) /\ DOMAIN p.debt = DOMAIN i.debt
       /\ \A d \in DOMAIN i.debt : p.debt[d].account = i.debt[d].account
       /\ PaymentsHold(p) /\ StartersHold(p) /\ UserBillsHold(i, p)
  <2> HIDE DEF gone
  <2> QED BY <1>11, <1>13, PausedDebts
<1> HIDE DEF p
<1>15. /\ p.account = v.account /\ p.goal = v.goal /\ p.own = v.own /\ p.connection = v.connection
       /\ p.overtaken = v.overtaken /\ p.asked = v.asked /\ p.planned = v.planned /\ p.income = i.income
       /\ kept.income = v.income /\ kept.bill = v.bill
  BY <1>10, <1>11, <1>14 DEF Only, Fields
<1>16. RolesHold(p)
  BY <1>7, <1>15, SameRoles
<1>17. n \in TableSet /\ Only(n, p, {"asked", "account", "own"}) /\ RolesHold(n)
  BY <1>14, <1>16, ArchivedFields, ArchivedHolds
<1>18. \A a \in Account \ gone : n.account[a].state = p.account[a].state
  BY <1>14, ArchivedFields
<1> HIDE DEF n
<1>19. /\ n.goal = t.goal /\ n.planned = t.planned /\ n.income = i.income /\ n.bill = p.bill /\ n.debt = p.debt
       /\ n.application = p.application /\ n.connection = t.connection
  BY <1>7, <1>8, <1>15, <1>17 DEF Only, Fields
<1>20. PlanHolds(n)
  BY <1>3, <1>19, SamePlan
<1>21. PaymentsHold(n) /\ StartersHold(n)
  BY <1>14, <1>19, SameBills
<1>22. DepositsHold(n)
  <2> SUFFICES ASSUME n.connection = "healthy", NEW s \in DOMAIN n.income,
                      n.income[s].status # "archived", n.income[s].dest # None
               PROVE  n.account[n.income[s].dest].state = "open"
    BY DEF DepositsHold
  <2> DEFINE a == t.income[s].dest
  <2>1. s \in DOMAIN t.income /\ t.income[s].status # "archived" /\ n.income[s].dest = a /\ a \notin gone
    BY <1>8, <1>11, <1>15, <1>19
  <2>2. a \in Account /\ t.account[a].state = "open"
    BY <1>3, <1>19, <2>1, Rows DEF DepositsHold, IncomeRow
  <2> QED BY <1>7, <1>15, <1>18, <2>1, <2>2
<1>23. Holds(n)
  BY <1>17, <1>20, <1>21, <1>22 DEF Holds
<1>24. UserBillsHold(t, n)
  BY <1>8, <1>12, <1>14, <1>15, <1>19 DEF UserBillsHold
<1>25. \A j \in DOMAIN n.debt \ DOMAIN t.debt : \A d \in DOMAIN t.debt : t.debt[d].account # n.debt[j].account
  <2> SUFFICES ASSUME NEW j \in DOMAIN n.debt \ DOMAIN t.debt
               PROVE  \A d \in DOMAIN t.debt : t.debt[d].account # n.debt[j].account
    OBVIOUS
  <2>1. j \in DOMAIN kept.debt \ DOMAIN v.debt /\ n.debt[j].account = kept.debt[j].account
    BY <1>8, <1>12, <1>14, <1>19
  <2>2. PICK e \in 1 .. k : kept.debt[j].account = order[e]
    BY <1>10, <2>1
  <2> QED BY <1>5, <1>6, <2>1, <2>2
<1> QED BY <1>2, <1>23, <1>24, <1>25 DEF Decided, t

------------------------------------------------------------------------------
(* Every command.                                                          *)

\* A command ends in a commit of tables that hold, and either leaves the
\* debts alone or does to them what the user decided.
Steps ==
  \E n : Holds(n) /\ Commit(n) /\ (n.debt = Tables.debt \/ Decided(Tables, n))

LEMMA AccountsStep ==
    ASSUME Holds(Tables), world \in Worlds, Accounts \/ ApplyInclusion \/ RefuseInclusion \/ ActivateManualMode
    PROVE  Steps
<1>1. world.edited \subseteq Account
  BY LedgerAssumption
<1>2. ASSUME NEW a \in world.edited, NEW role \in Roles, SetAccountPlanningRole(a, role) PROVE Steps
  BY <1>1, <1>2, SetAccountPlanningRoleHolds DEF Steps
<1>3. ASSUME NEW a \in world.edited, NEW include \in BOOLEAN, CheckInclusion(a, include) PROVE Steps
  BY <1>1, <1>3, CheckInclusionHolds DEF Steps
<1>4. ApplyInclusion \/ RefuseInclusion \/ ActivateManualMode => Steps
  BY ApplyInclusionHolds, RefuseInclusionHolds, ActivateManualModeHolds DEF Steps
<1> QED BY <1>2, <1>3, <1>4 DEF Accounts

LEMMA SavingsStep ==
    ASSUME Holds(Tables), world \in Worlds,
           Savings \/ \E amount \in Amounts : AddTrackedGoal(amount) \/ UpdatePlan(amount)
    PROVE  Steps
<1>1. Amounts \subseteq Nat /\ world.accounts \subseteq Account
  BY LedgerAssumption DEF Amounts
<1>2. Goals \subseteq GoalRow
  BY <1>1 DEF Goals, GoalRow
<1>3. ASSUME NEW r \in Goals, AddSavingsGoal(r.dest, r.amount, r.general) PROVE Steps
  <2>1. r.dest \in Account \cup {None} /\ r.amount \in Nat /\ r.general \in BOOLEAN
    BY <1>2 DEF GoalRow
  <2> QED BY <1>3, <2>1, AddSavingsGoalHolds DEF Steps
<1>4. ASSUME NEW r \in Goals, NEW g \in DOMAIN goal, UpdateSavingsGoal(g, r) PROVE Steps
  BY <1>2, <1>4, UpdateSavingsGoalHolds DEF Steps
<1>5. ASSUME NEW amount \in Amounts, AddTrackedGoal(amount) \/ UpdatePlan(amount) PROVE Steps
  BY <1>1, <1>5, AddTrackedGoalHolds, UpdatePlanHolds DEF Steps
<1> QED BY <1>3, <1>4, <1>5 DEF Savings

LEMMA IncomesStep ==
    ASSUME Holds(Tables), world \in Worlds, Incomes
    PROVE  Steps
<1>1. world.accounts \subseteq Account
  BY LedgerAssumption
<1>2. PICK dest \in world.accounts \cup {None}, confirmed \in BOOLEAN :
        \/ AddIncomeSchedule(dest, confirmed)
        \/ \E s \in DOMAIN income, status \in {"active", "paused", "archived"} :
             UpdateIncomeSchedule(s, dest, status, confirmed)
  BY DEF Incomes
<1>3. dest \in Account \cup {None}
  BY <1>1
<1> QED BY <1>2, <1>3, AddIncomeScheduleHolds, UpdateIncomeScheduleHolds DEF Steps

LEMMA BillsStep ==
    ASSUME Holds(Tables), world \in Worlds, Bills
    PROVE  Steps
<1>1. ASSUME NEW monthly \in BOOLEAN, AddCommitment(monthly) PROVE Steps
  BY <1>1, AddCommitmentHolds DEF Steps
<1>2. ASSUME NEW edits \in Edits, NEW keys \in world.starters, NEW removals,
             CalibratePlan(planned, edits, removals, keys)
      PROVE  Steps
  <2>1. keys \in Seq(Nat) /\ IsInjective(keys)
    BY LedgerAssumption
  <2>2. planned \in Nat
    BY TableFields, TablesAre DEF Holds
  <2>3. \A b \in DOMAIN edits : edits[b] \in [empty : BOOLEAN, monthly : BOOLEAN, renamed : BOOLEAN]
    BY DEF Edits
  <2> QED BY <1>2, <2>1, <2>2, <2>3, CalibratePlanHolds DEF Steps
<1>3. ASSUME NEW i \in DOMAIN application, UndoStarterApplication(i) PROVE Steps
  BY <1>3, UndoStarterApplicationHolds DEF Steps
<1>4. ASSUME NEW b \in DOMAIN bill, EvidenceSettles(b) PROVE Steps
  BY <1>4, EvidenceSettlesHolds DEF Steps
<1> QED BY <1>1, <1>2, <1>3, <1>4 DEF Bills

LEMMA DebtsStep ==
    ASSUME Holds(Tables), world \in Worlds, Debts
    PROVE  Steps
<1>1. world.accounts \subseteq Account
  BY LedgerAssumption
<1>2. ASSUME NEW choice \in {None, New} \cup DOMAIN bill, NEW a \in world.accounts, AddDebt(a, choice)
      PROVE  Steps
  BY <1>1, <1>2, AddDebtHolds DEF Steps
<1>3. ASSUME NEW choice \in {None, New} \cup DOMAIN bill, NEW d \in DOMAIN debt,
             NEW status \in {"active", "paused", "closed", "archived"}, UpdateDebt(d, status, choice)
      PROVE  Steps
  BY <1>3, UpdateDebtHolds DEF Steps
<1> QED BY <1>2, <1>3 DEF Debts

LEMMA BankStep ==
    ASSUME Holds(Tables), world \in Worlds, Bank
    PROVE  Steps
<1>1. Banked \subseteq Account
  BY LedgerAssumption DEF Banked
<1>2. ASSUME NEW present \in SUBSET Banked, SyncAccounts(present) PROVE Steps
  <2>1. present \in SUBSET Account
    BY <1>1
  <2> QED BY <1>2, <2>1, SyncAccountsHolds DEF Steps
<1>3. Disconnect \/ FinalizeRevocation => Steps
  BY DisconnectHolds, FinalizeRevocationHolds DEF Steps
<1> QED BY <1>2, <1>3 DEF Bank

LEMMA NextStep ==
    ASSUME LedgerInv, Next
    PROVE  Steps
<1>1. Holds(Tables) /\ world \in Worlds
  BY InvHolds
<1> QED BY <1>1, AccountsStep, SavingsStep, IncomesStep, BillsStep, DebtsStep, BankStep DEF Next

LEMMA AtFirst == Init => LedgerInv
<1> SUFFICES ASSUME Init PROVE LedgerInv
  OBVIOUS
<1>1. TypeOK
  <2>1. Provisioned \cap world.accounts \subseteq Account
    BY LedgerAssumption
  <2>2. account \in [Account -> AccountRow]
    BY <2>1 DEF Init, AccountRow, Roles
  <2>3. own \in [Account -> Roles]
    BY <2>2 DEF Init, AccountRow
  <2> QED BY <2>2, <2>3 DEF Init, TypeOK
<1>2. /\ \A a \in Account : own[a] = account[a].role /\ account[a].role # "protected"
      /\ \A a \in Account : account[a].state = "absent" => account[a].role = "excluded"
      /\ \A a : ClaimedBy(Tables, a) = {}
  BY TablesAre DEF Init, ClaimedBy
<1>3. RolesAreReturned /\ GoalsAreAlone /\ AbsentIsExcluded
  BY <1>2 DEF RolesAreReturned, GoalsAreAlone, AbsentIsExcluded, Claimed, Init
<1>4. PlannedIsContributed
  <2>1. Tables \in TableSet
    BY <1>1 DEF TypeOK, Tables, TableSet, Init, Inclusion
  <2>2. ActiveGoals(Tables) = {}
    BY TablesAre DEF Init, ActiveGoals
  <2> QED BY <2>1, <2>2, ContributionOfNone DEF PlannedIsContributed, Init
<1>5. IncomeHasAccount /\ BillsHaveAReason /\ ManagedIsMade
  BY DEF Init, IncomeHasAccount, BillsHaveAReason, PaymentGoesWithDebt, NoTwinBills, ManagedIsMade
<1> QED BY <1>1, <1>3, <1>4, <1>5 DEF LedgerInv, AccountsAreInOrder

LEMMA Idle == LedgerInv /\ UNCHANGED vars => LedgerInv'
<1> SUFFICES ASSUME LedgerInv, UNCHANGED vars PROVE LedgerInv'
  OBVIOUS
<1>1. Holds(Tables) /\ world \in Worlds
  BY InvHolds
<1>2. /\ connection' = connection /\ account' = account /\ goal' = goal /\ planned' = planned
      /\ income' = income /\ bill' = bill /\ debt' = debt /\ application' = application
      /\ asked' = asked /\ own' = own /\ overtaken' = overtaken /\ world' = world
  BY DEF vars
<1> QED
  BY <1>2 DEF LedgerInv, AccountsAreInOrder, BillsHaveAReason, TypeOK, RolesAreReturned, Kept, IncomeHasAccount,
              GoalsAreAlone, AbsentIsExcluded, PlannedIsContributed, PaymentGoesWithDebt, NoTwinBills,
              ManagedIsMade, Claimed, ClaimedBy, Contributions, Tables

LEMMA Inductive == LedgerInv /\ [Next]_vars => LedgerInv'
<1>1. ASSUME LedgerInv, Next PROVE LedgerInv'
  BY <1>1, InvHolds, NextStep, Committed DEF Steps
<1> QED BY <1>1, Idle

------------------------------------------------------------------------------
(* The theorems.                                                           *)

\* Whatever is entered, edited, removed and undone, and whether the bank is
\* there or not, every command keeps the plan in order (core.service.ts,
\* reconcileAccounts, disconnect).
THEOREM PlanStaysInOrder == Spec => []LedgerInv
<1> QED BY AtFirst, Inductive, PTL DEF Spec

\* The reserve for savings is the sum of the contributions of the active
\* goals (refreshSavingsPlanAggregate, syncLegacySavingsInput).
THEOREM ReserveIsContributed == Spec => []PlannedIsContributed
<1>1. LedgerInv => PlannedIsContributed
  BY DEF LedgerInv
<1> QED BY <1>1, PlanStaysInOrder, PTL

\* Goals protect their accounts and give back the role the user or the bank
\* gave them, and incomes go to accounts that are there
\* (protectSavingsDestination, restoreSavingsDestination).
THEOREM AccountsKeepTheirParts == Spec => []AccountsAreInOrder
<1>1. LedgerInv => AccountsAreInOrder
  BY DEF LedgerInv
<1> QED BY <1>1, PlanStaysInOrder, PTL

\* A bill made for a debt goes with it, and no starter is there twice
\* (resolveDebtCommitment, pauseDebtTracking, applyStarterTemplates).
THEOREM BillsKeepTheirReason == Spec => []BillsHaveAReason
<1>1. LedgerInv => BillsHaveAReason
  BY DEF LedgerInv
<1> QED BY <1>1, PlanStaysInOrder, PTL

\* No step takes a bill the user entered out of the plan along with a debt,
\* and an archived debt of a bank is not put up for review again
\* (resolveDebtCommitment, reconcileAccounts).
THEOREM DecisionsAreKept == Spec => DecisionsStand
<1> DEFINE UserBills == debt' # debt => \A b \in DOMAIN bill :
                          bill[b].active /\ ~bill[b].made => bill'[b].active
           OptedOut == \A a \in FromBank :
                         (\E d \in DOMAIN debt : debt[d].account = a) /\ On(Tables, a) = {}
                           => \A d \in DOMAIN debt' \ DOMAIN debt :
                                debt'[d].account = a => debt'[d].status # "needs_review"
<1>1. LedgerInv /\ [Next]_vars => [UserBills]_vars /\ [OptedOut]_vars
  <2> SUFFICES ASSUME LedgerInv, Next PROVE UserBills /\ OptedOut
    OBVIOUS
  <2>1. PICK n : Commit(n) /\ (n.debt = debt \/ Decided(Tables, n))
    BY NextStep, TablesAre DEF Steps
  <2>2. debt' = n.debt /\ bill' = n.bill
    BY <2>1 DEF Commit
  <2>3. CASE n.debt = debt
    BY <2>2, <2>3
  <2>4. CASE Decided(Tables, n)
    BY <2>2, <2>4, TablesAre DEF Decided, UserBillsHold
  <2> QED BY <2>1, <2>3, <2>4
<1>2. Spec => [][UserBills]_vars /\ [][OptedOut]_vars
  <2> HIDE DEF UserBills, OptedOut
  <2> QED BY <1>1, PlanStaysInOrder, PTL DEF Spec
<1> QED BY <1>2 DEF DecisionsStand, UserBillsStay, OptOutIsDurable
=============================================================================
