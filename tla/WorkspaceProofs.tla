---------------------------- MODULE WorkspaceProofs ----------------------------
(***************************************************************************)
(* Proofs about the workspace, for any number of commands, revisions,      *)
(* copies of requests and restarts.                                        *)
(*                                                                         *)
(* WorkspaceInv of Workspace is inductive: versions only grow, so that a   *)
(* request that was refused is refused for ever, and a bootstrap that was  *)
(* counted after a command is as new as the command.                       *)
(***************************************************************************)
EXTENDS Workspace, SequenceTheorems, FiniteSetTheorems, TLAPS

LEMMA WorldFacts ==
    ASSUME TypeOK
    PROVE  /\ world.revisions \in 1 .. Gone - 1
           /\ world.requests \in 0 .. MaxRequests /\ MaxRequests \in Nat
           /\ world.copies \in Nat /\ world.restarts \in Nat
           /\ world.native \in BOOLEAN /\ world.forms \subseteq Forms
           /\ world.clicks \subseteq Kinds
BY WorkspaceAssumption DEF TypeOK

------------------------------------------------------------------------------
(* Rows and versions.                                                       *)

LEMMA RowsFacts ==
    ASSUME TypeOK, NEW rows \in Rows
    PROVE  /\ rows.plan \in 0 .. world.revisions /\ rows.goal \in 0 .. world.revisions
           /\ rows.bills \in Seq(Version)
           /\ Len(rows.bills) \in Nat /\ DOMAIN rows.bills = 1 .. Len(rows.bills)
           /\ \A b \in DOMAIN rows.bills : rows.bills[b] \in Version /\ rows.bills[b] \in Nat
           /\ Live(rows) \subseteq DOMAIN rows.bills
<1>1. /\ rows.plan \in 0 .. world.revisions /\ rows.goal \in 0 .. world.revisions
      /\ rows.bills \in Seq(Version)
  BY DEF Rows
<1>2. Len(rows.bills) \in Nat /\ DOMAIN rows.bills = 1 .. Len(rows.bills)
  BY <1>1, LenProperties
<1>3. \A b \in DOMAIN rows.bills : rows.bills[b] \in Version
  BY <1>1, <1>2, ElementOfSeq
<1>4. Version \subseteq Nat
  BY WorldFacts DEF Version, Gone
<1> QED BY <1>1, <1>2, <1>3, <1>4 DEF Live

\* Older rows stay older.
LEMMA AsNewReflexive ==
    ASSUME TypeOK, NEW rows \in Rows
    PROVE  AsNew(rows, rows)
BY RowsFacts DEF AsNew

LEMMA AsNewTransitive ==
    ASSUME TypeOK, NEW a \in Rows, NEW b \in Rows, NEW c \in Rows, AsNew(a, b), AsNew(b, c)
    PROVE  AsNew(a, c)
<1>1. /\ a.plan \in Nat /\ b.plan \in Nat /\ c.plan \in Nat
      /\ a.goal \in Nat /\ b.goal \in Nat /\ c.goal \in Nat
  BY RowsFacts, WorldFacts
<1>2. a.plan >= c.plan /\ a.goal >= c.goal
  BY <1>1 DEF AsNew
<1>3. Len(a.bills) >= Len(c.bills)
  <2>1. Len(a.bills) \in Nat /\ Len(b.bills) \in Nat /\ Len(c.bills) \in Nat
    BY RowsFacts
  <2>2. Len(a.bills) >= Len(b.bills) /\ Len(b.bills) >= Len(c.bills)
    BY DEF AsNew
  <2> QED BY <2>1, <2>2
<1>4. ASSUME NEW i \in DOMAIN c.bills
      PROVE  a.bills[i] >= c.bills[i]
  <2>1. i \in DOMAIN a.bills /\ i \in DOMAIN b.bills
    <3>1. /\ DOMAIN a.bills = 1 .. Len(a.bills) /\ Len(a.bills) \in Nat
          /\ DOMAIN b.bills = 1 .. Len(b.bills) /\ Len(b.bills) \in Nat
          /\ i \in 1 .. Len(c.bills) /\ Len(c.bills) \in Nat
      BY RowsFacts
    <3>2. Len(b.bills) >= Len(c.bills)
      BY DEF AsNew
    <3> QED BY <1>3, <3>1, <3>2
  <2>2. a.bills[i] \in Nat /\ b.bills[i] \in Nat /\ c.bills[i] \in Nat
    BY <2>1, RowsFacts
  <2> QED BY <2>1, <2>2 DEF AsNew
<1> QED BY <1>2, <1>3, <1>4 DEF AsNew

\* A refusal is final: a request that names versions of rows is accepted by
\* newer rows only if it is accepted by those.
LEMMA RefusalStands ==
    ASSUME TypeOK, NEW old \in Rows, NEW new \in Rows, AsNew(new, old), NEW r \in Commands,
           r.plan <= old.plan, r.goal <= old.goal,
           \A k \in r.keep \cup r.remove : k.bill \in DOMAIN old.bills /\ k.version <= old.bills[k.bill],
           Accepts(new, r)
    PROVE  Accepts(old, r)
<1>1. /\ old.plan \in Nat /\ new.plan \in Nat /\ r.plan \in Nat
      /\ old.goal \in Nat /\ new.goal \in Nat /\ r.goal \in Nat
  BY RowsFacts, WorldFacts DEF Commands
<1>2. new.plan = r.plan => old.plan = r.plan
  BY <1>1 DEF AsNew
<1>3. new.goal = r.goal => old.goal = r.goal
  BY <1>1 DEF AsNew
<1>4. ASSUME NEW k \in r.keep \cup r.remove, k.bill \in Live(new), new.bills[k.bill] = k.version
      PROVE  k.bill \in Live(old) /\ old.bills[k.bill] = k.version
  <2>1. k.version \in Nat /\ k.bill \in DOMAIN old.bills /\ k.version <= old.bills[k.bill]
    BY DEF Commands
  <2>2. k.bill \in DOMAIN new.bills /\ new.bills[k.bill] >= old.bills[k.bill]
    BY <2>1, <1>4, RowsFacts DEF AsNew
  <2>3. new.bills[k.bill] \in Nat /\ old.bills[k.bill] \in Nat
    BY <2>1, <2>2, RowsFacts
  <2>4. old.bills[k.bill] = k.version
    BY <1>4, <2>1, <2>2, <2>3
  <2> QED BY <2>1, <2>4, <1>4 DEF Live
<1> QED BY <1>2, <1>3, <1>4 DEF Accepts

\* What a change does to rows whose versions a revision bounds.
Counted(rows, revision) ==
    /\ rows.plan \in 0 .. revision /\ rows.goal \in 0 .. revision
    /\ rows.bills \in Seq(0 .. revision \cup {Gone})

Grown(rows) ==
    /\ rows \in Rows /\ AsNew(rows, store.rows) /\ Counted(rows, store.revision + 1)

StoreIsCounted == Counted(store.rows, store.revision)

LEMMA CountedStore ==
    ASSUME TypeOK, HistoryGrows
    PROVE  StoreIsCounted
<1>1. store.rows \in Rows /\ store.revision \in Nat
  BY WorldFacts DEF TypeOK, Bootstrap
<1>2. store.rows.bills \in Seq(Version) /\ \A b \in 1 .. Len(store.rows.bills) :
          store.rows.bills[b] \in 0 .. store.revision \cup {Gone}
  BY <1>1, RowsFacts DEF HistoryGrows
<1>3. store.rows.bills \in Seq(0 .. store.revision \cup {Gone})
  BY <1>2, SeqDef, LenProperties
<1> QED BY <1>1, <1>3, RowsFacts, WorldFacts DEF StoreIsCounted, Counted, HistoryGrows

\* Every change is one of these: numbers count up, bills are added, and a bill
\* gets a newer version or is gone.
LEMMA GrownRows ==
    ASSUME TypeOK, HistoryGrows, store.revision < world.revisions,
           NEW p \in {store.rows.plan, store.rows.plan + 1},
           NEW g \in {store.rows.goal, store.rows.goal + 1},
           NEW bills \in Seq(0 .. store.revision + 1 \cup {Gone}),
           Len(bills) >= Len(store.rows.bills),
           \A b \in DOMAIN store.rows.bills : bills[b] >= store.rows.bills[b]
    PROVE  Grown([plan |-> p, goal |-> g, bills |-> bills])
<1>1. /\ store.rows \in Rows /\ store.revision \in 1 .. world.revisions
  BY WorldFacts DEF TypeOK, Bootstrap
<1>2. /\ store.rows.plan \in 0 .. store.revision /\ store.rows.goal \in 0 .. store.revision
  BY CountedStore DEF StoreIsCounted, Counted
<1>3. 0 .. store.revision + 1 \cup {Gone} \subseteq Version
  <2>1. world.revisions \in Nat /\ store.revision + 1 <= world.revisions
    BY <1>1, WorldFacts
  <2>2. 0 .. store.revision + 1 \subseteq 0 .. world.revisions
    BY <1>1, <2>1
  <2> QED BY <2>2 DEF Version
<1>4. bills \in Seq(Version)
  BY <1>3, SeqMonotonic
<1>5. p \in 0 .. store.revision + 1 /\ g \in 0 .. store.revision + 1
  BY <1>1, <1>2
<1>6. 0 .. store.revision + 1 \subseteq 0 .. world.revisions
  BY <1>1, WorldFacts
<1>7. [plan |-> p, goal |-> g, bills |-> bills] \in Rows
  BY <1>4, <1>5, <1>6 DEF Rows
<1>8. p >= store.rows.plan /\ g >= store.rows.goal
  BY <1>1, <1>2
<1> QED BY <1>5, <1>7, <1>8 DEF Grown, AsNew, Counted

LEMMA StoreBills ==
    ASSUME TypeOK, HistoryGrows
    PROVE  /\ store.rows \in Rows
           /\ store.rows = [plan |-> store.rows.plan, goal |-> store.rows.goal, bills |-> store.rows.bills]
           /\ store.rows.bills \in Seq(0 .. store.revision + 1 \cup {Gone})
           /\ DOMAIN store.rows.bills = 1 .. Len(store.rows.bills)
           /\ Len(store.rows.bills) \in Nat
           /\ \A b \in DOMAIN store.rows.bills :
                 /\ store.rows.bills[b] \in Nat
                 /\ store.rows.bills[b] <= Gone
                 /\ store.rows.bills[b] # Gone => store.rows.bills[b] + 1 \in 0 .. store.revision + 1
           /\ store.revision \in 1 .. world.revisions
<1>1. store.rows \in Rows /\ store.revision \in 1 .. world.revisions
  BY WorldFacts DEF TypeOK, Bootstrap
<1>2. store.rows = [plan |-> store.rows.plan, goal |-> store.rows.goal, bills |-> store.rows.bills]
  BY <1>1 DEF Rows
<1>3. store.rows.bills \in Seq(0 .. store.revision \cup {Gone})
  BY CountedStore DEF StoreIsCounted, Counted
<1>4. 0 .. store.revision \cup {Gone} \subseteq 0 .. store.revision + 1 \cup {Gone}
  BY <1>1, WorldFacts
<1>5. store.rows.bills \in Seq(0 .. store.revision + 1 \cup {Gone})
  BY <1>3, <1>4, SeqMonotonic
<1>6. \A b \in DOMAIN store.rows.bills : store.rows.bills[b] \in 0 .. store.revision \cup {Gone}
  BY <1>3, ElementOfSeq, LenProperties
<1>7. \A b \in DOMAIN store.rows.bills :
                 /\ store.rows.bills[b] \in Nat
                 /\ store.rows.bills[b] <= Gone
                 /\ store.rows.bills[b] # Gone => store.rows.bills[b] + 1 \in 0 .. store.revision + 1
  BY <1>1, <1>6, WorldFacts DEF Gone
<1> QED BY <1>1, <1>2, <1>5, <1>7, RowsFacts

\* New bills come after the ones there are.
LEMMA MoreBills ==
    ASSUME TypeOK, HistoryGrows, NEW bills \in Seq(0 .. store.revision + 1 \cup {Gone}), NEW n \in Nat
    PROVE  /\ bills \o [i \in 1 .. n |-> 1] \in Seq(0 .. store.revision + 1 \cup {Gone})
           /\ Len(bills \o [i \in 1 .. n |-> 1]) >= Len(bills)
           /\ \A b \in 1 .. Len(bills) : (bills \o [i \in 1 .. n |-> 1])[b] = bills[b]
<1> DEFINE S == 0 .. store.revision + 1 \cup {Gone}
           more == [i \in 1 .. n |-> 1]
<1>1. 1 \in S
  BY StoreBills, WorldFacts
<1>2. more \in [1 .. n -> S]
  BY <1>1
<1>3. more \in Seq(S)
  BY <1>2, SeqDef
<1>4. Len(more) \in Nat /\ Len(bills) \in Nat
  BY <1>3, LenProperties
<1> HIDE DEF more, S
<1>5. /\ bills \o more \in Seq(S) /\ Len(bills \o more) = Len(bills) + Len(more)
      /\ \A i \in 1 .. Len(bills) + Len(more) :
            (bills \o more)[i] = IF i <= Len(bills) THEN bills[i] ELSE more[i - Len(bills)]
  BY <1>3, ConcatProperties DEF S
<1>6. Len(bills \o more) >= Len(bills) /\ \A b \in 1 .. Len(bills) : (bills \o more)[b] = bills[b]
  BY <1>4, <1>5
<1> QED BY <1>5, <1>6 DEF more, S

LEMMA SameBills ==
    ASSUME TypeOK, HistoryGrows
    PROVE  \A b \in DOMAIN store.rows.bills : store.rows.bills[b] >= store.rows.bills[b]
BY StoreBills

\* One field of a row is written.
LEMMA RowFields ==
    ASSUME NEW p, NEW g, NEW b, NEW new
    PROVE  LET row == [plan |-> p, goal |-> g, bills |-> b]
           IN /\ [row EXCEPT !.plan = new] = [plan |-> new, goal |-> g, bills |-> b]
              /\ [row EXCEPT !.goal = new] = [plan |-> p, goal |-> new, bills |-> b]
              /\ [row EXCEPT !.bills = new] = [plan |-> p, goal |-> g, bills |-> new]
OBVIOUS

LEMMA AddedGrows ==
    ASSUME TypeOK, HistoryGrows, store.revision < world.revisions, NEW n \in Nat
    PROVE  Grown(Added(store.rows, n))
<1> DEFINE bills == store.rows.bills \o [i \in 1 .. n |-> 1]
<1>1. bills \in Seq(0 .. store.revision + 1 \cup {Gone}) /\ Len(bills) >= Len(store.rows.bills)
  BY StoreBills, MoreBills
<1>2. \A b \in DOMAIN store.rows.bills : bills[b] >= store.rows.bills[b]
  BY StoreBills, MoreBills
<1>3. Added(store.rows, n) = [store.rows EXCEPT !.bills = bills]
  BY DEF Added
<1> HIDE DEF bills
<1>4. [store.rows EXCEPT !.bills = bills] =
         [plan |-> store.rows.plan, goal |-> store.rows.goal, bills |-> bills]
  <2>1. store.rows = [plan |-> store.rows.plan, goal |-> store.rows.goal, bills |-> store.rows.bills]
    BY StoreBills
  <2> QED BY <2>1, RowFields
<1> QED BY <1>1, <1>2, <1>3, <1>4, GrownRows

LEMMA PlanGrows ==
    ASSUME TypeOK, HistoryGrows, store.revision < world.revisions
    PROVE  /\ Grown([store.rows EXCEPT !.plan = @ + 1])
           /\ Grown([store.rows EXCEPT !.goal = @ + 1])
           /\ Grown(store.rows)
<1>1. /\ [store.rows EXCEPT !.plan = @ + 1] =
            [plan |-> store.rows.plan + 1, goal |-> store.rows.goal, bills |-> store.rows.bills]
      /\ [store.rows EXCEPT !.goal = @ + 1] =
            [plan |-> store.rows.plan, goal |-> store.rows.goal + 1, bills |-> store.rows.bills]
  BY StoreBills DEF Rows
<1>2. store.rows.bills \in Seq(0 .. store.revision + 1 \cup {Gone})
      /\ Len(store.rows.bills) >= Len(store.rows.bills)
  BY StoreBills
<1> QED BY <1>1, <1>2, GrownRows, SameBills, StoreBills

\* A calibration: of the bills it names, some are gone and some have a newer version.
LEMMA CalibratedGrows ==
    ASSUME TypeOK, HistoryGrows, store.revision < world.revisions,
           NEW r \in Commands, r.kind = "calibrate", Accepts(store.rows, r)
    PROVE  Grown(Added(Calibrated(store.rows, r), r.new))
<1> DEFINE S == 0 .. store.revision + 1 \cup {Gone}
           old == store.rows.bills
           mid == [b \in DOMAIN old |->
                     IF \E k \in r.remove : k.bill = b THEN Gone
                     ELSE IF \E k \in r.keep : k.bill = b /\ k.content # old[b] THEN old[b] + 1
                     ELSE old[b]]
           bills == mid \o [i \in 1 .. r.new |-> 1]
<1>1. \A k \in r.keep : k.bill \in DOMAIN old => old[k.bill] # Gone
  BY DEF Accepts, Live
<1>2. ASSUME NEW b \in DOMAIN old
      PROVE  mid[b] \in S /\ mid[b] >= old[b]
  <2>1. old[b] \in S
    BY StoreBills, ElementOfSeq
  <2>2. CASE \E k \in r.remove : k.bill = b
    BY <2>2, StoreBills DEF Gone
  <2>3. CASE (~ \E k \in r.remove : k.bill = b) /\ \E k \in r.keep : k.bill = b /\ k.content # old[b]
    <3>1. old[b] # Gone
      BY <2>3, <1>1
    <3>2. mid[b] = old[b] + 1
      BY <2>3
    <3> QED BY <3>1, <3>2, StoreBills
  <2>4. CASE (~ \E k \in r.remove : k.bill = b) /\ ~ \E k \in r.keep : k.bill = b /\ k.content # old[b]
    <3>1. mid[b] = old[b]
      BY <2>4
    <3> QED BY <3>1, <2>1, StoreBills
  <2> QED BY <2>2, <2>3, <2>4
<1>3. DOMAIN old = 1 .. Len(old) /\ Len(old) \in Nat
  BY StoreBills
<1>4. mid \in [1 .. Len(old) -> S]
  BY <1>2, <1>3
<1>5. mid \in Seq(S) /\ Len(mid) = Len(old)
  BY <1>3, <1>4, SeqDef, LenProperties
<1>6. Calibrated(store.rows, r) = [store.rows EXCEPT !.plan = @ + 1, !.bills = mid]
  BY DEF Calibrated
<1>8. r.new \in Nat
  BY DEF Commands
<1>9. \A b \in DOMAIN old : mid[b] \in Nat /\ mid[b] >= old[b]
  BY <1>2, StoreBills, WorldFacts DEF Gone
<1> HIDE DEF mid
<1>7. Calibrated(store.rows, r) =
         [plan |-> store.rows.plan + 1, goal |-> store.rows.goal, bills |-> mid]
  <2>0. store.rows = [plan |-> store.rows.plan, goal |-> store.rows.goal, bills |-> store.rows.bills]
    BY StoreBills
  <2>1. [store.rows EXCEPT !.plan = @ + 1] =
           [plan |-> store.rows.plan + 1, goal |-> store.rows.goal, bills |-> store.rows.bills]
    BY <2>0, RowFields
  <2> QED BY <1>6, <2>1, RowFields
<1>10. bills \in Seq(S) /\ Len(bills) >= Len(mid) /\ \A b \in 1 .. Len(mid) : bills[b] = mid[b]
  BY <1>5, <1>8, MoreBills
<1>11. \A b \in DOMAIN old : bills[b] >= old[b]
  <2>1. \A b \in DOMAIN old : b \in 1 .. Len(mid) /\ mid[b] >= old[b]
    BY <1>3, <1>5, <1>9
  <2> QED BY <1>10, <2>1
<1>12. Added(Calibrated(store.rows, r), r.new) = [Calibrated(store.rows, r) EXCEPT !.bills = bills]
  <2>1. Calibrated(store.rows, r).bills = mid
    BY <1>7
  <2> QED BY <2>1 DEF Added
<1> HIDE DEF bills
<1>13. Added(Calibrated(store.rows, r), r.new) =
         [plan |-> store.rows.plan + 1, goal |-> store.rows.goal, bills |-> bills]
  BY <1>7, <1>12, RowFields
<1> QED BY <1>5, <1>13, <1>10, <1>11, GrownRows

LEMMA ChangedGrows ==
    ASSUME TypeOK, HistoryGrows, store.revision < world.revisions,
           NEW r \in Commands, Accepts(store.rows, r)
    PROVE  Grown(Changed(store.rows, r))
<1>1. CASE r.kind = "plan"
  BY <1>1, PlanGrows DEF Changed
<1>2. CASE r.kind = "goal"
  BY <1>2, PlanGrows DEF Changed
<1>3. CASE r.kind = "add"
  BY <1>3, AddedGrows DEF Changed
<1>4. CASE r.kind = "calibrate"
  BY <1>4, CalibratedGrows DEF Changed
<1>5. CASE r.kind \notin {"plan", "goal", "add", "calibrate"}
  BY <1>5, PlanGrows DEF Changed
<1> QED BY <1>1, <1>2, <1>3, <1>4, <1>5

\* A bill is edited, or removed, together with the plan.
LEMMA BillGrows ==
    ASSUME TypeOK, HistoryGrows, store.revision < world.revisions, NEW b \in Live(store.rows),
           NEW v \in {store.rows.bills[b] + 1, Gone}
    PROVE  Grown([store.rows EXCEPT !.plan = @ + 1, !.bills[b] = v])
<1> DEFINE S == 0 .. store.revision + 1 \cup {Gone}
           old == store.rows.bills
           bills == [old EXCEPT ![b] = v]
<1>1. b \in 1 .. Len(old) /\ v \in S /\ v >= old[b]
  BY StoreBills DEF Live, Gone
<1>2. /\ bills \in Seq(S) /\ Len(bills) = Len(old)
      /\ \A i \in 1 .. Len(old) : bills[i] = IF i = b THEN v ELSE old[i]
  BY <1>1, StoreBills, ExceptSeq
<1>3. [store.rows EXCEPT !.plan = @ + 1, !.bills[b] = v] =
         [plan |-> store.rows.plan + 1, goal |-> store.rows.goal, bills |-> bills]
  <2> DEFINE row == store.rows
             p == row.plan + 1
             mid == [plan |-> p, goal |-> row.goal, bills |-> old]
  <2>1. [row EXCEPT !.plan = p] = mid
    BY StoreBills DEF Rows
  <2>2. [mid EXCEPT !.bills[b] = v] = [plan |-> p, goal |-> row.goal, bills |-> bills]
    OBVIOUS
  <2> HIDE DEF mid, bills, p, row
  <2>3. [row EXCEPT !.plan = p, !.bills[b] = v] = [[row EXCEPT !.plan = p] EXCEPT !.bills[b] = v]
    OBVIOUS
  <2>4. [row EXCEPT !.plan = p, !.bills[b] = v] = [plan |-> p, goal |-> row.goal, bills |-> bills]
    BY <2>1, <2>2, <2>3
  <2> QED BY <2>4 DEF row, p
<1> HIDE DEF bills
<1>4. ASSUME NEW i \in DOMAIN old
      PROVE  bills[i] >= old[i]
  <2>1. old[i] \in Nat /\ i \in 1 .. Len(old)
    BY StoreBills
  <2> QED BY <1>1, <1>2, <2>1
<1>5. Len(bills) >= Len(old)
  BY <1>2, StoreBills
<1> QED BY <1>2, <1>3, <1>4, <1>5, GrownRows

\* A change made elsewhere.
LEMMA EditGrows ==
    ASSUME TypeOK, HistoryGrows, NEW kind, NEW rows \in RowsAfter(kind),
           store.revision < world.revisions
    PROVE  Grown(rows)
<1>1. CASE kind = "plan"
  BY <1>1, PlanGrows DEF RowsAfter
<1>2. CASE kind = "goal"
  BY <1>2, PlanGrows DEF RowsAfter
<1>3. CASE kind = "add"
  BY <1>3, AddedGrows DEF RowsAfter
<1>4. CASE kind = "bill"
  <2>1. PICK b \in Live(store.rows) : rows = [store.rows EXCEPT !.plan = @ + 1, !.bills[b] = @ + 1]
    BY <1>4 DEF RowsAfter
  <2>2. rows = [store.rows EXCEPT !.plan = @ + 1, !.bills[b] = store.rows.bills[b] + 1]
    BY <2>1, StoreBills DEF Rows, Live
  <2> QED BY <2>2, BillGrows
<1>5. CASE kind \notin {"plan", "goal", "add", "bill"}
  <2>1. kind # "plan" /\ kind # "goal" /\ kind # "add" /\ kind # "bill"
    BY <1>5
  <2>2. PICK b \in Live(store.rows) : rows = [store.rows EXCEPT !.plan = @ + 1, !.bills[b] = Gone]
    BY <2>1 DEF RowsAfter
  <2> QED BY <2>2, BillGrows
<1> QED BY <1>1, <1>2, <1>3, <1>4, <1>5

------------------------------------------------------------------------------
(* The client's operators.                                                  *)
Status == {"loading", "connected", "cached", "unavailable"}
Ending == {"none", "open", "saved", "refused", "unknown"}

\* What an operator that shows a bootstrap leaves as it is.
SameQueue(v, u) == v.queue = u.queue /\ v.phase = u.phase /\ v.form = u.form

LEMMA ApplyFacts ==
    ASSUME TypeOK, NEW u \in Client, NEW b \in Bootstrap, NEW s \in Status
    PROVE  LET v == ApplyBootstrap(u, b, s)
           IN /\ v \in Client /\ SameQueue(v, u)
              /\ v.screen \in {u.screen, b}
              /\ v.screen.revision >= u.screen.revision
              /\ v.screen.revision >= b.revision
              /\ v.heard => u.heard \/ s = "connected"
<1>1. u.screen.revision \in Nat /\ b.revision \in Nat
  BY WorldFacts DEF Client, Bootstrap
<1> DEFINE h == u.heard \/ s = "connected"
           m == [u EXCEPT !.heard = h]
<1>2. h \in BOOLEAN
  OBVIOUS
<1>3. [u EXCEPT !.heard = @ \/ s = "connected"] = m
  OBVIOUS
<1> HIDE DEF h
<1>4. m \in Client /\ SameQueue(m, u) /\ m.screen = u.screen /\ m.heard = h
  BY <1>2 DEF Client, SameQueue
<1> HIDE DEF m
<1>7. m.heard => u.heard \/ s = "connected"
  BY <1>4, Zenon DEF h
<1>5. CASE b.revision >= u.screen.revision
  <2> DEFINE k == [m EXCEPT !.screen = b]
             v == [k EXCEPT !.status = s]
  <2>1. k \in Client /\ SameQueue(k, m) /\ k.screen = b /\ k.heard = m.heard
    BY <1>4 DEF Client, SameQueue
  <2>2. ApplyBootstrap(u, b, s) = v
    BY <1>3, <1>5 DEF ApplyBootstrap, ShouldAcceptBootstrap
  <2> HIDE DEF k
  <2>3. v \in Client /\ SameQueue(v, k) /\ v.screen = k.screen /\ v.heard = k.heard
    BY <2>1 DEF Client, Status, SameQueue
  <2> HIDE DEF v
  <2>4. v.heard => u.heard \/ s = "connected"
    BY <1>7, <2>1, <2>3, Zenon
  <2>5. /\ v.screen \in {u.screen, b} /\ v.screen.revision >= u.screen.revision
        /\ v.screen.revision >= b.revision
    BY <1>1, <1>5, <2>1, <2>3
  <2>6. v \in Client /\ SameQueue(v, u)
    BY <1>4, <2>1, <2>3 DEF SameQueue
  <2> QED BY <2>2, <2>4, <2>5, <2>6, Zenon
<1>6. CASE ~(b.revision >= u.screen.revision)
  <2>1. ApplyBootstrap(u, b, s) = m
    BY <1>3, <1>6 DEF ApplyBootstrap, ShouldAcceptBootstrap
  <2>2. /\ m.screen \in {u.screen, b} /\ m.screen.revision >= u.screen.revision
        /\ m.screen.revision >= b.revision
    BY <1>1, <1>4, <1>6
  <2> QED BY <1>4, <1>7, <2>1, <2>2, Zenon
<1> QED BY <1>5, <1>6

LEMMA StatusFacts ==
    ASSUME TypeOK, NEW u \in Client, NEW s \in Status
    PROVE  LET v == [u EXCEPT !.status = s]
           IN v \in Client /\ SameQueue(v, u) /\ v.screen = u.screen /\ v.status = s
                           /\ v.heard = u.heard /\ v.draft = u.draft /\ v.ready = u.ready
BY DEF Client, Status, SameQueue

LEMMA ReportFacts ==
    ASSUME TypeOK, NEW u \in Client
    PROVE  LET v == ReportError(u)
           IN v \in Client /\ SameQueue(v, u) /\ v.screen = u.screen /\ v.heard = u.heard
<1>1. PICK s \in Status \ {"connected"} : ReportError(u) = [u EXCEPT !.status = s]
  BY DEF ReportError, Status
<1> QED BY <1>1, StatusFacts

LEMMA LoadCachedFacts ==
    ASSUME TypeOK
    PROVE  LET v == LoadCachedBootstrap(ui)
           IN /\ v \in Client /\ SameQueue(v, ui) /\ v.screen \in {ui.screen, copy}
              /\ v.screen.revision >= ui.screen.revision
              /\ v.heard => ui.heard
<1>1. ui \in Client /\ copy \in Bootstrap /\ ui.screen.revision \in Nat
  BY WorldFacts DEF TypeOK, Client, Bootstrap
<1>2. CASE copy = Nothing
  BY <1>1, <1>2, ReportFacts DEF LoadCachedBootstrap
<1>3. CASE copy # Nothing
  <2>1. "cached" \in Status
    BY DEF Status
  <2>2. LoadCachedBootstrap(ui) = ApplyBootstrap(ui, copy, "cached")
    BY <1>3 DEF LoadCachedBootstrap
  <2> QED BY <1>1, <2>1, <2>2, ApplyFacts
<1> QED BY <1>2, <1>3

LEMMA FinishedFacts ==
    ASSUME TypeOK, NEW u \in Client, u.queue # <<>>
    PROVE  LET v == Finished(u)
           IN /\ v \in Client /\ v.queue = Tail(u.queue) /\ v.phase = "rest"
              /\ v.screen = u.screen /\ v.heard = u.heard /\ v.form = u.form
<1>1. u.queue \in Seq(Commands)
  BY DEF Client
<1>2. Tail(u.queue) \in Seq(Commands)
  BY <1>1, HeadTailProperties
<1>3. [u EXCEPT !.queue = Tail(@)] = [u EXCEPT !.queue = Tail(u.queue)]
  OBVIOUS
<1> DEFINE m == [u EXCEPT !.queue = Tail(u.queue)]
<1>4. /\ m \in Client /\ m.queue = Tail(u.queue) /\ m.screen = u.screen
      /\ m.heard = u.heard /\ m.form = u.form
  BY <1>2 DEF Client
<1> DEFINE k == [m EXCEPT !.phase = "rest"]
           v == [k EXCEPT !.body = FALSE]
<1>5. Finished(u) = v
  BY DEF Finished
<1> HIDE DEF m
<1>6. /\ k \in Client /\ k.queue = m.queue /\ k.phase = "rest"
      /\ k.screen = m.screen /\ k.heard = m.heard /\ k.form = m.form
  BY <1>4 DEF Client
<1> HIDE DEF k
<1>7. /\ v \in Client /\ v.queue = k.queue /\ v.phase = k.phase
      /\ v.screen = k.screen /\ v.heard = k.heard /\ v.form = k.form
  BY <1>6 DEF Client
<1> QED BY <1>4, <1>5, <1>6, <1>7

LEMMA BlankIsRows ==
    ASSUME TypeOK
    PROVE  Blank \in Rows /\ Nothing \in Bootstrap
<1>1. <<>> \in Seq(Version)
  BY EmptySeq
<1>2. Blank \in Rows
  BY <1>1, WorldFacts DEF Blank, Rows
<1> QED BY <1>2, WorldFacts DEF Nothing, Bootstrap

LEMMA ClosedFacts ==
    ASSUME TypeOK, NEW u \in Client
    PROVE  LET v == Closed(u)
           IN /\ v \in Client /\ v.queue = u.queue /\ v.phase = u.phase
              /\ v.screen = u.screen /\ v.heard = u.heard
<1>1. Blank \in Rows
  BY BlankIsRows
<1> DEFINE m == [u EXCEPT !.form = "none"]
<1>2. /\ m \in Client /\ m.queue = u.queue /\ m.phase = u.phase
      /\ m.screen = u.screen /\ m.heard = u.heard
  BY DEF Client
<1>3. Closed(u) = [m EXCEPT !.draft = Blank]
  BY DEF Closed
<1> HIDE DEF m
<1>4. LET v == [m EXCEPT !.draft = Blank]
      IN /\ v \in Client /\ v.queue = m.queue /\ v.phase = m.phase
         /\ v.screen = m.screen /\ v.heard = m.heard
  BY <1>1, <1>2 DEF Client
<1> QED BY <1>2, <1>3, <1>4

\* The stored draft and the copy keep their types.
LEMMA ShowFacts ==
    ASSUME TypeOK, NEW u \in Client, Show(u)
    PROVE  ui' = u /\ stored' \in Bootstrap
<1>1. u.draft \in Rows /\ u.screen.revision \in 0 .. world.revisions
  BY DEF Client, Bootstrap
<1>2. Envelope(u) \in Bootstrap
  BY <1>1 DEF Envelope, TypeOK, Bootstrap
<1> QED BY <1>2 DEF Show

LEMMA ShowConfirmedFacts ==
    ASSUME TypeOK, NEW u \in Client, ShowConfirmed(u)
    PROVE  ui' = u /\ stored' \in Bootstrap /\ copy' \in {copy, u.screen} /\ copy' \in Bootstrap
<1>1. copy' \in {copy, u.screen}
  BY DEF ShowConfirmed
<1>2. u.screen \in Bootstrap /\ copy \in Bootstrap
  BY DEF TypeOK, Client
<1> QED BY <1>1, <1>2, ShowFacts DEF ShowConfirmed

LEMMA ReadFacts ==
    ASSUME TypeOK
    PROVE  /\ Idle \in Read /\ Asked \in Read /\ Idle.phase = "idle" /\ Asked.phase = "asked"
           /\ [Idle EXCEPT !.phase = "refused"] \in Read
           /\ \A s \in Slots : reads[s] \in Read /\ Built(s) \in Bootstrap
                               /\ Built(s).revision = reads[s].revision
<1>1. Idle \in Read
  BY BlankIsRows, WorldFacts DEF Idle, Read
<1>2. Asked \in Read /\ Asked.phase = "asked" /\ [Idle EXCEPT !.phase = "refused"] \in Read
  BY <1>1 DEF Asked, Read
<1>3. \A s \in Slots : reads[s] \in Read
  BY DEF TypeOK
<1>4. \A s \in Slots : Built(s) \in Bootstrap /\ Built(s).revision = reads[s].revision
  BY <1>3 DEF Built, Bootstrap, Read
<1> QED BY <1>1, <1>2, <1>3, <1>4 DEF Idle

------------------------------------------------------------------------------
(* Steps that change neither the household nor its records.                 *)
Stands ==
    /\ UNCHANGED <<world, store, recorded, wire>>
    /\ history'.rows = history.rows /\ history'.at = history.at /\ history'.times = history.times

LEMMA RecordsStand ==
    ASSUME Stands, HistoryGrows, RecordsAreKept
    PROVE  HistoryGrows' /\ RecordsAreKept'
<1>1. HistoryGrows'
  BY DEF Stands, HistoryGrows
<1>2. RecordsAreKept'
  BY DEF Stands, RecordsAreKept
<1> QED BY <1>1, <1>2

\* A reading that does not go on is done with or starts from the beginning.
Dropped(s) == reads'[s] = reads[s] \/ reads'[s].phase \in {"idle", "asked", "refused"}

\* What is shown comes from a reading, from the copy or was there.
ShownFrom(s) == reads[s].phase = "built" /\ ui'.screen = Built(s)

LEMMA BootstrapsStand ==
    ASSUME Stands, BootstrapsAreConfirmed,
           ui'.screen \in {ui.screen, copy, Nothing} \/ \E s \in Slots : ShownFrom(s),
           copy' \in {copy, ui'.screen},
           \A s \in Slots : Dropped(s)
    PROVE  BootstrapsAreConfirmed'
<1> DEFINE Good(b) == /\ b.revision \in DOMAIN history.rows
                      /\ AsNew(b.rows, history.rows[b.revision]) /\ AsNew(store.rows, b.rows)
<1>1. ui'.screen # Nothing => Good(ui'.screen)
  BY DEF BootstrapsAreConfirmed, Confirmed, ShownFrom
<1>2. copy' # Nothing => Good(copy')
  BY <1>1 DEF BootstrapsAreConfirmed, Confirmed
<1>3. ASSUME NEW s \in Slots, reads'[s].phase = "counted"
      PROVE  reads'[s].revision \in DOMAIN history.rows
  BY <1>3 DEF BootstrapsAreConfirmed, Dropped
<1>4. ASSUME NEW s \in Slots, reads'[s].phase = "built"
      PROVE  Good(Built(s)')
  <2>1. reads'[s] = reads[s]
    BY <1>4 DEF Dropped
  <2>2. Built(s)' = Built(s)
    BY <2>1 DEF Built
  <2>3. Confirmed(Built(s))
    BY <1>4, <2>1 DEF BootstrapsAreConfirmed
  <2> QED BY <2>2, <2>3 DEF Confirmed
<1>5. history'.rows = history.rows /\ store' = store
  BY DEF Stands
<1> QED BY <1>1, <1>2, <1>3, <1>4, <1>5 DEF BootstrapsAreConfirmed, Confirmed

LEMMA EndingsStand ==
    ASSUME Stands
    PROVE  \A id : /\ Refused(id) => Refused(id)'
                   /\ Settled(id) => Settled(id)'
BY DEF Stands, Refused, Settled

LEMMA ToldStands ==
    ASSUME TypeOK, Stands, ToldIsTrue,
           ui'.screen.revision \in Nat, ui'.screen.revision >= ui.screen.revision,
           ui'.heard =>
              \/ ui.heard
              \/ \E s \in Slots : Reading(s) /\ ui'.screen.revision >= reads[s].revision,
           \A s \in Slots : Dropped(s),
           \A id \in Request :
              \/ history'.told[id] = history.told[id]
              \/ history'.told[id] \notin {"refused", "saved"}
              \/ history'.told[id] = "refused" /\ Refused(id)
              \/ /\ history'.told[id] = "saved" /\ Settled(id)
                 /\ ui'.screen.revision >= history.at[id]
    PROVE  ToldIsTrue'
<1> SUFFICES ASSUME NEW id \in Request
             PROVE  /\ history'.told[id] = "refused" => Refused(id)'
                    /\ history'.told[id] = "saved" =>
                         /\ Settled(id)'
                         /\ \/ ui'.screen.revision >= history'.at[id]
                            \/ /\ ~ui'.heard
                               /\ \A s \in Slots : Reading(s)' => reads'[s].revision >= history'.at[id]
  BY DEF ToldIsTrue
<1>1. /\ history.at[id] \in Nat /\ ui.screen.revision \in Nat
      /\ \A s \in Slots : reads[s].revision \in Nat
  BY WorldFacts DEF TypeOK, Client, Bootstrap, Read
<1>2. history'.at = history.at
  BY DEF Stands
<1>3. history'.told[id] = "refused" => Refused(id)
  BY DEF ToldIsTrue
<1>4. history'.told[id] = "saved" => Settled(id)
  BY DEF ToldIsTrue
<1>5. ASSUME history'.told[id] = "saved", ~(ui'.screen.revision >= history.at[id])
      PROVE  /\ ~ui'.heard
             /\ \A s \in Slots : Reading(s)' => reads'[s].revision >= history.at[id]
  <2>1. history.told[id] = "saved" /\ ~(ui.screen.revision >= history.at[id])
    BY <1>1, <1>5
  <2>2. /\ ~ui.heard
        /\ \A s \in Slots : Reading(s) => reads[s].revision >= history.at[id]
    BY <2>1 DEF ToldIsTrue
  <2>3. ~ui'.heard
    BY <1>1, <1>5, <2>2
  <2>4. \A s \in Slots : Reading(s)' => Reading(s) /\ reads'[s] = reads[s]
    BY DEF Reading, Dropped
  <2> QED BY <2>2, <2>3, <2>4
<1> QED BY <1>2, <1>3, <1>4, <1>5, EndingsStand

LEMMA CommandsStand ==
    ASSUME Stands, CommandsNameVersions, ui'.queue = ui.queue
    PROVE  CommandsNameVersions'
BY DEF Stands, CommandsNameVersions, NamesVersions

\* With the queue as it was, but for what the head's user is told.
LEMMA OrderStands ==
    ASSUME Stands, CommandsAreOrdered, ui'.queue = ui.queue,
           ui'.phase = ui.phase \/ (ui.phase # "rest" /\ ui'.phase # "rest"),
           bounds'.clicks = bounds.clicks,
           \A i \in DOMAIN ui.queue : Waiting(i) =>
              history'.told[ui.queue[i].id] = history.told[ui.queue[i].id]
    PROVE  CommandsAreOrdered'
<1>1. \A i : Waiting(i)' <=> Waiting(i)
  BY DEF Waiting
<1> QED BY <1>1 DEF Stands, CommandsAreOrdered

LEMMA AnswersStand ==
    ASSUME Stands, AnswersAreTrue, ui'.queue = ui.queue, ui'.phase = ui.phase,
           reads'["queue"] = reads["queue"]
    PROVE  AnswersAreTrue'
<1>1. InFlight' = InFlight
  BY DEF InFlight
<1> QED BY <1>1, EndingsStand DEF Stands, AnswersAreTrue, Reading

------------------------------------------------------------------------------
(* Steps of the client that leave its queue as it is.                       *)
LEMMA ReadsReset ==
    ASSUME TypeOK, NEW x \in Slots, NEW v \in {Idle, Asked, [Idle EXCEPT !.phase = "refused"]},
           reads' = [reads EXCEPT ![x] = v]
    PROVE  /\ reads' \in [Slots -> Read] /\ reads'[x] = v
           /\ \A s \in Slots : Dropped(s) /\ (s # x => reads'[s] = reads[s])
<1>1. v \in Read /\ v.phase \in {"idle", "asked", "refused"}
  BY ReadFacts DEF Idle
<1>2. reads \in [Slots -> Read]
  BY DEF TypeOK
<1> QED BY <1>1, <1>2 DEF Dropped

\* The screen after a step: from a reading, from the copy, or as it was.
KeepsScreen ==
    /\ ui' \in Client /\ copy' \in Bootstrap /\ stored' \in Bootstrap
    /\ ui'.screen \in {ui.screen, copy, Nothing} \/ \E s \in Slots : ShownFrom(s)
    /\ copy' \in {copy, ui'.screen}
    /\ ui'.screen.revision >= ui.screen.revision
    /\ ui'.heard =>
         \/ ui.heard
         \/ \E s \in Slots : Reading(s) /\ ui'.screen.revision >= reads[s].revision

LEMMA TypesOfStanding ==
    ASSUME TypeOK, Stands, reads' \in [Slots -> Read], ui' \in Client,
           ui'.queue = <<>> => ui'.phase = "rest", copy' \in Bootstrap, stored' \in Bootstrap,
           bounds' \in [clicks : 0 .. world.requests, copies : 0 .. world.copies,
                        restarts : 0 .. world.restarts],
           history' \in [rows : Seq(Rows), at : [Request -> Nat], times : [Request -> Nat],
                         told : [Request -> Ending]]
    PROVE  TypeOK'
<1>1. world' = world /\ store' = store /\ recorded' = recorded /\ wire' = wire
  BY DEF Stands
<1>2. Version' = Version /\ Rows' = Rows
  BY <1>1 DEF Version, Rows
<1>3. Bootstrap' = Bootstrap /\ Read' = Read
  BY <1>1, <1>2 DEF Bootstrap, Read
<1>4. Client' = Client
  BY <1>2, <1>3 DEF Client
<1> QED BY <1>1, <1>2, <1>3, <1>4 DEF TypeOK, Ending

LEMMA HistoryType ==
    ASSUME TypeOK
    PROVE  /\ history \in [rows : Seq(Rows), at : [Request -> Nat], times : [Request -> Nat],
                           told : [Request -> Ending]]
           /\ bounds \in [clicks : 0 .. world.requests, copies : 0 .. world.copies,
                          restarts : 0 .. world.restarts]
BY DEF TypeOK, Ending

LEMMA ScreenStep ==
    ASSUME WorkspaceInv, UNCHANGED <<world, store, recorded, wire, bounds, history>>,
           KeepsScreen, ui'.queue = ui.queue, ui'.phase = ui.phase,
           reads' \in [Slots -> Read], \A s \in Slots : Dropped(s), reads'["queue"] = reads["queue"]
    PROVE  WorkspaceInv'
<1> USE DEF WorkspaceInv
<1>1. Stands
  BY DEF Stands
<1>2. TypeOK'
  BY <1>1, TypesOfStanding, HistoryType DEF TypeOK, KeepsScreen
<1>3. HistoryGrows' /\ RecordsAreKept'
  BY <1>1, RecordsStand
<1>4. BootstrapsAreConfirmed'
  BY <1>1, BootstrapsStand DEF KeepsScreen
<1>5. CommandsNameVersions' /\ CommandsAreOrdered' /\ AnswersAreTrue'
  BY <1>1, CommandsStand, OrderStands, AnswersStand
<1>6. ui'.screen.revision \in Nat
  BY WorldFacts DEF KeepsScreen, Client, Bootstrap
<1>7. ToldIsTrue'
  BY <1>1, <1>6, ToldStands DEF KeepsScreen
<1> QED BY <1>2, <1>3, <1>4, <1>5, <1>7

\* A step of the form, or one that only changes the status.
LEMMA SameScreen ==
    ASSUME TypeOK, ui' \in Client, stored' \in Bootstrap, copy' = copy,
           ui'.screen = ui.screen, ui'.heard => ui.heard
    PROVE  KeepsScreen
<1>1. ui.screen.revision \in Nat /\ copy \in Bootstrap
  BY WorldFacts DEF TypeOK, Client, Bootstrap
<1> QED BY <1>1 DEF KeepsScreen

LEMMA SameReads ==
    ASSUME TypeOK, reads' = reads
    PROVE  reads' \in [Slots -> Read] /\ \A s \in Slots : Dropped(s)
BY DEF TypeOK, Dropped

LEMMA FormStep ==
    ASSUME WorkspaceInv, UNCHANGED <<world, store, recorded, wire, reads, copy, bounds, history>>,
           ui' \in Client, stored' \in Bootstrap, ui'.screen = ui.screen,
           ui'.queue = ui.queue, ui'.phase = ui.phase,
           ui'.heard => ui.heard
    PROVE  WorkspaceInv'
<1>1. TypeOK
  BY DEF WorkspaceInv
<1> QED BY <1>1, ScreenStep, SameScreen, SameReads

LEMMA OpenDraftStep ==
    ASSUME WorkspaceInv, NEW form \in Forms, OpenDraft(form)
    PROVE  WorkspaceInv'
<1>1. TypeOK /\ ui \in Client /\ ui.screen.rows \in Rows
  BY DEF WorkspaceInv, TypeOK, Client, Bootstrap
<1> DEFINE m == [ui EXCEPT !.form = form]
           u == [m EXCEPT !.draft = ui.screen.rows]
<1>2. /\ m \in Client /\ m.queue = ui.queue /\ m.phase = ui.phase
      /\ m.screen = ui.screen /\ m.heard = ui.heard
  BY <1>1 DEF Client
<1>3. Show([ui EXCEPT !.form = form, !.draft = ui.screen.rows])
  BY DEF OpenDraft
<1>4. Show(u)
  BY <1>3
<1> HIDE DEF m
<1>5. u \in Client /\ u.queue = ui.queue /\ u.phase = ui.phase /\ u.screen = ui.screen /\ u.heard = ui.heard
  BY <1>1, <1>2 DEF Client
<1> HIDE DEF u
<1>6. ui' = u /\ stored' \in Bootstrap
  BY <1>1, <1>4, <1>5, ShowFacts
<1> QED BY <1>5, <1>6, FormStep DEF OpenDraft

LEMMA CloseDraftStep ==
    ASSUME WorkspaceInv, CloseDraft
    PROVE  WorkspaceInv'
<1>1. TypeOK /\ ui \in Client
  BY DEF WorkspaceInv, TypeOK
<1>2. stored' \in Bootstrap
  BY <1>1, BlankIsRows DEF CloseDraft, TypeOK
<1>3. ui' = Closed(ui)
  BY DEF CloseDraft
<1> QED BY <1>1, <1>2, <1>3, ClosedFacts, FormStep DEF CloseDraft

LEMMA GoOfflineStep ==
    ASSUME WorkspaceInv, GoOffline
    PROVE  WorkspaceInv'
<1> DEFINE u == [ui EXCEPT !.status = "cached"]
<1>1. TypeOK /\ ui \in Client /\ "cached" \in Status
  BY DEF WorkspaceInv, TypeOK, Status
<1>2. /\ u \in Client /\ u.queue = ui.queue /\ u.phase = ui.phase
      /\ u.screen = ui.screen /\ u.heard = ui.heard
  BY <1>1, StatusFacts DEF SameQueue
<1>3. Show(u)
  BY DEF GoOffline
<1> HIDE DEF u
<1>4. ui' = u /\ stored' \in Bootstrap
  BY <1>1, <1>2, <1>3, ShowFacts
<1> QED BY <1>2, <1>4, FormStep DEF GoOffline

\* A token for the bank could not be had.
LEMMA FailLinkTokenStep ==
    ASSUME WorkspaceInv, FailLinkToken
    PROVE  WorkspaceInv'
<1> DEFINE u == [ui EXCEPT !.status = "connected"]
<1>1. TypeOK /\ ui \in Client /\ "connected" \in Status
  BY DEF WorkspaceInv, TypeOK, Status
<1>2. /\ u \in Client /\ u.queue = ui.queue /\ u.phase = ui.phase
      /\ u.screen = ui.screen /\ u.heard = ui.heard
  BY <1>1, StatusFacts DEF SameQueue
<1>3. Show(u)
  BY DEF FailLinkToken
<1> HIDE DEF u
<1>4. ui' = u /\ stored' \in Bootstrap
  BY <1>1, <1>2, <1>3, ShowFacts
<1> QED BY <1>2, <1>4, FormStep DEF FailLinkToken

\* The headers of the queue's answer are there.
LEMMA ReceiveHeadersStep ==
    ASSUME WorkspaceInv, ReceiveHeaders
    PROVE  WorkspaceInv'
<1>1. TypeOK /\ ui \in Client /\ stored' = stored /\ stored \in Bootstrap
  BY DEF WorkspaceInv, TypeOK, ReceiveHeaders
<1>2. /\ ui' \in Client /\ ui'.queue = ui.queue /\ ui'.phase = ui.phase
      /\ ui'.screen = ui.screen /\ ui'.heard = ui.heard
  BY <1>1 DEF ReceiveHeaders, Client
<1> QED BY <1>1, <1>2, FormStep DEF ReceiveHeaders

LEMMA MergedType ==
    ASSUME TypeOK, NEW rows \in Rows
    PROVE  Merged(rows) \in Rows
<1> DEFINE old == ui.screen.rows.bills
           bills == [b \in DOMAIN old |-> IF b \in Live(rows) THEN rows.bills[b] ELSE old[b]]
<1>1. ui.screen.rows \in Rows
  BY DEF TypeOK, Client, Bootstrap
<1>2. DOMAIN old = 1 .. Len(old) /\ Len(old) \in Nat /\ \A b \in DOMAIN old : old[b] \in Version
  BY <1>1, RowsFacts
<1>3. \A b \in Live(rows) : rows.bills[b] \in Version
  BY RowsFacts
<1>4. bills \in [1 .. Len(old) -> Version]
  BY <1>2, <1>3
<1>5. bills \in Seq(Version)
  BY <1>2, <1>4, SeqDef
<1>6. Merged(rows) = [ui.screen.rows EXCEPT !.bills = bills]
  BY DEF Merged
<1> HIDE DEF bills
<1> QED BY <1>1, <1>5, <1>6 DEF Rows

LEMMA RestoreDraftStep ==
    ASSUME WorkspaceInv, RestoreDraft
    PROVE  WorkspaceInv'
<1> DEFINE ready == [ui EXCEPT !.ready = TRUE]
           form == [ready EXCEPT !.form = "setup"]
           u == [form EXCEPT !.draft = Merged(stored.rows)]
<1>1. TypeOK /\ ui \in Client /\ stored.rows \in Rows
  BY DEF WorkspaceInv, TypeOK, Bootstrap
<1>2. /\ ready \in Client /\ ready.queue = ui.queue /\ ready.phase = ui.phase
      /\ ready.screen = ui.screen /\ ready.heard = ui.heard
  BY <1>1 DEF Client
<1>3. CASE DraftReady
  <2>1. Show([ui EXCEPT !.ready = TRUE, !.form = "setup", !.draft = Merged(stored.rows)])
    BY <1>3 DEF RestoreDraft
  <2>2. Show(u)
    BY <2>1
  <2> HIDE DEF ready
  <2>3. /\ form \in Client /\ form.queue = ui.queue /\ form.phase = ui.phase
        /\ form.screen = ui.screen /\ form.heard = ui.heard
    BY <1>2 DEF Client, Forms
  <2> HIDE DEF form
  <2>4. /\ u \in Client /\ u.queue = ui.queue /\ u.phase = ui.phase
        /\ u.screen = ui.screen /\ u.heard = ui.heard
    BY <2>3, <1>1, MergedType DEF Client
  <2> HIDE DEF u
  <2>5. ui' = u /\ stored' \in Bootstrap
    BY <1>1, <2>2, <2>4, ShowFacts
  <2> QED BY <2>4, <2>5, FormStep DEF RestoreDraft
<1>4. CASE ~DraftReady
  <2>1. ui' = ready /\ stored' = Nothing
    BY <1>4 DEF RestoreDraft
  <2>2. stored' \in Bootstrap
    BY <1>1, <2>1, BlankIsRows
  <2> HIDE DEF ready
  <2> QED BY <1>2, <2>1, <2>2, FormStep DEF RestoreDraft
<1> QED BY <1>3, <1>4

LEMMA ReloadBackendStep ==
    ASSUME WorkspaceInv, ReloadBackend
    PROVE  WorkspaceInv'
<1>1. TypeOK /\ ui \in Client
  BY DEF WorkspaceInv, TypeOK
<1>2. PICK u : /\ u \in Client /\ Show(u) /\ u.queue = ui.queue /\ u.phase = ui.phase
               /\ u.screen = ui.screen /\ (u.heard => ui.heard)
  <2>1. CASE ui.screen = Nothing
    <3>1. "loading" \in Status
      BY DEF Status
    <3> DEFINE v == [ui EXCEPT !.status = "loading"]
    <3>2. /\ v \in Client /\ v.queue = ui.queue /\ v.phase = ui.phase
          /\ v.screen = ui.screen /\ v.heard = ui.heard
      BY <1>1, <3>1, StatusFacts DEF SameQueue
    <3>3. Show(v)
      BY <2>1 DEF ReloadBackend
    <3> HIDE DEF v
    <3> QED BY <3>2, <3>3, Zenon
  <2>2. CASE ui.screen # Nothing
    BY <1>1, <2>2 DEF ReloadBackend
  <2> QED BY <2>1, <2>2
<1>3. ui' = u /\ stored' \in Bootstrap
  BY <1>1, <1>2, ShowFacts
<1>4. KeepsScreen
  BY <1>1, <1>2, <1>3, SameScreen DEF ReloadBackend
<1>5. "reload" \in Slots /\ reads' = [reads EXCEPT !["reload"] = Asked] /\ "queue" \in Slots
  BY DEF ReloadBackend, Slots
<1>6. /\ reads' \in [Slots -> Read] /\ \A s \in Slots : Dropped(s)
      /\ reads'["queue"] = reads["queue"]
  BY <1>1, <1>5, ReadsReset
<1> QED BY <1>2, <1>3, <1>4, <1>6, ScreenStep DEF ReloadBackend

\* A reading that is over is shown, or is older than the screen.
LEMMA ShownReading ==
    ASSUME WorkspaceInv, NEW s \in Slots, reads[s].phase = "built", NEW u \in Client,
           u.screen \in {ui.screen, Built(s)}, u.screen.revision >= ui.screen.revision,
           u.screen.revision >= reads[s].revision, ShowConfirmed(u)
    PROVE  KeepsScreen /\ ui' = u
<1>1. TypeOK
  BY DEF WorkspaceInv
<1>2. ui' = u /\ stored' \in Bootstrap /\ copy' \in {copy, u.screen} /\ copy' \in Bootstrap
  BY <1>1, ShowConfirmedFacts
<1>3. ui'.screen \in {ui.screen, copy, Nothing} \/ ShownFrom(s)
  BY <1>2 DEF ShownFrom
<1>4. Reading(s) /\ ui'.screen.revision >= reads[s].revision
  BY <1>2 DEF Reading
<1> QED BY <1>2, <1>3, <1>4 DEF KeepsScreen

LEMMA AppliedReading ==
    ASSUME WorkspaceInv, NEW s \in Slots, reads[s].phase = "built",
           ShowConfirmed(ApplyBootstrap(ui, Built(s), "connected"))
    PROVE  KeepsScreen /\ ui'.queue = ui.queue /\ ui'.phase = ui.phase
<1>1. TypeOK /\ ui \in Client /\ "connected" \in Status
  BY DEF WorkspaceInv, TypeOK, Status
<1> DEFINE u == ApplyBootstrap(ui, Built(s), "connected")
<1>2. /\ u \in Client /\ SameQueue(u, ui) /\ u.screen \in {ui.screen, Built(s)}
      /\ u.screen.revision >= ui.screen.revision /\ u.screen.revision >= reads[s].revision
  BY <1>1, ApplyFacts, ReadFacts
<1> HIDE DEF u
<1> QED BY <1>2, ShownReading DEF SameQueue, u

LEMMA ReceiveReloadStep ==
    ASSUME WorkspaceInv, ReceiveReload
    PROVE  WorkspaceInv'
<1>1. TypeOK /\ "reload" \in Slots /\ "queue" \in Slots
  BY DEF WorkspaceInv, Slots
<1>2. KeepsScreen /\ ui'.queue = ui.queue /\ ui'.phase = ui.phase
  BY <1>1, AppliedReading DEF ReceiveReload
<1>3. /\ reads' \in [Slots -> Read] /\ \A s \in Slots : Dropped(s)
      /\ reads'["queue"] = reads["queue"]
  BY <1>1, ReadsReset DEF ReceiveReload
<1> QED BY <1>2, <1>3, ScreenStep DEF ReceiveReload

LEMMA ReceivePollStep ==
    ASSUME WorkspaceInv, ReceivePoll
    PROVE  WorkspaceInv'
<1>1. TypeOK /\ "poll" \in Slots /\ "queue" \in Slots
  BY DEF WorkspaceInv, Slots
<1>2. KeepsScreen /\ ui'.queue = ui.queue /\ ui'.phase = ui.phase
  BY <1>1, AppliedReading DEF ReceivePoll
<1>3. /\ reads' \in [Slots -> Read] /\ \A s \in Slots : Dropped(s)
      /\ reads'["queue"] = reads["queue"]
  BY <1>1, ReadsReset DEF ReceivePoll
<1> QED BY <1>2, <1>3, ScreenStep DEF ReceivePoll

LEMMA LosePollStep ==
    ASSUME WorkspaceInv, LosePoll
    PROVE  WorkspaceInv'
<1>1. TypeOK /\ "poll" \in Slots /\ "queue" \in Slots /\ ui \in Client /\ stored \in Bootstrap
  BY DEF WorkspaceInv, Slots, TypeOK
<1>2. KeepsScreen
  BY <1>1, SameScreen DEF LosePoll
<1>3. /\ reads' \in [Slots -> Read] /\ \A s \in Slots : Dropped(s)
      /\ reads'["queue"] = reads["queue"]
  BY <1>1, ReadsReset DEF LosePoll
<1> QED BY <1>2, <1>3, ScreenStep DEF LosePoll

LEMMA LoseReloadStep ==
    ASSUME WorkspaceInv, LoseReload
    PROVE  WorkspaceInv'
<1>1. TypeOK /\ "reload" \in Slots /\ "queue" \in Slots /\ copy \in Bootstrap
  BY DEF WorkspaceInv, Slots, TypeOK
<1> DEFINE u == LoadCachedBootstrap(ui)
<1>2. /\ u \in Client /\ SameQueue(u, ui) /\ u.screen \in {ui.screen, copy}
      /\ u.screen.revision >= ui.screen.revision
      /\ u.heard => ui.heard
  BY <1>1, LoadCachedFacts
<1>3. Show(u)
  BY DEF LoseReload
<1> HIDE DEF u
<1>4. ui' = u /\ stored' \in Bootstrap
  BY <1>1, <1>2, <1>3, ShowFacts
<1>5. KeepsScreen
  BY <1>1, <1>2, <1>4 DEF KeepsScreen, LoseReload
<1>6. /\ reads' \in [Slots -> Read] /\ \A s \in Slots : Dropped(s)
      /\ reads'["queue"] = reads["queue"]
  BY <1>1, ReadsReset DEF LoseReload
<1> QED BY <1>2, <1>4, <1>5, <1>6, ScreenStep DEF LoseReload, SameQueue

\* The command in flight is the first of the queue.
LEMMA HeadFacts ==
    ASSUME TypeOK, ui.phase # "rest"
    PROVE  /\ ui.queue \in Seq(Commands) /\ ui.queue # <<>>
           /\ 1 \in DOMAIN ui.queue /\ InFlight = ui.queue[1]
           /\ InFlight \in Commands /\ InFlight.id \in Request
<1>1. ui.queue \in Seq(Commands) /\ ui.queue # <<>>
  BY DEF TypeOK, Client
<1>2. Len(ui.queue) \in Nat \ {0} /\ DOMAIN ui.queue = 1 .. Len(ui.queue)
  BY <1>1, EmptySeq, LenProperties
<1>3. InFlight = ui.queue[1] /\ InFlight \in Commands
  BY <1>1, <1>2, HeadTailProperties DEF InFlight
<1> QED BY <1>1, <1>2, <1>3 DEF Commands

------------------------------------------------------------------------------
(* A bootstrap is read.                                                     *)
LEMMA ReadRevisionStep ==
    ASSUME WorkspaceInv, NEW slot \in Slots, ReadRevision(slot)
    PROVE  WorkspaceInv'
<1> USE DEF WorkspaceInv
<1> DEFINE m == [reads[slot] EXCEPT !.phase = "counted"]
           r == [m EXCEPT !.revision = store.revision]
<1>1. Stands /\ reads[slot] \in Read /\ store.revision \in 1 .. world.revisions
      /\ store.revision \in 0 .. world.revisions
  BY WorldFacts DEF ReadRevision, Stands, TypeOK, Bootstrap
<1>2. m \in Read /\ m.phase = "counted"
  BY <1>1 DEF Read
<1>3. reads' = [reads EXCEPT ![slot].phase = "counted", ![slot].revision = store.revision]
  BY DEF ReadRevision
<1>4. reads' = [reads EXCEPT ![slot] = r]
  BY <1>3 DEF TypeOK
<1> HIDE DEF m
<1>5. r \in Read /\ r.phase = "counted" /\ r.revision = store.revision
  BY <1>1, <1>2 DEF Read
<1> HIDE DEF r
<1>6. reads' \in [Slots -> Read] /\ \A s \in Slots : reads'[s] = IF s = slot THEN r ELSE reads[s]
  BY <1>4, <1>5 DEF TypeOK
<1>7. TypeOK'
  BY <1>1, <1>6, TypesOfStanding, HistoryType DEF ReadRevision, TypeOK
<1>8. HistoryGrows' /\ RecordsAreKept' /\ CommandsNameVersions' /\ CommandsAreOrdered'
  BY <1>1, RecordsStand, CommandsStand, OrderStands DEF ReadRevision
<1>9. BootstrapsAreConfirmed'
  <2>1. store.revision \in DOMAIN history.rows
    BY <1>1, LenProperties, WorldFacts DEF HistoryGrows, TypeOK
  <2>2. \A s \in Slots : reads'[s].phase = "counted" => reads'[s].revision \in DOMAIN history.rows
    BY <1>5, <1>6, <2>1 DEF BootstrapsAreConfirmed
  <2>3. \A s \in Slots : reads'[s].phase = "built" => reads[s].phase = "built" /\ Built(s)' = Built(s)
    BY <1>5, <1>6 DEF Built
  <2>4. /\ ui' = ui /\ copy' = copy /\ store' = store /\ history'.rows = history.rows
    BY DEF ReadRevision
  <2> QED BY <2>2, <2>3, <2>4 DEF BootstrapsAreConfirmed, Confirmed
<1>10. \A id \in Request : store.revision >= history.at[id]
  BY <1>1, WorldFacts DEF RecordsAreKept, TypeOK
<1>11. ui.phase = "sent" => InFlight \in Commands /\ InFlight.id \in Request
  BY HeadFacts
<1>12. AnswersAreTrue'
  <2>1. /\ ui' = ui /\ history' = history /\ InFlight' = InFlight /\ reads[slot].phase = "asked"
    BY DEF ReadRevision, InFlight
  <2>2. "queue" \in Slots
    BY DEF Slots
  <2>3. CASE slot = "queue"
    <3>1. ui.phase # "rest" /\ (ui.phase = "sent" => Settled(InFlight.id))
      BY <2>1, <2>3 DEF AnswersAreTrue
    <3>2. reads'["queue"] = r
      BY <1>6, <2>2, <2>3
    <3>3. ui.phase = "sent" => Settled(InFlight.id)' /\ store.revision >= history.at[InFlight.id]
      BY <1>1, <1>10, <1>11, <2>1, <3>1, EndingsStand
    <3> QED BY <1>5, <2>1, <3>1, <3>2, <3>3 DEF AnswersAreTrue, Reading
  <2>4. CASE slot # "queue"
    BY <1>1, <1>6, <2>1, <2>2, <2>4, AnswersStand
  <2> QED BY <2>3, <2>4
<1>13. ToldIsTrue'
  <2>1. /\ ui' = ui /\ history' = history
    BY DEF ReadRevision
  <2>2. ASSUME NEW id \in Request, NEW s \in Slots, Reading(s)',
               ~(ui.screen.revision >= history.at[id]), history.told[id] = "saved"
        PROVE  reads'[s].revision >= history.at[id]
    <3>1. CASE s = slot
      BY <1>5, <1>6, <1>10, <3>1
    <3>2. CASE s # slot
      BY <1>6, <2>2, <3>2 DEF ToldIsTrue, Reading
    <3> QED BY <3>1, <3>2
  <2> QED BY <1>1, <2>1, <2>2, EndingsStand DEF ToldIsTrue
<1> QED BY <1>7, <1>8, <1>9, <1>12, <1>13

LEMMA ReadRowsStep ==
    ASSUME WorkspaceInv, NEW slot \in Slots, ReadRows(slot)
    PROVE  WorkspaceInv'
<1> USE DEF WorkspaceInv
<1> DEFINE m == [reads[slot] EXCEPT !.phase = "built"]
           r == [m EXCEPT !.rows = store.rows]
<1>1. Stands /\ reads[slot] \in Read /\ store.rows \in Rows
  BY DEF ReadRows, Stands, TypeOK, Bootstrap
<1>2. m \in Read /\ m.phase = "built" /\ m.revision = reads[slot].revision
  BY <1>1 DEF Read
<1>3. reads' = [reads EXCEPT ![slot].phase = "built", ![slot].rows = store.rows]
  BY DEF ReadRows
<1>4. reads' = [reads EXCEPT ![slot] = r]
  BY <1>3 DEF TypeOK
<1> HIDE DEF m
<1>5. r \in Read /\ r.phase = "built" /\ r.revision = reads[slot].revision /\ r.rows = store.rows
  BY <1>1, <1>2 DEF Read
<1> HIDE DEF r
<1>6. reads' \in [Slots -> Read] /\ \A s \in Slots : reads'[s] = IF s = slot THEN r ELSE reads[s]
  BY <1>4, <1>5 DEF TypeOK
<1>7. TypeOK'
  BY <1>1, <1>6, TypesOfStanding, HistoryType DEF ReadRows, TypeOK
<1>8. HistoryGrows' /\ RecordsAreKept' /\ CommandsNameVersions' /\ CommandsAreOrdered'
  BY <1>1, RecordsStand, CommandsStand, OrderStands DEF ReadRows
<1>9. BootstrapsAreConfirmed'
  <2>1. /\ ui' = ui /\ copy' = copy /\ store' = store /\ history'.rows = history.rows
    BY DEF ReadRows
  <2>2. ASSUME NEW s \in Slots, reads'[s].phase = "built"
        PROVE  Confirmed(Built(s))'
    <3>1. CASE s = slot
      <4>1. reads[slot].revision \in DOMAIN history.rows
        BY DEF ReadRows, BootstrapsAreConfirmed
      <4>2. AsNew(store.rows, history.rows[reads[slot].revision])
        BY <4>1 DEF HistoryGrows
      <4>3. Built(s)' = [revision |-> reads[slot].revision, rows |-> store.rows]
        BY <1>5, <1>6, <3>1 DEF Built
      <4>4. AsNew(store.rows, store.rows)
        BY <1>1, AsNewReflexive
      <4> QED BY <2>1, <4>1, <4>2, <4>3, <4>4 DEF Confirmed
    <3>2. CASE s # slot
      <4>1. reads'[s] = reads[s]
        BY <1>6, <3>2
      <4>2. Built(s)' = Built(s)
        BY <4>1 DEF Built
      <4>3. Confirmed(Built(s))
        BY <2>2, <4>1 DEF BootstrapsAreConfirmed
      <4> QED BY <2>1, <4>2, <4>3 DEF Confirmed
    <3> QED BY <3>1, <3>2
  <2>3. \A s \in Slots : reads'[s].phase = "counted" => reads[s].phase = "counted" /\ reads'[s] = reads[s]
    BY <1>5, <1>6
  <2> QED BY <2>1, <2>2, <2>3 DEF BootstrapsAreConfirmed, Confirmed
<1>10. \A s \in Slots : /\ Reading(s)' => Reading(s)
                        /\ reads'[s].revision = reads[s].revision
  BY <1>5, <1>6 DEF Reading, ReadRows
<1>11. AnswersAreTrue'
  <2>1. ui' = ui /\ history' = history /\ InFlight' = InFlight /\ reads[slot].phase = "counted"
    BY DEF ReadRows, InFlight
  <2>2. "queue" \in Slots
    BY DEF Slots
  <2>3. CASE slot = "queue"
    <3>1. ui.phase # "rest" /\ (ui.phase = "sent" => Settled(InFlight.id)
                                  /\ reads["queue"].revision >= history.at[InFlight.id])
      BY <2>1, <2>3 DEF AnswersAreTrue, Reading
    <3>2. reads'["queue"] = r
      BY <1>6, <2>2, <2>3
    <3>3. ui.phase = "sent" => Settled(InFlight.id)'
      BY <1>1, <3>1, <2>1, EndingsStand
    <3> QED BY <1>5, <2>1, <2>3, <3>1, <3>2, <3>3 DEF AnswersAreTrue, Reading
  <2>4. CASE slot # "queue"
    BY <1>1, <1>6, <2>1, <2>2, <2>4, AnswersStand
  <2> QED BY <2>3, <2>4
<1>12. ToldIsTrue'
  <2>1. ui' = ui /\ history' = history
    BY DEF ReadRows
  <2> QED BY <1>1, <1>10, <2>1, EndingsStand DEF ToldIsTrue
<1> QED BY <1>7, <1>8, <1>9, <1>11, <1>12

------------------------------------------------------------------------------
(* A command is given.                                                      *)
LEMMA ScreenIsOlder ==
    ASSUME WorkspaceInv
    PROVE  ui.screen.rows \in Rows /\ store.rows \in Rows /\ AsNew(store.rows, ui.screen.rows)
<1>1. TypeOK /\ ui.screen.rows \in Rows /\ store.rows \in Rows
  BY DEF WorkspaceInv, TypeOK, Client, Bootstrap
<1>2. CASE ui.screen = Nothing
  <2>1. ui.screen.rows = Blank
    BY <1>2 DEF Nothing
  <2>2. store.rows.plan >= 0 /\ store.rows.goal >= 0 /\ Len(store.rows.bills) >= 0
    BY <1>1, RowsFacts, WorldFacts
  <2>3. Len(Blank.bills) = 0 /\ DOMAIN Blank.bills = {}
    BY DEF Blank
  <2> QED BY <1>1, <2>1, <2>2, <2>3 DEF AsNew, Blank
<1>3. CASE ui.screen # Nothing
  BY <1>1, <1>3 DEF WorkspaceInv, BootstrapsAreConfirmed, Confirmed
<1> QED BY <1>1, <1>2, <1>3

LEMMA ToldType ==
    ASSUME TypeOK, NEW id \in Request, NEW what \in Ending, history' = Told(id, what)
    PROVE  /\ history' \in [rows : Seq(Rows), at : [Request -> Nat], times : [Request -> Nat],
                            told : [Request -> Ending]]
           /\ history'.rows = history.rows /\ history'.at = history.at /\ history'.times = history.times
           /\ history'.told[id] = what
           /\ \A i \in Request \ {id} : history'.told[i] = history.told[i]
<1> DEFINE t == [history.told EXCEPT ![id] = what]
<1>1. history.told \in [Request -> Ending]
  BY DEF TypeOK, Ending
<1>2. t \in [Request -> Ending] /\ t[id] = what /\ \A i \in Request \ {id} : t[i] = history.told[i]
  BY <1>1
<1>3. history' = [history EXCEPT !.told = t]
  BY DEF Told
<1> HIDE DEF t
<1> QED BY <1>2, <1>3, HistoryType

LEMMA IdTypes ==
    ASSUME TypeOK
    PROVE  /\ \A i \in DOMAIN ui.queue : /\ ui.queue[i] \in Commands
                                         /\ ui.queue[i].id \in Request /\ ui.queue[i].id \in Nat
           /\ \A r \in wire : r.id \in Request /\ r.id \in Nat
           /\ \A id \in recorded : id \in Nat
           /\ bounds.clicks \in Nat /\ Request \subseteq Nat
<1>1. Request \subseteq Nat
  BY DEF Request
<1>2. ui.queue \in Seq(Commands)
  BY DEF TypeOK, Client
<1>3. \A i \in DOMAIN ui.queue : ui.queue[i] \in Commands
  BY <1>2, LenProperties, ElementOfSeq
<1>4. \A r \in Commands : r.id \in Request
  BY DEF Commands
<1>5. bounds.clicks \in Nat
  BY WorldFacts DEF TypeOK
<1> QED BY <1>1, <1>3, <1>4, <1>5 DEF TypeOK

LEMMA MutateStep ==
    ASSUME WorkspaceInv, NEW command \in Commands, Mutate(command),
           command.id = bounds.clicks + 1, NamesVersions(command)
    PROVE  WorkspaceInv'
<1> USE DEF WorkspaceInv
<1> DEFINE n == Len(ui.queue)
           u == [ui EXCEPT !.queue = Append(ui.queue, command)]
<1>1. /\ bounds.clicks \in Nat /\ command.id \in Request /\ ui \in Client /\ ui.queue \in Seq(Commands)
      /\ "open" \in Ending
  BY WorldFacts DEF TypeOK, Commands, Client, Ending
<1>2. /\ Append(ui.queue, command) \in Seq(Commands) /\ Append(ui.queue, command) # <<>>
      /\ Len(Append(ui.queue, command)) = n + 1 /\ n \in Nat
      /\ \A i \in 1 .. n : Append(ui.queue, command)[i] = ui.queue[i]
      /\ Append(ui.queue, command)[n + 1] = command
      /\ DOMAIN ui.queue = 1 .. n /\ DOMAIN Append(ui.queue, command) = 1 .. n + 1
  BY <1>1, AppendProperties, LenProperties
<1>3. /\ u \in Client /\ u.queue = Append(ui.queue, command) /\ u.phase = ui.phase
      /\ u.screen = ui.screen /\ u.heard = ui.heard
  BY <1>1, <1>2 DEF Client
<1>4. Show(u)
  BY DEF Mutate
<1> HIDE DEF u
<1>5. ui' = u /\ stored' \in Bootstrap
  BY <1>3, <1>4, ShowFacts
<1>6. /\ history'.rows = history.rows /\ history'.at = history.at /\ history'.times = history.times
      /\ history'.told[command.id] = "open"
      /\ \A i \in Request \ {command.id} : history'.told[i] = history.told[i]
      /\ history' \in [rows : Seq(Rows), at : [Request -> Nat], times : [Request -> Nat],
                       told : [Request -> Ending]]
  BY <1>1, ToldType DEF Mutate
<1>7. Stands
  BY <1>6 DEF Mutate, Stands
<1>8. /\ bounds'.clicks = bounds.clicks + 1
      /\ bounds' \in [clicks : 0 .. world.requests, copies : 0 .. world.copies,
                      restarts : 0 .. world.restarts]
  <2>1. bounds.clicks + 1 \in 0 .. world.requests
    BY <1>1, WorldFacts DEF Mutate
  <2>2. bounds' = [bounds EXCEPT !.clicks = bounds.clicks + 1]
    BY DEF Mutate
  <2> QED BY <2>1, <2>2, HistoryType
<1>9. TypeOK'
  <2>1. copy' \in Bootstrap /\ reads' \in [Slots -> Read]
    BY DEF Mutate, TypeOK
  <2> QED BY <1>2, <1>3, <1>5, <1>6, <1>7, <1>8, <2>1, TypesOfStanding
<1>10. HistoryGrows' /\ RecordsAreKept'
  BY <1>7, RecordsStand
<1>11. \A s \in Slots : Dropped(s)
  BY DEF Mutate, Dropped
<1>12. BootstrapsAreConfirmed'
  BY <1>3, <1>5, <1>7, <1>11, BootstrapsStand DEF Mutate
<1>13. CommandsNameVersions'
  <2>1. store' = store /\ wire' = wire
    BY DEF Mutate
  <2>2. \A i \in 1 .. n + 1 : NamesVersions(Append(ui.queue, command)[i])
    BY <1>2 DEF CommandsNameVersions
  <2> QED BY <1>2, <1>3, <1>5, <2>1, <2>2 DEF CommandsNameVersions, NamesVersions
<1>14. CommandsAreOrdered'
  <2> DEFINE q == Append(ui.queue, command)
  <2>1. recorded' = recorded /\ wire' = wire /\ ui'.queue = q /\ ui'.phase = ui.phase
    BY <1>3, <1>5 DEF Mutate
  <2>2. \A i \in 1 .. n : ui.queue[i] \in Commands /\ ui.queue[i].id \in Request
    BY <1>2, IdTypes
  <2>3. \A r \in wire : r.id \in Request
    BY DEF TypeOK, Commands
  <2>4. Request \subseteq Nat
    BY DEF Request
  <2>5. ASSUME NEW i \in 1 .. n
        PROVE  /\ q[i].id <= bounds.clicks + 1
               /\ \A j \in 1 .. n + 1 : i < j => q[i].id < q[j].id
               /\ Waiting(i) => /\ q[i].id \notin recorded /\ history'.told[q[i].id] = "open"
                                /\ \A r \in wire : r.id # q[i].id
    <3>1. q[i] = ui.queue[i] /\ ui.queue[i].id \in Nat /\ ui.queue[i].id <= bounds.clicks
      BY <1>2, <2>2, <2>4 DEF CommandsAreOrdered
    <3>2. \A j \in 1 .. n : i < j => q[i].id < q[j].id
      BY <1>2, <3>1 DEF CommandsAreOrdered
    <3>3. q[i].id < q[n + 1].id
      BY <1>1, <1>2, <3>1
    <3>4. q[i].id # command.id /\ history'.told[q[i].id] = history.told[q[i].id]
      <4>1. ui.queue[i].id # command.id
        BY <1>1, <3>1
      <4>2. ui.queue[i].id \in Request
        BY <2>2
      <4> QED BY <1>6, <3>1, <4>1, <4>2
    <3>5. \A j \in 1 .. n + 1 : j \in 1 .. n \/ j = n + 1
      BY <1>2
    <3> HIDE DEF q
    <3>6. Waiting(i) => /\ q[i].id \notin recorded /\ history.told[q[i].id] = "open"
                        /\ \A r \in wire : r.id # q[i].id
      BY <1>2, <3>1 DEF CommandsAreOrdered
    <3> QED BY <1>1, <3>1, <3>2, <3>3, <3>4, <3>5, <3>6
  <2>6. /\ q[n + 1].id <= bounds.clicks + 1
        /\ \A j \in 1 .. n + 1 : n + 1 < j => q[n + 1].id < q[j].id
        /\ q[n + 1].id \notin recorded /\ history'.told[q[n + 1].id] = "open"
        /\ \A r \in wire : r.id # q[n + 1].id
    <3>1. q[n + 1] = command
      BY <1>2
    <3>2. \A id \in recorded : id <= bounds.clicks /\ id \in Nat
      BY <2>4 DEF CommandsAreOrdered, TypeOK
    <3>3. \A r \in wire : r.id <= bounds.clicks /\ r.id \in Nat
      BY <2>3, <2>4 DEF CommandsAreOrdered
    <3>4. \A j \in 1 .. n + 1 : ~(n + 1 < j)
      BY <1>2
    <3> QED BY <1>1, <1>6, <3>1, <3>2, <3>3, <3>4
  <2>7. ASSUME NEW r \in wire
        PROVE  r.id <= bounds.clicks + 1 /\ \A p \in wire : p.id = r.id => p = r
    <3>1. r.id <= bounds.clicks /\ \A p \in wire : p.id = r.id => p = r
      BY DEF CommandsAreOrdered
    <3>2. r.id \in Nat /\ bounds.clicks \in Nat
      BY <1>1, <2>3, <2>4
    <3> QED BY <3>1, <3>2
  <2>8. \A id \in recorded : id <= bounds.clicks + 1
    <3>1. \A id \in recorded : id <= bounds.clicks /\ id \in Nat
      BY <2>4 DEF CommandsAreOrdered, TypeOK
    <3> QED BY <1>1, <3>1
  <2>9. \A i : Waiting(i)' <=> Waiting(i)
    BY <2>1 DEF Waiting
  <2>10. DOMAIN q = 1 .. n + 1 /\ \A i \in DOMAIN q : i \in 1 .. n \/ i = n + 1
    BY <1>2
  <2> HIDE DEF q
  <2> QED BY <1>8, <2>1, <2>5, <2>6, <2>7, <2>8, <2>9, <2>10 DEF CommandsAreOrdered
<1>15. ui.phase # "rest" => InFlight' = InFlight
  <2>1. ui.phase # "rest" => ui.queue # <<>>
    BY DEF TypeOK
  <2>2. Head(Append(ui.queue, command)) = IF ui.queue = <<>> THEN command ELSE Head(ui.queue)
    BY <1>1, HeadTailAppend
  <2> QED BY <1>3, <1>5, <2>1, <2>2 DEF InFlight
<1>16. AnswersAreTrue'
  <2>1. reads' = reads /\ ui'.phase = ui.phase /\ history'.at = history.at
    BY <1>3, <1>5, <1>6 DEF Mutate
  <2> QED BY <1>7, <1>15, <2>1, EndingsStand DEF AnswersAreTrue, Reading
<1>17. ToldIsTrue'
  <2>1. /\ ui'.screen = ui.screen /\ ui'.heard = ui.heard
        /\ ui.screen.revision \in Nat
    BY <1>1, <1>3, <1>5, WorldFacts DEF Client, Bootstrap
  <2> QED BY <1>6, <1>7, <1>11, <2>1, ToldStands
<1> QED BY <1>9, <1>10, <1>12, <1>13, <1>14, <1>16, <1>17

LEMMA CommandFacts ==
    ASSUME WorkspaceInv, NEW kind \in Kinds, bounds.clicks < world.requests
    PROVE  /\ Command(kind) \in Commands /\ NamesVersions(Command(kind))
           /\ Command(kind).id = bounds.clicks + 1
<1>1. TypeOK
  BY DEF WorkspaceInv
<1>2. /\ ui.screen.rows.plan \in Nat /\ ui.screen.rows.goal \in Nat
      /\ ui.screen.rows.plan <= store.rows.plan /\ ui.screen.rows.goal <= store.rows.goal
  BY <1>1, ScreenIsOlder, RowsFacts, WorldFacts DEF AsNew
<1>3. bounds.clicks + 1 \in Request
  BY <1>1, IdTypes, WorldFacts DEF Request
<1> QED BY <1>2, <1>3 DEF Command, Commands, NamesVersions

LEMMA ClickStep ==
    ASSUME WorkspaceInv, NEW kind \in world.clicks, Click(kind)
    PROVE  WorkspaceInv'
<1>1. kind \in Kinds /\ Mutate(Command(kind)) /\ bounds.clicks < world.requests
  BY WorldFacts DEF WorkspaceInv, Click, Mutate
<1> QED BY <1>1, CommandFacts, MutateStep

LEMMA SaveDraftStep ==
    ASSUME WorkspaceInv, SaveDraft
    PROVE  WorkspaceInv'
<1>0. PICK kept \in SUBSET Live(ui.draft) : \E edited \in SUBSET kept : \E more \in 0 .. 1 :
         SavePlanCalibration(kept, edited, more)
  BY DEF SaveDraft
<1>1. PICK edited \in SUBSET kept, more \in 0 .. 1 : SavePlanCalibration(kept, edited, more)
  BY <1>0
<1> DEFINE screen == ui.screen.rows.bills
           known == Live(ui.screen.rows)
           keep == {[bill |-> b, version |-> screen[b],
                     content |-> IF b \in edited THEN 0 ELSE ui.draft.bills[b]] : b \in kept \cap known}
           gone == {[bill |-> b, version |-> screen[b]] : b \in known \ kept}
           new == more + Cardinality(kept \ known)
           base == Command("calibrate")
           c == [base EXCEPT !.keep = keep, !.remove = gone, !.new = new]
<1>2. TypeOK /\ ui.draft \in Rows
  BY DEF WorkspaceInv, TypeOK, Client
<1>3. Mutate(c)
  BY <1>1 DEF SavePlanCalibration
<1>4. /\ base \in Commands /\ NamesVersions(base) /\ base.id = bounds.clicks + 1
  BY <1>3, CommandFacts DEF Mutate, Kinds
<1>5. \A b \in known : /\ b \in Nat /\ screen[b] \in Nat
                       /\ b \in DOMAIN store.rows.bills /\ screen[b] <= store.rows.bills[b]
  <2>1. /\ ui.screen.rows \in Rows /\ store.rows \in Rows
        /\ Len(store.rows.bills) >= Len(screen)
        /\ \A b \in DOMAIN screen : store.rows.bills[b] >= screen[b]
    BY ScreenIsOlder DEF AsNew
  <2>2. /\ Len(store.rows.bills) \in Nat /\ DOMAIN store.rows.bills = 1 .. Len(store.rows.bills)
        /\ \A b \in DOMAIN store.rows.bills : store.rows.bills[b] \in Nat
    BY <1>2, <2>1, RowsFacts
  <2>3. /\ Len(screen) \in Nat /\ DOMAIN screen = 1 .. Len(screen)
        /\ \A b \in DOMAIN screen : screen[b] \in Nat
        /\ known \subseteq DOMAIN screen
    BY <1>2, <2>1, RowsFacts
  <2> QED BY <2>1, <2>2, <2>3
<1>6. \A b \in kept : b \in DOMAIN ui.draft.bills /\ ui.draft.bills[b] \in Nat
  BY <1>2, RowsFacts
<1>7. keep \in SUBSET [bill : Nat, version : Nat, content : Nat]
  BY <1>5, <1>6
<1>8. gone \in SUBSET [bill : Nat, version : Nat]
  BY <1>5
<1>9. new \in Nat
  <2>0. /\ Len(ui.draft.bills) \in Nat /\ kept \subseteq 1 .. Len(ui.draft.bills)
    BY <1>2, RowsFacts
  <2>1. IsFiniteSet(1 .. Len(ui.draft.bills))
    BY <2>0, FS_Interval
  <2>2. IsFiniteSet(kept \ known)
    BY <2>0, <2>1, FS_Subset
  <2> QED BY <2>2, FS_CardinalityType
<1>10. \A k \in keep \cup gone : k.bill \in DOMAIN store.rows.bills /\ k.version <= store.rows.bills[k.bill]
  BY <1>5
<1> HIDE DEF keep, gone, new, base
<1> DEFINE c1 == [base EXCEPT !.keep = keep]
           c2 == [c1 EXCEPT !.remove = gone]
           c3 == [c2 EXCEPT !.new = new]
<1>11. c = c3
  OBVIOUS
<1>12. c1 \in Commands /\ c1.id = base.id /\ c1.plan = base.plan /\ c1.goal = base.goal /\ c1.keep = keep
  BY <1>4, <1>7 DEF Commands
<1> HIDE DEF c, c1
<1>13. /\ c2 \in Commands /\ c2.id = base.id /\ c2.plan = base.plan /\ c2.goal = base.goal
       /\ c2.keep = keep /\ c2.remove = gone
  BY <1>8, <1>12 DEF Commands
<1> HIDE DEF c2
<1>14. /\ c3 \in Commands /\ c3.id = base.id /\ c3.plan = base.plan /\ c3.goal = base.goal
       /\ c3.keep = keep /\ c3.remove = gone
  BY <1>9, <1>13 DEF Commands
<1> HIDE DEF c3
<1>15. NamesVersions(c3)
  BY <1>4, <1>10, <1>14 DEF NamesVersions
<1> QED BY <1>3, <1>4, <1>11, <1>14, <1>15, MutateStep

------------------------------------------------------------------------------
(* The head of the queue is sent.                                           *)
LEMMA SendStep ==
    ASSUME WorkspaceInv, Send
    PROVE  WorkspaceInv'
<1> USE DEF WorkspaceInv
<1> DEFINE r0 == [InFlight EXCEPT !.plan = ui.screen.rows.plan]
           u == [ui EXCEPT !.phase = "sent"]
<1>1. /\ ui \in Client /\ ui.phase = "rest" /\ ui.queue \in Seq(Commands) /\ ui.queue # <<>>
      /\ ui' = u /\ wire' = wire \cup {r0}
  BY DEF Send, TypeOK, Client, InFlight
<1>2. u \in Client /\ u.queue = ui.queue /\ u.screen = ui.screen /\ u.heard = ui.heard /\ u.phase = "sent"
  BY <1>1 DEF Client
<1>3. /\ Len(ui.queue) \in Nat \ {0} /\ DOMAIN ui.queue = 1 .. Len(ui.queue)
      /\ InFlight = ui.queue[1] /\ InFlight \in Commands
  BY <1>1, EmptySeq, LenProperties, HeadTailProperties DEF InFlight
<1>4. /\ ui.screen.rows.plan \in Nat /\ ui.screen.rows.plan <= store.rows.plan
  BY ScreenIsOlder, RowsFacts, WorldFacts DEF AsNew
<1>5. /\ r0 \in Commands /\ r0.id = InFlight.id /\ r0.plan = ui.screen.rows.plan /\ r0.goal = InFlight.goal
      /\ r0.keep = InFlight.keep /\ r0.remove = InFlight.remove
  BY <1>3, <1>4 DEF Commands
<1>6. 1 \in DOMAIN ui.queue /\ Waiting(1)
  BY <1>1, <1>3 DEF Waiting
<1>7. /\ InFlight.id <= bounds.clicks /\ InFlight.id \notin recorded
      /\ history.told[InFlight.id] = "open" /\ \A r \in wire : r.id # InFlight.id
  BY <1>3, <1>6 DEF CommandsAreOrdered
<1>8. /\ world' = world /\ store' = store /\ recorded' = recorded /\ reads' = reads
      /\ copy' = copy /\ stored' = stored /\ bounds' = bounds /\ history' = history
  BY DEF Send
<1> HIDE DEF u, r0
<1>9. TypeOK'
  <2>1. Version' = Version /\ Rows' = Rows
    BY <1>8 DEF Version, Rows
  <2>2. Bootstrap' = Bootstrap /\ Read' = Read
    BY <1>8, <2>1 DEF Bootstrap, Read
  <2>3. Client' = Client
    BY <2>1, <2>2 DEF Client
  <2> QED BY <1>1, <1>2, <1>5, <1>8, <2>1, <2>2, <2>3 DEF TypeOK
<1>10. HistoryGrows' /\ RecordsAreKept'
  BY <1>8 DEF HistoryGrows, RecordsAreKept
<1>11. BootstrapsAreConfirmed'
  BY <1>1, <1>2, <1>8 DEF BootstrapsAreConfirmed, Confirmed, Built
<1>12. CommandsNameVersions'
  <2>1. NamesVersions(InFlight)
    BY <1>3, <1>6 DEF CommandsNameVersions
  <2>2. NamesVersions(r0)
    BY <1>4, <1>5, <2>1 DEF NamesVersions
  <2> QED BY <1>1, <1>2, <1>8, <2>2 DEF CommandsNameVersions, NamesVersions
<1>13. CommandsAreOrdered'
  <2>1. ASSUME NEW i \in DOMAIN ui.queue, i > 1
        PROVE  /\ ui.queue[i].id \notin recorded /\ history.told[ui.queue[i].id] = "open"
               /\ \A r \in wire' : r.id # ui.queue[i].id
    <3>1. ui.queue[1].id < ui.queue[i].id /\ ui.queue[1].id \in Nat /\ ui.queue[i].id \in Nat
      BY <1>6, <2>1, IdTypes DEF CommandsAreOrdered
    <3>2. r0.id # ui.queue[i].id
      BY <1>3, <1>5, <3>1
    <3>3. Waiting(i)
      BY <2>1 DEF Waiting
    <3> QED BY <1>1, <3>2, <3>3 DEF CommandsAreOrdered
  <2>2. \A r \in wire' : r.id <= bounds.clicks /\ \A q \in wire' : q.id = r.id => q = r
    BY <1>1, <1>5, <1>7 DEF CommandsAreOrdered
  <2>3. \A i : Waiting(i)' <=> i > 1
    BY <1>1, <1>2 DEF Waiting
  <2> QED BY <1>1, <1>2, <1>8, <2>1, <2>2, <2>3 DEF CommandsAreOrdered
<1>14. AnswersAreTrue'
  BY <1>1, <1>2, <1>8 DEF AnswersAreTrue, Reading
<1>15. ToldIsTrue'
  <2>1. ASSUME NEW id \in Request, history.told[id] # "open"
        PROVE  (Refused(id) => Refused(id)') /\ (Settled(id) => Settled(id)')
    <3>1. r0.id # id
      BY <1>5, <1>7, <2>1
    <3> QED BY <1>1, <1>8, <3>1 DEF Refused, Settled
  <2> QED BY <1>1, <1>2, <1>8, <2>1 DEF ToldIsTrue, Reading
<1> QED BY <1>9, <1>10, <1>11, <1>12, <1>13, <1>14, <1>15

------------------------------------------------------------------------------
(* The head of the queue is answered, or its client gives up.               *)
LEMMA FinishStep ==
    ASSUME WorkspaceInv, ui.phase # "rest", UNCHANGED <<world, store, recorded, wire, bounds>>,
           KeepsScreen, ui'.queue = Tail(ui.queue), ui'.phase = "rest",
           reads' \in [Slots -> Read], reads'["queue"] = Idle, \A s \in Slots : Dropped(s),
           history' \in [rows : Seq(Rows), at : [Request -> Nat], times : [Request -> Nat],
                         told : [Request -> Ending]],
           history'.rows = history.rows, history'.at = history.at, history'.times = history.times,
           \A id \in Request :
              \/ history'.told[id] = history.told[id]
              \/ /\ id = InFlight.id /\ history'.told[id] = "saved" /\ Settled(id)
                 /\ ui'.screen.revision >= history.at[id]
    PROVE  WorkspaceInv'
<1> USE DEF WorkspaceInv
<1>1. Stands
  BY DEF Stands
<1>2. TypeOK'
  <2>1. copy' \in Bootstrap /\ stored' \in Bootstrap /\ ui' \in Client
    BY DEF KeepsScreen
  <2> QED BY <1>1, <2>1, TypesOfStanding, HistoryType
<1>3. HistoryGrows' /\ RecordsAreKept'
  BY <1>1, RecordsStand
<1>4. BootstrapsAreConfirmed'
  BY <1>1, BootstrapsStand DEF KeepsScreen
<1>5. /\ Len(Tail(ui.queue)) = Len(ui.queue) - 1 /\ Len(ui.queue) \in Nat
      /\ DOMAIN Tail(ui.queue) = 1 .. Len(ui.queue) - 1 /\ DOMAIN ui.queue = 1 .. Len(ui.queue)
      /\ \A i \in 1 .. Len(ui.queue) - 1 : Tail(ui.queue)[i] = ui.queue[i + 1]
  BY HeadFacts, HeadTailProperties, LenProperties
<1>6. \A i \in DOMAIN ui'.queue : i + 1 \in DOMAIN ui.queue /\ ui'.queue[i] = ui.queue[i + 1] /\ i \in Nat \ {0}
  BY <1>5
<1>7. CommandsNameVersions'
  BY <1>1, <1>6 DEF Stands, CommandsNameVersions, NamesVersions
<1>8. CommandsAreOrdered'
  <2>1. ASSUME NEW i \in DOMAIN ui'.queue
        PROVE  /\ ui'.queue[i].id <= bounds.clicks
               /\ \A j \in DOMAIN ui'.queue : i < j => ui'.queue[i].id < ui'.queue[j].id
               /\ ui'.queue[i].id \notin recorded /\ history'.told[ui'.queue[i].id] = "open"
               /\ \A r \in wire : r.id # ui'.queue[i].id
    <3>1. i + 1 \in DOMAIN ui.queue /\ ui'.queue[i] = ui.queue[i + 1] /\ 1 < i + 1
      BY <1>6
    <3>2. Waiting(i + 1)
      BY <1>6 DEF Waiting
    <3>3. \A j \in DOMAIN ui'.queue : i < j => ui'.queue[i].id < ui'.queue[j].id
      <4>1. ASSUME NEW j \in DOMAIN ui'.queue, i < j
            PROVE  ui'.queue[i].id < ui'.queue[j].id
        <5>1. /\ j + 1 \in DOMAIN ui.queue /\ ui'.queue[j] = ui.queue[j + 1]
              /\ i + 1 < j + 1
          BY <1>6, <4>1
        <5> QED BY <3>1, <5>1 DEF CommandsAreOrdered
      <4> QED BY <4>1
    <3>4. ui.queue[1].id < ui.queue[i + 1].id /\ ui.queue[1].id \in Nat /\ InFlight = ui.queue[1]
      BY <3>1, HeadFacts, IdTypes DEF CommandsAreOrdered
    <3>5. ui.queue[i + 1].id # InFlight.id /\ ui.queue[i + 1].id \in Request
      BY <3>1, <3>4, IdTypes
    <3>6. history'.told[ui.queue[i + 1].id] = history.told[ui.queue[i + 1].id]
      BY <3>5
    <3> QED BY <3>1, <3>2, <3>3, <3>6 DEF CommandsAreOrdered
  <2> QED BY <1>1, <2>1 DEF CommandsAreOrdered, Stands
<1>9. AnswersAreTrue'
  BY ReadFacts DEF AnswersAreTrue
<1>10. ToldIsTrue'
  <2>1. ui'.screen.revision \in Nat
    BY WorldFacts DEF KeepsScreen, Client, Bootstrap
  <2> QED BY <1>1, <2>1, ToldStands DEF KeepsScreen
<1> QED BY <1>2, <1>3, <1>4, <1>7, <1>8, <1>9, <1>10

LEMMA LoseReconciliationStep ==
    ASSUME WorkspaceInv, LoseReconciliation
    PROVE  WorkspaceInv'
<1>1. TypeOK /\ ui \in Client /\ ui.phase # "rest" /\ ui.queue # <<>>
  BY DEF WorkspaceInv, TypeOK, LoseReconciliation
<1> DEFINE u == Finished(ReportError(ui))
<1>2. /\ u \in Client /\ u.queue = Tail(ui.queue) /\ u.phase = "rest"
      /\ u.screen = ui.screen /\ u.heard = ui.heard
  BY <1>1, ReportFacts, FinishedFacts DEF SameQueue
<1>3. Show(u)
  BY DEF LoseReconciliation
<1> HIDE DEF u
<1>4. ui' = u /\ stored' \in Bootstrap
  BY <1>1, <1>2, <1>3, ShowFacts
<1>5. KeepsScreen
  BY <1>1, <1>2, <1>4, SameScreen DEF LoseReconciliation
<1>6. /\ reads' \in [Slots -> Read] /\ \A s \in Slots : Dropped(s)
      /\ reads'["queue"] = Idle
  BY <1>1, ReadsReset DEF LoseReconciliation, Slots
<1> QED BY <1>1, <1>2, <1>4, <1>5, <1>6, FinishStep, HistoryType DEF LoseReconciliation

LEMMA ReceiveReconciliationStep ==
    ASSUME WorkspaceInv, ReceiveReconciliation
    PROVE  WorkspaceInv'
<1>1. /\ TypeOK /\ ui \in Client /\ ui.phase # "rest" /\ ui.queue # <<>>
      /\ "queue" \in Slots /\ "connected" \in Status /\ reads["queue"].phase = "built"
  BY DEF WorkspaceInv, TypeOK, ReceiveReconciliation, Slots, Status
<1> DEFINE a == ApplyBootstrap(ui, Built("queue"), "connected")
           c == [a EXCEPT !.status = "connected"]
           u == Finished(c)
<1>2. /\ a \in Client /\ SameQueue(a, ui) /\ a.screen \in {ui.screen, Built("queue")}
      /\ a.screen.revision >= ui.screen.revision /\ a.screen.revision >= reads["queue"].revision
  BY <1>1, ApplyFacts, ReadFacts
<1>3. ShowConfirmed(u)
  BY DEF ReceiveReconciliation
<1> HIDE DEF a
<1>4. c \in Client /\ SameQueue(c, a) /\ c.screen = a.screen
  BY <1>1, <1>2, StatusFacts
<1> HIDE DEF c
<1>5. u \in Client /\ u.queue = Tail(ui.queue) /\ u.phase = "rest" /\ u.screen = a.screen
  BY <1>1, <1>2, <1>4, FinishedFacts DEF SameQueue
<1> HIDE DEF u
<1>6. KeepsScreen /\ ui' = u
  BY <1>1, <1>2, <1>3, <1>5, ShownReading
<1>7. /\ reads' \in [Slots -> Read] /\ \A s \in Slots : Dropped(s)
      /\ reads'["queue"] = Idle
  BY <1>1, ReadsReset DEF ReceiveReconciliation
<1> QED BY <1>1, <1>5, <1>6, <1>7, FinishStep, HistoryType DEF ReceiveReconciliation

LEMMA ReceiveAnswerStep ==
    ASSUME WorkspaceInv, ReceiveAnswer
    PROVE  WorkspaceInv'
<1>1. /\ TypeOK /\ ui \in Client /\ ui.phase = "sent" /\ ui.queue # <<>>
      /\ "queue" \in Slots /\ "poll" \in Slots /\ "connected" \in Status /\ reads["queue"].phase = "built"
  BY DEF WorkspaceInv, TypeOK, ReceiveAnswer, Slots, Status
<1> DEFINE a == ApplyBootstrap(ui, Built("queue"), "connected")
           c == Saved(a)
           u == Finished(c)
<1>2. /\ a \in Client /\ SameQueue(a, ui) /\ a.screen \in {ui.screen, Built("queue")}
      /\ a.screen.revision >= ui.screen.revision /\ a.screen.revision >= reads["queue"].revision
  BY <1>1, ApplyFacts, ReadFacts
<1>3. ShowConfirmed(u)
  BY DEF ReceiveAnswer
<1> HIDE DEF a
<1>4. c \in Client /\ c.queue = ui.queue /\ c.screen = a.screen
  BY <1>1, <1>2, ClosedFacts DEF Saved, SameQueue
<1> HIDE DEF c
<1>5. u \in Client /\ u.queue = Tail(ui.queue) /\ u.phase = "rest" /\ u.screen = a.screen
  BY <1>1, <1>2, <1>4, FinishedFacts
<1> HIDE DEF u
<1>6. KeepsScreen /\ ui' = u
  BY <1>1, <1>2, <1>3, <1>5, ShownReading
<1>7. /\ reads' \in [Slots -> Read] /\ \A s \in Slots : Dropped(s)
      /\ reads'["queue"] = Idle
  <2>1. reads' = [reads EXCEPT !["queue"] = Idle,
                               !["poll"] = IF InFlight.kind = "sync" THEN Asked ELSE @]
    BY DEF ReceiveAnswer
  <2>2. \A s \in Slots : reads'[s] = IF s = "queue" THEN Idle
                                     ELSE IF s = "poll" /\ InFlight.kind = "sync" THEN Asked
                                     ELSE reads[s]
    BY <1>1, <2>1 DEF TypeOK
  <2>3. reads' \in [Slots -> Read]
    BY <1>1, <2>1, ReadFacts DEF TypeOK
  <2> QED BY <1>1, <2>2, <2>3, ReadFacts DEF Dropped
<1>8. InFlight.id \in Request
  BY <1>1, HeadFacts
<1>9. Settled(InFlight.id) /\ reads["queue"].revision >= history.at[InFlight.id]
  BY <1>1 DEF WorkspaceInv, AnswersAreTrue, Reading
<1>10. ui'.screen.revision >= history.at[InFlight.id]
  <2>1. ui'.screen.revision \in Nat
    <3>1. ui'.screen \in Bootstrap
      BY <1>5, <1>6 DEF Client
    <3> QED BY <1>1, <3>1, WorldFacts DEF Bootstrap
  <2>2. reads["queue"].revision \in Nat
    <3>1. reads["queue"] \in Read
      BY <1>1 DEF TypeOK
    <3> QED BY <1>1, <3>1, WorldFacts DEF Read
  <2>3. history.at[InFlight.id] \in Nat
    BY <1>1, <1>8, HistoryType
  <2> QED BY <1>2, <1>5, <1>6, <1>9, <2>1, <2>2, <2>3
<1>11. /\ history' \in [rows : Seq(Rows), at : [Request -> Nat], times : [Request -> Nat],
                        told : [Request -> Ending]]
       /\ history'.rows = history.rows /\ history'.at = history.at /\ history'.times = history.times
       /\ history'.told[InFlight.id] = "saved"
       /\ \A i \in Request \ {InFlight.id} : history'.told[i] = history.told[i]
  BY <1>1, <1>8, ToldType DEF ReceiveAnswer, Ending
<1> QED BY <1>1, <1>5, <1>6, <1>7, <1>9, <1>10, <1>11, FinishStep DEF ReceiveAnswer

LEMMA ReconcileStep ==
    ASSUME WorkspaceInv, ui.phase = "sent", NEW w \in Client, SameQueue(w, ui), w.screen = ui.screen,
           w.heard => ui.heard,
           NEW what \in {"refused", "unknown"}, what = "refused" => Refused(InFlight.id),
           Reconcile(w, what)
    PROVE  WorkspaceInv'
<1> USE DEF WorkspaceInv
<1> DEFINE k == [w EXCEPT !.phase = "reconciling"]
           u == [k EXCEPT !.body = FALSE]
<1>2. Show(u)
  BY DEF Reconcile, Reconciling
<1>0. /\ k \in Client /\ k.queue = ui.queue /\ k.phase = "reconciling"
      /\ k.screen = ui.screen /\ k.heard = w.heard
  BY DEF Client, SameQueue
<1> HIDE DEF k
<1>1. /\ u \in Client /\ u.queue = ui.queue /\ u.phase = "reconciling"
      /\ u.screen = ui.screen /\ u.heard = w.heard
  BY <1>0 DEF Client
<1> HIDE DEF u
<1>3. ui' = u /\ stored' \in Bootstrap
  BY <1>1, <1>2, ShowFacts
<1>4. InFlight.id \in Request /\ ui.queue # <<>> /\ InFlight = ui.queue[1] /\ 1 \in DOMAIN ui.queue
  BY HeadFacts
<1>5. /\ history' \in [rows : Seq(Rows), at : [Request -> Nat], times : [Request -> Nat],
                       told : [Request -> Ending]]
      /\ history'.rows = history.rows /\ history'.at = history.at /\ history'.times = history.times
      /\ history'.told[InFlight.id] = what
      /\ \A i \in Request \ {InFlight.id} : history'.told[i] = history.told[i]
  BY <1>4, ToldType DEF Reconcile, Ending
<1>6. Stands
  BY <1>5 DEF Stands, Reconcile
<1>7. KeepsScreen
  BY <1>1, <1>3, SameScreen DEF Reconcile
<1>8. /\ reads' \in [Slots -> Read] /\ reads'["queue"] = Asked /\ \A s \in Slots : Dropped(s)
  BY ReadsReset DEF Reconcile, Slots
<1>9. TypeOK'
  BY <1>1, <1>3, <1>4, <1>5, <1>6, <1>8, TypesOfStanding, HistoryType DEF Reconcile, TypeOK
<1>10. HistoryGrows' /\ RecordsAreKept'
  BY <1>6, RecordsStand
<1>11. BootstrapsAreConfirmed' /\ CommandsNameVersions'
  BY <1>1, <1>3, <1>6, <1>7, <1>8, BootstrapsStand, CommandsStand DEF KeepsScreen
<1>12. CommandsAreOrdered'
  <2>1. ASSUME NEW i \in DOMAIN ui.queue, Waiting(i)
        PROVE  history'.told[ui.queue[i].id] = history.told[ui.queue[i].id]
    <3>1. i > 1 /\ i \in Nat
      BY <2>1, HeadFacts, LenProperties DEF Waiting
    <3>2. /\ ui.queue[1].id < ui.queue[i].id
          /\ ui.queue[1].id \in Nat /\ ui.queue[i].id \in Nat /\ ui.queue[i].id \in Request
      BY <1>4, <3>1, IdTypes DEF CommandsAreOrdered
    <3>3. ui.queue[i].id # InFlight.id
      BY <1>4, <3>2
    <3> QED BY <1>5, <3>2, <3>3
  <2>2. bounds'.clicks = bounds.clicks
    BY DEF Reconcile
  <2> QED BY <1>1, <1>3, <1>6, <2>1, <2>2, OrderStands
<1>13. AnswersAreTrue'
  BY <1>1, <1>3, <1>8, ReadFacts DEF AnswersAreTrue
<1>14. ToldIsTrue'
  <2>1. ui.screen.revision \in Nat
    BY WorldFacts DEF TypeOK, Client, Bootstrap
  <2> QED BY <1>1, <1>3, <1>5, <1>6, <1>8, <2>1, ToldStands
<1> QED BY <1>9, <1>10, <1>11, <1>12, <1>13, <1>14

LEMMA ReceiveRefusalStep ==
    ASSUME WorkspaceInv, ReceiveRefusal
    PROVE  WorkspaceInv'
<1>1. ui \in Client /\ SameQueue(ui, ui)
  BY DEF WorkspaceInv, TypeOK, SameQueue
<1>2. Refused(InFlight.id)
  BY DEF WorkspaceInv, AnswersAreTrue, ReceiveRefusal
<1> QED BY <1>1, <1>2, ReconcileStep DEF ReceiveRefusal

LEMMA LoseAnswerStep ==
    ASSUME WorkspaceInv, LoseAnswer
    PROVE  WorkspaceInv'
<1> DEFINE w == [ui EXCEPT !.status = "cached"]
<1>1. w \in Client /\ SameQueue(w, ui) /\ w.screen = ui.screen /\ w.heard = ui.heard
  BY StatusFacts DEF WorkspaceInv, TypeOK, Status
<1>2. Reconcile(w, "unknown")
  BY DEF LoseAnswer
<1> HIDE DEF w
<1> QED BY <1>1, <1>2, ReconcileStep DEF LoseAnswer

\* The client starts again: it knows nothing, and nothing is in flight.
LEMMA RestartStep ==
    ASSUME WorkspaceInv, Restart
    PROVE  WorkspaceInv'
<1> USE DEF WorkspaceInv
<1>1. Mounted \in Client
  <2>1. <<>> \in Seq(Commands)
    BY EmptySeq
  <2> QED BY <2>1, BlankIsRows DEF Mounted, Client
<1>2. /\ reads' \in [Slots -> Read] /\ \A s \in Slots : reads'[s].phase \in {"idle", "asked"}
      /\ reads'["queue"].phase = "idle"
  BY ReadFacts DEF Restart, Slots
<1> DEFINE t == [id \in Request |-> IF history.told[id] = "open" THEN "unknown" ELSE history.told[id]]
<1>3. t \in [Request -> Ending]
  BY HistoryType DEF Ending
<1>4. history' = [history EXCEPT !.told = t]
  BY DEF Restart
<1>5. \A id \in Request : t[id] \in {"refused", "saved"} => history.told[id] = t[id]
  OBVIOUS
<1> HIDE DEF t
<1>6. /\ history' \in [rows : Seq(Rows), at : [Request -> Nat], times : [Request -> Nat],
                       told : [Request -> Ending]]
      /\ history'.rows = history.rows /\ history'.at = history.at /\ history'.times = history.times
      /\ history'.told = t
  BY <1>3, <1>4, HistoryType
<1>7. Stands
  BY <1>6 DEF Stands, Restart
<1>8. /\ bounds' \in [clicks : 0 .. world.requests, copies : 0 .. world.copies,
                      restarts : 0 .. world.restarts]
      /\ bounds'.clicks = bounds.clicks
  <2>1. bounds.restarts + 1 \in 0 .. world.restarts
    BY HistoryType, WorldFacts DEF Restart
  <2>2. bounds' = [bounds EXCEPT !.restarts = bounds.restarts + 1]
    BY DEF Restart
  <2> QED BY <2>1, <2>2, HistoryType
<1>9. /\ ui' = Mounted /\ ui'.queue = <<>> /\ ui'.phase = "rest" /\ ui'.screen = Nothing
      /\ ~ui'.heard /\ copy' = copy /\ stored' = stored
  BY DEF Restart, Mounted
<1>10. TypeOK'
  BY <1>1, <1>2, <1>6, <1>7, <1>8, <1>9, TypesOfStanding DEF TypeOK
<1>11. HistoryGrows' /\ RecordsAreKept'
  BY <1>7, RecordsStand
<1>12. BootstrapsAreConfirmed'
  BY <1>2, <1>7, <1>9, BootstrapsStand DEF Dropped
<1>13. CommandsNameVersions'
  BY <1>7, <1>9 DEF CommandsNameVersions, NamesVersions, Stands
<1>14. CommandsAreOrdered'
  BY <1>7, <1>8, <1>9 DEF CommandsAreOrdered, Stands
<1>15. AnswersAreTrue'
  BY <1>2, <1>9 DEF AnswersAreTrue
<1>16. ToldIsTrue'
  BY <1>2, <1>5, <1>6, <1>7, <1>9, EndingsStand DEF ToldIsTrue, Reading
<1> QED BY <1>10, <1>11, <1>12, <1>13, <1>14, <1>15, <1>16

------------------------------------------------------------------------------
(* The household changes.                                                   *)
Grows(rows) ==
    /\ Grown(rows) /\ store.revision < world.revisions /\ world' = world
    /\ store' = [revision |-> store.revision + 1, rows |-> rows]
    /\ history'.rows = Append(history.rows, rows)

LEMMA GrownTypes ==
    ASSUME WorkspaceInv, NEW rows, Grows(rows)
    PROVE  /\ store' \in Bootstrap /\ store'.revision > 0 /\ history'.rows \in Seq(Rows)
           /\ store'.revision = store.revision + 1 /\ store'.rows = rows /\ store.revision \in Nat
           /\ rows \in Rows /\ store.rows \in Rows /\ AsNew(rows, store.rows)
<1>1. store.revision \in 1 .. world.revisions /\ store.rows \in Rows /\ history.rows \in Seq(Rows)
  BY WorldFacts DEF WorkspaceInv, TypeOK, Bootstrap
<1>2. rows \in Rows /\ AsNew(rows, store.rows)
  BY DEF Grows, Grown
<1>3. Append(history.rows, rows) \in Seq(Rows)
  BY <1>1, <1>2, AppendProperties
<1>4. store.revision + 1 \in 0 .. world.revisions
  BY <1>1, WorldFacts DEF WorkspaceInv, Grows
<1> QED BY <1>1, <1>2, <1>3, <1>4 DEF Grows, Bootstrap

LEMMA HistoryAppended ==
    ASSUME WorkspaceInv, NEW rows, Grows(rows)
    PROVE  /\ HistoryGrows'
           /\ \A i \in DOMAIN history.rows : /\ i \in DOMAIN history'.rows
                                             /\ history'.rows[i] = history.rows[i]
<1> DEFINE n == Len(history.rows)
<1>1. /\ TypeOK /\ HistoryGrows /\ history.rows \in Seq(Rows) /\ rows \in Rows /\ store.rows \in Rows
      /\ AsNew(rows, store.rows) /\ store'.revision = store.revision + 1 /\ store'.rows = rows
      /\ store.revision \in Nat
  BY GrownTypes DEF WorkspaceInv, TypeOK
<1>2. /\ n \in Nat /\ DOMAIN history.rows = 1 .. n
      /\ Len(Append(history.rows, rows)) = n + 1
      /\ DOMAIN Append(history.rows, rows) = 1 .. n + 1
      /\ \A i \in 1 .. n : Append(history.rows, rows)[i] = history.rows[i]
      /\ Append(history.rows, rows)[n + 1] = rows
  BY <1>1, AppendProperties, LenProperties
<1>3. history'.rows = Append(history.rows, rows)
  BY DEF Grows
<1>4. Len(history'.rows) = store'.revision
  BY <1>1, <1>2, <1>3 DEF HistoryGrows
<1>5. ASSUME NEW i \in 1 .. n
      PROVE  AsNew(rows, history.rows[i])
  <2>1. AsNew(store.rows, history.rows[i])
    BY <1>1, <1>2 DEF HistoryGrows
  <2>2. history.rows[i] \in Rows
    BY <1>1, ElementOfSeq
  <2> QED BY <1>1, <2>1, <2>2, AsNewTransitive
<1>6. AsNew(rows, rows)
  BY <1>1, AsNewReflexive
<1>7. \A i \in DOMAIN history'.rows : AsNew(rows, history'.rows[i])
  <2>1. \A i \in 1 .. n + 1 : i \in 1 .. n \/ i = n + 1
    BY <1>2
  <2> QED BY <1>2, <1>3, <1>5, <1>6, <2>1
<1>8. /\ rows.plan <= store.revision + 1 /\ rows.goal <= store.revision + 1
      /\ \A b \in DOMAIN rows.bills : rows.bills[b] \in 0 .. store.revision + 1 \cup {Gone}
  <2>1. /\ rows.plan \in 0 .. store.revision + 1 /\ rows.goal \in 0 .. store.revision + 1
        /\ rows.bills \in Seq(0 .. store.revision + 1 \cup {Gone})
    BY DEF Grows, Grown, Counted
  <2> QED BY <1>1, <2>1, LenProperties, ElementOfSeq
<1>9. HistoryGrows'
  BY <1>1, <1>4, <1>7, <1>8 DEF HistoryGrows
<1> QED BY <1>2, <1>3, <1>9

\* What was confirmed, and what commands name, stays so.
LEMMA ConfirmedGrows ==
    ASSUME WorkspaceInv, NEW rows, Grows(rows), NEW b \in Bootstrap, Confirmed(b)
    PROVE  /\ b.revision \in DOMAIN history'.rows
           /\ AsNew(b.rows, history'.rows[b.revision]) /\ AsNew(store'.rows, b.rows)
<1>1. b.rows \in Rows /\ TypeOK
  BY DEF Bootstrap, WorkspaceInv
<1>2. AsNew(rows, b.rows)
  BY <1>1, GrownTypes, AsNewTransitive DEF Confirmed
<1> QED BY <1>2, GrownTypes, HistoryAppended DEF Confirmed

LEMMA BootstrapsGrow ==
    ASSUME WorkspaceInv, NEW rows, Grows(rows), UNCHANGED <<ui, copy>>, \A s \in Slots : Dropped(s)
    PROVE  BootstrapsAreConfirmed'
<1>1. TypeOK /\ ui.screen \in Bootstrap /\ copy \in Bootstrap /\ BootstrapsAreConfirmed
  BY DEF WorkspaceInv, TypeOK, Client
<1>2. \A b \in {ui.screen, copy} : b # Nothing =>
            /\ b.revision \in DOMAIN history'.rows
            /\ AsNew(b.rows, history'.rows[b.revision]) /\ AsNew(store'.rows, b.rows)
  BY <1>1, ConfirmedGrows DEF BootstrapsAreConfirmed
<1>3. ASSUME NEW s \in Slots, reads'[s].phase = "built"
      PROVE  Confirmed(Built(s))'
  <2>1. reads'[s] = reads[s]
    BY <1>3 DEF Dropped
  <2>2. Built(s)' = Built(s)
    BY <2>1 DEF Built
  <2>3. Confirmed(Built(s)) /\ Built(s) \in Bootstrap
    BY <1>1, <1>3, <2>1, ReadFacts DEF BootstrapsAreConfirmed
  <2>4. /\ Built(s).revision \in DOMAIN history'.rows
        /\ AsNew(Built(s).rows, history'.rows[Built(s).revision]) /\ AsNew(store'.rows, Built(s).rows)
    BY <2>3, ConfirmedGrows
  <2> QED BY <2>2, <2>4 DEF Confirmed
<1>4. ASSUME NEW s \in Slots, reads'[s].phase = "counted"
      PROVE  reads'[s].revision \in DOMAIN history'.rows
  <2>1. reads'[s] = reads[s]
    BY <1>4 DEF Dropped
  <2> QED BY <1>1, <1>4, <2>1, HistoryAppended DEF BootstrapsAreConfirmed
<1> QED BY <1>2, <1>3, <1>4 DEF BootstrapsAreConfirmed, Confirmed

LEMMA NamesGrow ==
    ASSUME WorkspaceInv, NEW rows, Grows(rows), NEW r \in Commands, NamesVersions(r)
    PROVE  NamesVersions(r)' /\ (Accepts(rows, r) => Accepts(store.rows, r))
<1>1. TypeOK /\ rows \in Rows /\ store.rows \in Rows /\ AsNew(rows, store.rows) /\ store'.rows = rows
  BY GrownTypes DEF WorkspaceInv
<1>2. r.plan \in Nat /\ r.goal \in Nat /\ \A k \in r.keep \cup r.remove : k.version \in Nat
  BY DEF Commands
<1>3. r.plan <= rows.plan /\ r.goal <= rows.goal
  <2>1. /\ rows.plan \in Nat /\ rows.goal \in Nat
        /\ store.rows.plan \in Nat /\ store.rows.goal \in Nat
    BY <1>1, RowsFacts, WorldFacts
  <2>2. /\ store.rows.plan <= rows.plan /\ store.rows.goal <= rows.goal
        /\ r.plan <= store.rows.plan /\ r.goal <= store.rows.goal
    BY <1>1, <2>1 DEF AsNew, NamesVersions
  <2> QED BY <1>2, <2>1, <2>2
<1>4. ASSUME NEW k \in r.keep \cup r.remove
      PROVE  k.bill \in DOMAIN rows.bills /\ k.version <= rows.bills[k.bill]
  <2>1. k.bill \in DOMAIN store.rows.bills /\ k.version <= store.rows.bills[k.bill] /\ k.version \in Nat
    BY <1>2 DEF NamesVersions
  <2>2. /\ Len(rows.bills) >= Len(store.rows.bills)
        /\ rows.bills[k.bill] >= store.rows.bills[k.bill]
    BY <1>1, <2>1 DEF AsNew
  <2>3. k.bill \in DOMAIN rows.bills
    BY <1>1, <2>1, <2>2, RowsFacts
  <2>4. rows.bills[k.bill] \in Nat /\ store.rows.bills[k.bill] \in Nat
    BY <1>1, <2>1, <2>3, RowsFacts
  <2> QED BY <2>1, <2>2, <2>3, <2>4
<1>5. NamesVersions(r)'
  BY <1>1, <1>3, <1>4 DEF NamesVersions
<1>6. Accepts(rows, r) => Accepts(store.rows, r)
  BY <1>1, RefusalStands DEF NamesVersions
<1> QED BY <1>5, <1>6

LEMMA CommandsGrow ==
    ASSUME WorkspaceInv, NEW rows, Grows(rows), ui' = ui, wire' \subseteq wire
    PROVE  CommandsNameVersions'
<1>1. \A r \in wire : r \in Commands /\ NamesVersions(r)
  BY DEF WorkspaceInv, CommandsNameVersions, TypeOK
<1>2. \A i \in DOMAIN ui.queue : ui.queue[i] \in Commands /\ NamesVersions(ui.queue[i])
  BY IdTypes DEF WorkspaceInv, CommandsNameVersions
<1>3. \A r \in wire : NamesVersions(r)'
  BY <1>1, NamesGrow
<1>4. ASSUME NEW i \in DOMAIN ui.queue
      PROVE  NamesVersions(ui.queue[i])'
  <2>1. \A r : r = ui.queue[i] => NamesVersions(r)'
    BY <1>2, NamesGrow
  <2> QED BY <2>1 DEF NamesVersions
<1> QED BY <1>3, <1>4 DEF CommandsNameVersions, NamesVersions

\* A refusal stays one while nothing records its request.
LEMMA RefusedGrows ==
    ASSUME WorkspaceInv, NEW rows, Grows(rows), wire' \subseteq wire,
           NEW id, Refused(id), id \notin recorded'
    PROVE  Refused(id)'
<1>1. \A r \in wire : r \in Commands /\ NamesVersions(r)
  BY DEF WorkspaceInv, CommandsNameVersions, TypeOK
<1>2. \A r \in wire : Accepts(rows, r) => Accepts(store.rows, r)
  BY <1>1, NamesGrow
<1>3. store'.rows = rows
  BY GrownTypes
<1>4. \A r \in wire' : r.id = id => r.kind # "sync" /\ ~Accepts(rows, r)
  BY <1>2 DEF Refused
<1> QED BY <1>3, <1>4 DEF Refused

LEMMA SameTypes ==
    ASSUME world' = world
    PROVE  Rows' = Rows /\ Bootstrap' = Bootstrap /\ Read' = Read /\ Client' = Client
<1>1. Version' = Version /\ Rows' = Rows
  BY DEF Version, Rows
<1>2. Bootstrap' = Bootstrap /\ Read' = Read
  BY <1>1 DEF Bootstrap, Read
<1> QED BY <1>1, <1>2 DEF Client

LEMMA EditElsewhereStep ==
    ASSUME WorkspaceInv, NEW kind \in world.edits, EditElsewhere(kind)
    PROVE  WorkspaceInv'
<1> USE DEF WorkspaceInv
<1>0. PICK rows \in RowsAfter(kind) :
             /\ store.revision < world.revisions
             /\ store' = [revision |-> store.revision + 1, rows |-> rows]
             /\ history' = [history EXCEPT !.rows = Append(@, rows)]
  BY DEF EditElsewhere
<1>1. /\ Grown(rows) /\ store.revision < world.revisions
      /\ store' = [revision |-> store.revision + 1, rows |-> rows]
      /\ history' = [history EXCEPT !.rows = Append(@, rows)]
  BY <1>0, EditGrows
<1>2. /\ UNCHANGED <<world, recorded, wire, reads, ui, copy, stored, bounds>>
  BY DEF EditElsewhere
<1>3. /\ history'.rows = Append(history.rows, rows) /\ history'.at = history.at
      /\ history'.times = history.times /\ history'.told = history.told
  BY <1>1, HistoryType
<1>4. Grows(rows)
  BY <1>1, <1>2, <1>3 DEF Grows
<1>5. /\ store' \in Bootstrap /\ store'.revision > 0 /\ history'.rows \in Seq(Rows)
      /\ store'.revision = store.revision + 1 /\ store.revision \in Nat
  BY <1>4, GrownTypes
<1>6. history' \in [rows : Seq(Rows), at : [Request -> Nat], times : [Request -> Nat],
                    told : [Request -> Ending]]
  BY <1>1, <1>3, <1>5, HistoryType
<1>7. TypeOK'
  BY <1>2, <1>5, <1>6, SameTypes DEF TypeOK, Ending
<1>8. \A s \in Slots : Dropped(s)
  BY <1>2 DEF Dropped
<1>9. HistoryGrows' /\ BootstrapsAreConfirmed' /\ CommandsNameVersions'
  BY <1>2, <1>4, <1>8, HistoryAppended, BootstrapsGrow, CommandsGrow
<1>10. CommandsAreOrdered'
  BY <1>2, <1>3 DEF CommandsAreOrdered, Waiting
<1>11. RecordsAreKept'
  <2>1. \A id \in Request : history.at[id] \in Nat
    BY DEF TypeOK
  <2>2. \A id \in Request : history.at[id] <= store.revision + 1
    BY <1>5, <2>1 DEF RecordsAreKept
  <2> QED BY <1>2, <1>3, <1>5, <2>2 DEF RecordsAreKept
<1>12. \A id : (Refused(id) => Refused(id)') /\ (Settled(id) => Settled(id)')
  <2>1. \A id : Refused(id) => Refused(id)'
    BY <1>2, <1>4, RefusedGrows DEF Refused
  <2> QED BY <1>2, <2>1 DEF Settled
<1>13. AnswersAreTrue'
  <2>1. InFlight' = InFlight
    BY <1>2 DEF InFlight
  <2> QED BY <1>2, <1>3, <1>12, <2>1 DEF AnswersAreTrue, Reading
<1>14. ToldIsTrue'
  BY <1>2, <1>3, <1>12 DEF ToldIsTrue, Reading
<1> QED BY <1>7, <1>9, <1>10, <1>11, <1>13, <1>14

------------------------------------------------------------------------------
(* A request is executed.                                                   *)

\* What an execution does to the request itself: it may be a copy.
Taken(r) ==
    /\ r \in wire /\ wire' \subseteq wire
    /\ UNCHANGED <<world, ui, copy, stored>>
    /\ bounds'.clicks = bounds.clicks
    /\ bounds' \in [clicks : 0 .. world.requests, copies : 0 .. world.copies,
                    restarts : 0 .. world.restarts]

LEMMA TakenRequest ==
    ASSUME WorkspaceInv, NEW r \in wire, Execute(r)
    PROVE  Taken(r)
<1>1. wire' \subseteq wire
  BY DEF Execute
<1>2. /\ bounds'.clicks = bounds.clicks
      /\ bounds' \in [clicks : 0 .. world.requests, copies : 0 .. world.copies,
                      restarts : 0 .. world.restarts]
  <2>1. CASE bounds' = bounds
    BY <2>1, HistoryType DEF WorkspaceInv
  <2>2. CASE bounds.copies < world.copies /\ bounds' = [bounds EXCEPT !.copies = @ + 1]
    <3>1. bounds.copies + 1 \in 0 .. world.copies
      BY <2>2, HistoryType, WorldFacts DEF WorkspaceInv
    <3>2. bounds' = [bounds EXCEPT !.copies = bounds.copies + 1]
      BY <2>2
    <3> QED BY <3>1, <3>2, HistoryType DEF WorkspaceInv
  <2> QED BY <2>1, <2>2 DEF Execute
<1> QED BY <1>1, <1>2 DEF Execute, Taken

\* The answer arrives, or it does not.
LEMMA AnswerFacts ==
    ASSUME TypeOK, NEW r \in wire, NEW phase \in {"asked", "refused"}, Answer(r, phase)
    PROVE  /\ reads' \in [Slots -> Read] /\ \A s \in Slots : Dropped(s)
           /\ \A s \in Slots : Reading(s)' => Reading(s) /\ reads'[s] = reads[s]
           /\ \/ reads' = reads
              \/ ui.phase = "sent" /\ InFlight.id = r.id /\ reads'["queue"].phase = phase
<1>1. CASE reads' = reads
  BY <1>1, SameReads DEF Reading
<1>2. CASE Awaited(r) /\ reads' = [reads EXCEPT !["queue"] = [Idle EXCEPT !.phase = phase]]
  <2>1. "queue" \in Slots
    BY DEF Slots
  <2>2. [Idle EXCEPT !.phase = phase] \in {Idle, Asked, [Idle EXCEPT !.phase = "refused"]}
        /\ [Idle EXCEPT !.phase = phase].phase = phase
    BY DEF Asked, Idle
  <2>3. reads' \in [Slots -> Read] /\ reads'["queue"].phase = phase /\ \A s \in Slots : Dropped(s)
    BY <1>2, <2>1, <2>2, ReadsReset
  <2>4. \A s \in Slots : Reading(s)' => Reading(s) /\ reads'[s] = reads[s]
    BY <2>3 DEF Dropped, Reading
  <2> QED BY <1>2, <2>3, <2>4 DEF Awaited, InFlight
<1> QED BY <1>1, <1>2 DEF Answer

\* Requests that record nothing: a bank command, a replay and a refusal.
LEMMA UnwrittenStep ==
    ASSUME WorkspaceInv, NEW r \in wire, Taken(r), NEW phase \in {"asked", "refused"},
           Unwritten(r, phase),
           phase = "asked" => r.kind = "sync" \/ Recorded(r),
           phase = "refused" => r.kind # "sync" /\ ~Recorded(r) /\ ~Accepts(store.rows, r)
    PROVE  WorkspaceInv'
<1> USE DEF WorkspaceInv
<1>1. /\ UNCHANGED <<world, store, recorded, ui, copy, stored, history>> /\ wire' \subseteq wire
      /\ Answer(r, phase)
  BY DEF Taken, Unwritten
<1>2. /\ reads' \in [Slots -> Read] /\ \A s \in Slots : Dropped(s)
      /\ \A s \in Slots : Reading(s)' => Reading(s) /\ reads'[s] = reads[s]
      /\ \/ reads' = reads
         \/ ui.phase = "sent" /\ InFlight.id = r.id /\ reads'["queue"].phase = phase
  BY <1>1, AnswerFacts
<1>3. TypeOK'
  BY <1>1, <1>2, SameTypes DEF TypeOK, Taken
<1>4. HistoryGrows' /\ RecordsAreKept' /\ CommandsNameVersions' /\ CommandsAreOrdered'
  <2>1. HistoryGrows' /\ RecordsAreKept'
    BY <1>1 DEF HistoryGrows, RecordsAreKept
  <2>2. CommandsNameVersions'
    BY <1>1 DEF CommandsNameVersions, NamesVersions
  <2>3. CommandsAreOrdered'
    BY <1>1 DEF CommandsAreOrdered, Waiting, Taken
  <2> QED BY <2>1, <2>2, <2>3
<1>5. BootstrapsAreConfirmed'
  <2>1. \A s \in Slots : reads'[s].phase \in {"counted", "built"} => reads'[s] = reads[s]
    BY <1>2 DEF Dropped
  <2>2. \A s \in Slots : reads'[s].phase = "built" => Built(s)' = Built(s)
    BY <2>1 DEF Built
  <2> QED BY <1>1, <2>1, <2>2 DEF BootstrapsAreConfirmed, Confirmed
<1>6. \A id : (Refused(id) => Refused(id)') /\ (Settled(id) => Settled(id)')
  BY <1>1 DEF Refused, Settled
<1>7. InFlight' = InFlight
  BY <1>1 DEF InFlight
<1>8. \A q \in wire : q.id = r.id => q = r
  BY DEF CommandsAreOrdered
<1>9. phase = "asked" => Settled(r.id)'
  BY <1>1, <1>8 DEF Settled, Recorded
<1>10. phase = "refused" => Refused(r.id)'
  BY <1>1, <1>8 DEF Refused, Recorded
<1>11. AnswersAreTrue'
  <2>1. CASE reads' = reads
    BY <1>1, <1>6, <1>7, <2>1 DEF AnswersAreTrue, Reading
  <2>2. CASE ui.phase = "sent" /\ InFlight.id = r.id /\ reads'["queue"].phase = phase
    BY <1>1, <1>7, <1>9, <1>10, <2>2 DEF AnswersAreTrue, Reading
  <2> QED BY <1>2, <2>1, <2>2
<1>12. ToldIsTrue'
  BY <1>1, <1>2, <1>6 DEF ToldIsTrue
<1> QED BY <1>3, <1>4, <1>5, <1>11, <1>12

\* The one execution that takes effect.
LEMMA DoneHistory ==
    ASSUME WorkspaceInv, NEW r \in wire, NEW rows \in Rows, Done(r, rows)
    PROVE  /\ history'.rows = Append(history.rows, rows) /\ history'.told = history.told
           /\ history'.times[r.id] = history.times[r.id] + 1
           /\ history'.at[r.id] = store.revision + 1
           /\ \A id \in Request \ {r.id} : /\ history'.times[id] = history.times[id]
                                           /\ history'.at[id] = history.at[id]
           /\ history' \in [rows : Seq(Rows), at : [Request -> Nat], times : [Request -> Nat],
                            told : [Request -> Ending]]
<1>0. TypeOK
  BY DEF WorkspaceInv
<1>1. r.id \in Request /\ store.revision \in Nat
  <2>1. r.id \in Request
    BY <1>0, IdTypes
  <2>2. store.revision \in 0 .. world.revisions
    BY <1>0 DEF TypeOK, Bootstrap
  <2> QED BY <1>0, <2>1, <2>2, WorldFacts
<1> DEFINE H == [rows : Seq(Rows), at : [Request -> Nat], times : [Request -> Nat],
                 told : [Request -> Ending]]
           more == Append(history.rows, rows)
           t == [history.times EXCEPT ![r.id] = history.times[r.id] + 1]
           a == [history.at EXCEPT ![r.id] = store.revision + 1]
           h1 == [history EXCEPT !.rows = more]
           h2 == [h1 EXCEPT !.times[r.id] = @ + 1]
           h3 == [h2 EXCEPT !.at[r.id] = store.revision + 1]
<1>2. history' = h3
  BY DEF Done
<1>3. history \in H
  BY <1>0, HistoryType
<1>4. more \in Seq(Rows)
  BY <1>3, AppendProperties
<1>5. /\ t \in [Request -> Nat] /\ t[r.id] = history.times[r.id] + 1
      /\ \A id \in Request \ {r.id} : t[id] = history.times[id]
  BY <1>1, <1>3
<1>6. /\ a \in [Request -> Nat] /\ a[r.id] = store.revision + 1
      /\ \A id \in Request \ {r.id} : a[id] = history.at[id]
  BY <1>1, <1>3
<1> HIDE DEF more
<1>7. h1 = [rows |-> more, at |-> history.at, times |-> history.times, told |-> history.told]
  <2> HIDE DEF t, a, h2, h3
  <2>1. history = [rows |-> history.rows, at |-> history.at, times |-> history.times,
                   told |-> history.told]
    BY <1>3
  <2> QED BY <2>1
<1> HIDE DEF h1
<1>8. h2 = [rows |-> more, at |-> history.at, times |-> t, told |-> history.told]
  BY <1>7
<1> HIDE DEF h2, t
<1>9. h3 = [rows |-> more, at |-> a, times |-> t, told |-> history.told]
  BY <1>8
<1> HIDE DEF h3, a
<1>10. history.told \in [Request -> Ending]
  BY <1>3
<1> QED BY <1>2, <1>4, <1>5, <1>6, <1>9, <1>10 DEF more

LEMMA DoneStep ==
    ASSUME WorkspaceInv, NEW r \in wire, Taken(r), r.kind # "sync", ~Recorded(r),
           Accepts(store.rows, r), store.revision < world.revisions,
           Done(r, Changed(store.rows, r))
    PROVE  WorkspaceInv'
<1> USE DEF WorkspaceInv
<1> DEFINE rows == Changed(store.rows, r)
<1>1. r \in Commands /\ r.id \in Request /\ r.id \notin recorded
  BY IdTypes DEF TypeOK, Recorded
<1>2. Grown(rows)
  BY <1>1, ChangedGrows
<1> HIDE DEF rows
<1>3. /\ UNCHANGED <<world, ui, copy, stored>> /\ wire' \subseteq wire
      /\ Answer(r, "asked") /\ recorded' = recorded \cup {r.id}
      /\ store' = [revision |-> store.revision + 1, rows |-> rows] /\ Done(r, rows)
  BY DEF Taken, Done, rows
<1>4. /\ history'.rows = Append(history.rows, rows) /\ history'.told = history.told
      /\ history'.times[r.id] = history.times[r.id] + 1
      /\ history'.at[r.id] = store.revision + 1
      /\ \A id \in Request \ {r.id} : /\ history'.times[id] = history.times[id]
                                      /\ history'.at[id] = history.at[id]
      /\ history' \in [rows : Seq(Rows), at : [Request -> Nat], times : [Request -> Nat],
                       told : [Request -> Ending]]
  BY <1>2, <1>3, DoneHistory DEF Grown
<1>5. Grows(rows)
  BY <1>2, <1>3, <1>4 DEF Grows
<1>6. /\ store' \in Bootstrap /\ store'.revision > 0
      /\ store'.revision = store.revision + 1 /\ store.revision \in Nat
  BY <1>5, GrownTypes
<1>7. /\ reads' \in [Slots -> Read] /\ \A s \in Slots : Dropped(s)
      /\ \A s \in Slots : Reading(s)' => Reading(s) /\ reads'[s] = reads[s]
      /\ \/ reads' = reads
         \/ ui.phase = "sent" /\ InFlight.id = r.id /\ reads'["queue"].phase = "asked"
  BY <1>3, AnswerFacts
<1>8. TypeOK'
  <2>1. /\ wire' \subseteq Commands /\ recorded' \subseteq Request
        /\ Bootstrap' = Bootstrap /\ Client' = Client /\ Read' = Read /\ Rows' = Rows
    BY <1>1, <1>3, SameTypes DEF TypeOK
  <2>2. bounds' \in [clicks : 0 .. world.requests, copies : 0 .. world.copies,
                     restarts : 0 .. world.restarts]
    BY HistoryType DEF Taken
  <2> QED BY <1>3, <1>4, <1>6, <1>7, <2>1, <2>2 DEF TypeOK, Ending
<1>9. HistoryGrows' /\ BootstrapsAreConfirmed' /\ CommandsNameVersions'
  BY <1>3, <1>5, <1>7, HistoryAppended, BootstrapsGrow, CommandsGrow
<1>10. CommandsAreOrdered'
  <2>1. r.id <= bounds.clicks /\ bounds'.clicks = bounds.clicks
    BY DEF CommandsAreOrdered, Taken
  <2>2. \A i \in DOMAIN ui.queue : Waiting(i) => ui.queue[i].id # r.id
    BY DEF CommandsAreOrdered
  <2> QED BY <1>3, <1>4, <2>1, <2>2 DEF CommandsAreOrdered, Waiting
<1>11. RecordsAreKept'
  <2>1. ASSUME NEW id \in Request
        PROVE  /\ history'.times[id] = IF id \in recorded' THEN 1 ELSE 0
               /\ history'.at[id] <= store'.revision
    <3>1. history.at[id] \in Nat /\ history.at[id] <= store.revision
      BY DEF RecordsAreKept, TypeOK
    <3>2. CASE id = r.id
      BY <1>1, <1>3, <1>4, <1>6, <3>2 DEF RecordsAreKept
    <3>3. CASE id # r.id
      BY <1>3, <1>4, <1>6, <3>1, <3>3 DEF RecordsAreKept
    <3> QED BY <3>2, <3>3
  <2> QED BY <2>1 DEF RecordsAreKept
<1>12. \A id : Refused(id) => id # r.id /\ Refused(id)'
  <2>1. \A id : Refused(id) => id # r.id /\ id \notin recorded'
    BY <1>3 DEF Refused
  <2> QED BY <1>3, <1>5, <2>1, RefusedGrows
<1>13. \A id : Settled(id) => id # r.id /\ Settled(id)'
  BY <1>1, <1>3 DEF Settled
<1>14. Settled(r.id)'
  BY <1>3 DEF Settled
<1>15. InFlight' = InFlight /\ (ui.phase = "sent" => InFlight.id \in Request)
  BY <1>3, HeadFacts DEF InFlight
<1>16. AnswersAreTrue'
  <2>1. CASE reads' = reads
    BY <1>3, <1>4, <1>12, <1>13, <1>15, <2>1 DEF AnswersAreTrue, Reading
  <2>2. CASE ui.phase = "sent" /\ InFlight.id = r.id /\ reads'["queue"].phase = "asked"
    BY <1>3, <1>14, <1>15, <2>2 DEF AnswersAreTrue, Reading
  <2> QED BY <1>7, <2>1, <2>2
<1>17. ToldIsTrue'
  <2>1. ASSUME NEW id \in Request, history.told[id] = "saved"
        PROVE  history'.at[id] = history.at[id]
    BY <1>4, <1>13, <2>1 DEF ToldIsTrue
  <2> QED BY <1>3, <1>4, <1>7, <1>12, <1>13, <2>1 DEF ToldIsTrue
<1> QED BY <1>8, <1>9, <1>10, <1>11, <1>16, <1>17

LEMMA ExecuteStep ==
    ASSUME WorkspaceInv, NEW r \in wire, Execute(r)
    PROVE  WorkspaceInv'
<1>1. Taken(r)
  BY TakenRequest
<1>2. CASE r.kind = "sync" /\ Unwritten(r, "asked")
  BY <1>1, <1>2, UnwrittenStep
<1>3. CASE r.kind # "sync" /\ Replayed(r)
  BY <1>1, <1>3, UnwrittenStep DEF Replayed
<1>4. CASE /\ r.kind # "sync" /\ ~Recorded(r) /\ Accepts(store.rows, r)
           /\ store.revision < world.revisions /\ Done(r, Changed(store.rows, r))
  BY <1>1, <1>4, DoneStep
<1>5. CASE r.kind # "sync" /\ ~Recorded(r) /\ ~Accepts(store.rows, r) /\ Unwritten(r, "refused")
  BY <1>1, <1>5, UnwrittenStep
<1> QED BY <1>2, <1>3, <1>4, <1>5 DEF Execute

------------------------------------------------------------------------------
(* The invariant and what follows from it.                                  *)

LEMMA SingleRow ==
    ASSUME NEW x, NEW S, x \in S
    PROVE  <<x>> \in Seq(S) /\ Len(<<x>>) = 1 /\ DOMAIN <<x>> = {1} /\ <<x>>[1] = x
OBVIOUS

LEMMA InitTypes == Init => TypeOK
<1> SUFFICES ASSUME Init PROVE TypeOK
  OBVIOUS
<1>1. /\ world \in Worlds /\ world.revisions \in 1 .. Gone - 1
      /\ world.requests \in Nat /\ world.copies \in Nat /\ world.restarts \in Nat
  BY WorkspaceAssumption DEF Init
<1>2. 0 \in 0 .. world.revisions /\ 1 \in 0 .. world.revisions /\ 1 \in Version
  BY <1>1 DEF Gone, Version
<1>3. <<1>> \in Seq(Version) /\ <<>> \in Seq(Version)
  BY <1>2, SingleRow
<1>4. store.rows \in Rows /\ Blank \in Rows
  BY <1>2, <1>3 DEF Init, Rows, Blank
<1>5. store \in Bootstrap /\ store.revision > 0 /\ Nothing \in Bootstrap
  BY <1>2, <1>4 DEF Init, Bootstrap, Nothing
<1>6. Idle \in Read /\ Asked \in Read
  <2>1. Idle \in Read
    BY <1>2, <1>4 DEF Read, Idle
  <2> QED BY <2>1 DEF Asked, Read
<1>7. reads \in [Slots -> Read]
  BY <1>6 DEF Init
<1>8. ui \in Client /\ ui.queue = <<>> /\ ui.phase = "rest"
  BY <1>4, <1>5 DEF Init, Mounted, Client
<1>9. bounds \in [clicks : 0 .. world.requests, copies : 0 .. world.copies,
                  restarts : 0 .. world.restarts]
  BY <1>1 DEF Init
<1>10. /\ history.rows = <<store.rows>> /\ history.rows \in Seq(Rows)
       /\ history \in [rows : {<<store.rows>>}, at : [Request -> Nat], times : [Request -> Nat],
                       told : [Request -> {"none"}]]
  BY <1>4, SingleRow DEF Init
<1>11. history \in [rows : Seq(Rows), at : [Request -> Nat], times : [Request -> Nat],
                    told : [Request -> {"none", "open", "saved", "refused", "unknown"}]]
  BY <1>10
<1>12. copy \in Bootstrap /\ stored \in Bootstrap /\ recorded \subseteq Request /\ wire \subseteq Commands
  BY <1>5 DEF Init
<1> QED BY <1>1, <1>5, <1>7, <1>8, <1>9, <1>11, <1>12 DEF TypeOK

LEMMA InitInv == Init => WorkspaceInv
<1> SUFFICES ASSUME Init PROVE WorkspaceInv
  OBVIOUS
<1>1. TypeOK
  BY InitTypes
<1>2. /\ store.revision = 1 /\ store.rows.plan = 1 /\ store.rows.goal = 1
      /\ store.rows.bills = <<1>> /\ DOMAIN store.rows.bills = {1} /\ store.rows.bills[1] = 1
  BY DEF Init
<1>3. /\ history.rows = <<store.rows>> /\ Len(history.rows) = 1 /\ DOMAIN history.rows = {1}
      /\ history.rows[1] = store.rows
  BY SingleRow DEF Init
<1>4. store.rows \in Rows
  BY <1>1 DEF TypeOK, Bootstrap
<1>5. AsNew(store.rows, store.rows)
  BY <1>2 DEF AsNew
<1>6. HistoryGrows
  BY <1>2, <1>3, <1>5 DEF HistoryGrows
<1>7. /\ ui.screen = Nothing /\ copy = Nothing /\ ui.queue = <<>> /\ ui.phase = "rest"
      /\ wire = {} /\ recorded = {}
      /\ \A s \in Slots : reads[s].phase \in {"idle", "asked"}
      /\ reads["queue"].phase = "idle"
      /\ \A id \in Request : history.told[id] = "none" /\ history.times[id] = 0 /\ history.at[id] = 0
  BY DEF Init, Mounted, Slots, Idle, Asked
<1>8. BootstrapsAreConfirmed
  BY <1>7 DEF BootstrapsAreConfirmed
<1>9. CommandsNameVersions /\ CommandsAreOrdered
  BY <1>7 DEF CommandsNameVersions, CommandsAreOrdered
<1>10. RecordsAreKept /\ AnswersAreTrue /\ ToldIsTrue
  BY <1>2, <1>7 DEF RecordsAreKept, AnswersAreTrue, ToldIsTrue
<1> QED BY <1>1, <1>6, <1>8, <1>9, <1>10 DEF WorkspaceInv

LEMMA StutterStep == WorkspaceInv /\ UNCHANGED vars => WorkspaceInv'
<1> SUFFICES ASSUME WorkspaceInv, UNCHANGED vars PROVE WorkspaceInv'
  OBVIOUS
<1>1. ui' \in Client /\ stored' \in Bootstrap /\ TypeOK
  BY DEF WorkspaceInv, TypeOK, vars
<1> QED BY <1>1, FormStep DEF vars

LEMMA NextInv == WorkspaceInv /\ [Next]_vars => WorkspaceInv'
<1> SUFFICES ASSUME WorkspaceInv, [Next]_vars PROVE WorkspaceInv'
  OBVIOUS
<1>1. ASSUME NEW kind \in world.clicks, Click(kind) PROVE WorkspaceInv'
  BY <1>1, ClickStep
<1>2. ASSUME NEW form \in Forms, OpenDraft(form) PROVE WorkspaceInv'
  BY <1>2, OpenDraftStep
<1>3. CASE SaveDraft
  BY <1>3, SaveDraftStep
<1>4. CASE CloseDraft
  BY <1>4, CloseDraftStep
<1>5. CASE Send
  BY <1>5, SendStep
<1>6. ASSUME NEW r \in wire, Execute(r) PROVE WorkspaceInv'
  BY <1>6, ExecuteStep
<1>7. ASSUME NEW kind \in world.edits, EditElsewhere(kind) PROVE WorkspaceInv'
  BY <1>7, EditElsewhereStep
<1>8. ASSUME NEW slot \in Slots, ReadRevision(slot) PROVE WorkspaceInv'
  BY <1>8, ReadRevisionStep
<1>9. ASSUME NEW slot \in Slots, ReadRows(slot) PROVE WorkspaceInv'
  BY <1>9, ReadRowsStep
<1>10. CASE ReceiveAnswer
  BY <1>10, ReceiveAnswerStep
<1>11. CASE ReceiveRefusal
  BY <1>11, ReceiveRefusalStep
<1>12. CASE LoseAnswer
  BY <1>12, LoseAnswerStep
<1>13. CASE ReceiveReconciliation
  BY <1>13, ReceiveReconciliationStep
<1>14. CASE LoseReconciliation
  BY <1>14, LoseReconciliationStep
<1>15. CASE ReloadBackend
  BY <1>15, ReloadBackendStep
<1>16. CASE ReceiveReload
  BY <1>16, ReceiveReloadStep
<1>17. CASE LoseReload
  BY <1>17, LoseReloadStep
<1>18. CASE ReceivePoll
  BY <1>18, ReceivePollStep
<1>19. CASE LosePoll
  BY <1>19, LosePollStep
<1>20. CASE GoOffline
  BY <1>20, GoOfflineStep
<1>21. CASE RestoreDraft
  BY <1>21, RestoreDraftStep
<1>22. CASE Restart
  BY <1>22, RestartStep
<1>23. CASE UNCHANGED vars
  BY <1>23, StutterStep
<1>24. CASE ReceiveHeaders
  BY <1>24, ReceiveHeadersStep
<1>25. CASE FailLinkToken
  BY <1>25, FailLinkTokenStep
<1> QED BY <1>1, <1>2, <1>3, <1>4, <1>5, <1>6, <1>7, <1>8, <1>9, <1>10, <1>11, <1>12, <1>13,
           <1>14, <1>15, <1>16, <1>17, <1>18, <1>19, <1>20, <1>21, <1>22, <1>23, <1>24,
           <1>25 DEF Next

\* Every state the client, the API and the other sessions can reach, whatever
\* is lost, repeated or executed late, satisfies WorkspaceInv
\* (app-state.tsx 394-724, core 6623-6700, idempotency.ts 7-27).
THEOREM Invariant == Spec => []WorkspaceInv
<1> QED BY InitInv, NextInv, PTL DEF Spec

\* What the screen shows and the native shell keeps is as new as the revision
\* it is shown with (core 6623-6700, app-state 415-431).
THEOREM ScreenIsConfirmed == Spec => []ScreenHasItsRevision
<1>1. WorkspaceInv => ScreenHasItsRevision
  BY DEF WorkspaceInv, BootstrapsAreConfirmed, Confirmed, ScreenHasItsRevision
<1> QED BY <1>1, Invariant, PTL

\* Once the API has been heard since the start, every command that was ever
\* reported as saved is on the screen, whatever its status says of the
\* connection, and stays there in whichever order the answers of the three
\* reads come (bootstrap-version.ts, app-state 415-431, 650-724, 1045-1052).
THEOREM SavedStaysShown == Spec => []SavedEditsStay
<1>1. WorkspaceInv => SavedEditsStay
  BY DEF WorkspaceInv, ToldIsTrue, SavedEditsStay, ShowsSaved
<1> QED BY <1>1, Invariant, PTL

\* A request takes effect at most once, and never after its client was told
\* that it was refused (idempotency.ts 7-27, core 2638-2646, 3040, 3145).
THEOREM CommandsDoAsTold == Spec => []AppliedAsTold
<1>1. WorkspaceInv => AppliedAsTold
  BY DEF WorkspaceInv, RecordsAreKept, ToldIsTrue, Refused, AppliedAsTold, OneEffect,
         RefusedNeverApplies
<1> QED BY <1>1, Invariant, PTL
=============================================================================
