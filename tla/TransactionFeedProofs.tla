------------------------- MODULE TransactionFeedProofs -------------------------
(***************************************************************************)
(* Proofs about the transaction feed, for any number of transactions,      *)
(* pages, writes and edits, and any sizes of a page and of what the client *)
(* keeps.                                                                  *)
(*                                                                         *)
(* FeedInv of TransactionFeed is inductive: the list shows every settled   *)
(* transaction up to its cursor, and a page on its way is the one from     *)
(* there to the next.                                                      *)
(***************************************************************************)
EXTENDS TransactionFeed, FiniteSetTheorems, TLAPS

------------------------------------------------------------------------------
(* The order of the feed.                                                  *)

LEMMA BeforeIsOrder ==
    ASSUME NEW a, NEW b, NEW c, {a.day, a.id, b.day, b.id, c.day, c.id} \subseteq Int
    PROVE  /\ ~Before(a, a)
           /\ Before(a, b) => ~Before(b, a)
           /\ Before(a, b) /\ Before(b, c) => Before(a, c)
           /\ a.id # b.id => Before(a, b) \/ Before(b, a)
           /\ ~Before(b, a) /\ Before(b, c) => Before(a, c)
BY DEF Before

\* A finite set of rows of different transactions, in the order of the feed.
RowSet(S) ==
  /\ IsFiniteSet(S)
  /\ \A r \in S : r.day \in Int /\ r.id \in Int
  /\ \A r, q \in S : r.id = q.id => r = q

Rank(S, r) == Cardinality({q \in S : Before(q, r)})

LEMMA RanksDiffer ==
    ASSUME NEW S, RowSet(S), NEW r \in S
    PROVE  /\ Rank(S, r) \in 0 .. Cardinality(S) - 1
           /\ \A q \in S : Before(q, r) => Rank(S, q) < Rank(S, r)
<1> DEFINE P(x) == {q \in S : Before(q, x)}
<1>1. IsFiniteSet(S) /\ Cardinality(S) \in Nat
  BY FS_CardinalityType DEF RowSet
<1>2. ASSUME NEW T \in SUBSET S, NEW U \in SUBSET T, NEW x \in T, x \notin U
      PROVE  Cardinality(U) \in Nat /\ Cardinality(T) \in Nat /\ Cardinality(U) < Cardinality(T)
  <2>1. IsFiniteSet(T)
    BY <1>1, FS_Subset
  <2>2. IsFiniteSet(U) /\ Cardinality(U) <= Cardinality(T) /\ (Cardinality(U) = Cardinality(T) => T = U)
    BY <2>1, FS_Subset
  <2>3. Cardinality(U) \in Nat /\ Cardinality(T) \in Nat
    BY <2>1, <2>2, FS_CardinalityType
  <2> QED BY <1>2, <2>2, <2>3
<1>3. r \notin P(r)
  BY BeforeIsOrder DEF RowSet
<1>4. Cardinality(P(r)) \in Nat /\ Cardinality(P(r)) < Cardinality(S)
  BY <1>2, <1>3
<1>5. ASSUME NEW q \in S, Before(q, r) PROVE Cardinality(P(q)) < Cardinality(P(r))
  <2>1. P(q) \subseteq P(r) /\ q \in P(r) /\ q \notin P(q)
    BY <1>5, BeforeIsOrder DEF RowSet
  <2> HIDE DEF P
  <2>2. P(r) \in SUBSET S
    BY DEF P
  <2> QED BY <1>2, <2>1, <2>2
<1> QED BY <1>1, <1>4, <1>5 DEF Rank

LEMMA InOrderIsOrder ==
    ASSUME NEW S, RowSet(S), NEW s, s = InOrder(S)
    PROVE  /\ Cardinality(S) \in Nat /\ s \in [1 .. Cardinality(S) -> S]
           /\ \A r \in S : \E i \in 1 .. Cardinality(S) : s[i] = r
           /\ Ordered(s) /\ SingleRows(s)
<1> DEFINE n == Cardinality(S)
           T == 0 .. n - 1
           rank == [r \in S |-> Rank(S, r)]
<1>1. IsFiniteSet(S) /\ n \in Nat
  BY FS_CardinalityType DEF RowSet
<1>2. rank \in [S -> T]
  BY RanksDiffer
<1>3. \A r, q \in S : rank[r] = rank[q] => r = q
  <2> SUFFICES ASSUME NEW r \in S, NEW q \in S, rank[r] = rank[q], r # q PROVE FALSE
    OBVIOUS
  <2>1. Before(r, q) \/ Before(q, r)
    BY BeforeIsOrder DEF RowSet
  <2>2. rank[r] < rank[q] \/ rank[q] < rank[r]
    BY <2>1, RanksDiffer
  <2>3. rank[r] \in Int /\ rank[q] \in Int
    BY <1>2
  <2> QED BY <2>2, <2>3
<1>4. IsFiniteSet(T) /\ Cardinality(T) = n
  BY <1>1, FS_Interval
<1>5. \A k \in T : \E r \in S : rank[r] = k
  <2> HIDE DEF rank, T, n
  <2>1. rank \in Injection(S, T)
    BY <1>2, <1>3 DEF Injection, IsInjective
  <2>2. rank \in Surjection(S, T)
    BY <1>4, <2>1, FS_Injection DEF n
  <2> QED BY <2>2 DEF Surjection
<1>6. DOMAIN s = 1 .. n /\ \A i \in 1 .. n : s[i] \in S /\ rank[s[i]] = i - 1
  <2> SUFFICES ASSUME NEW i \in 1 .. n PROVE s[i] \in S /\ rank[s[i]] = i - 1
    BY DEF InOrder
  <2>1. i - 1 \in T
    BY <1>1
  <2>2. \E r \in S : Rank(S, r) = i - 1
    BY <1>5, <2>1
  <2>3. s[i] = CHOOSE row \in S : Rank(S, row) = i - 1
    BY DEF InOrder, Rank
  <2>4. s[i] \in S /\ Rank(S, s[i]) = i - 1
    BY <2>2, <2>3
  <2> QED BY <2>4
<1>7. s \in [1 .. n -> S]
  <2> DEFINE row(i) == CHOOSE row \in S : Cardinality({r \in S : Before(r, row)}) = i - 1
  <2>1. s = [i \in 1 .. n |-> row(i)]
    BY DEF InOrder
  <2> HIDE DEF row, n
  <2> QED BY <1>6, <2>1
<1>8. \A r \in S : \E i \in 1 .. n : s[i] = r
  <2> SUFFICES ASSUME NEW r \in S PROVE \E i \in 1 .. n : s[i] = r
    OBVIOUS
  <2>1. rank[r] + 1 \in 1 .. n /\ rank[r] \in Int
    BY <1>1, <1>2
  <2>2. s[rank[r] + 1] \in S /\ rank[s[rank[r] + 1]] = rank[r]
    BY <1>6, <2>1
  <2> QED BY <1>3, <2>1, <2>2
<1>9. \A i, j \in 1 .. n : i < j => Before(s[i], s[j])
  <2> SUFFICES ASSUME NEW i \in 1 .. n, NEW j \in 1 .. n, i < j PROVE Before(s[i], s[j])
    OBVIOUS
  <2>1. s[i] \in S /\ s[j] \in S /\ rank[s[i]] = i - 1 /\ rank[s[j]] = j - 1
    BY <1>6
  <2>2. s[i] # s[j] /\ ~Before(s[j], s[i])
    BY <2>1, RanksDiffer
  <2> QED BY <2>1, <2>2, BeforeIsOrder DEF RowSet
<1>10. \A i, j \in 1 .. n : s[i].id = s[j].id => i = j
  <2> SUFFICES ASSUME NEW i \in 1 .. n, NEW j \in 1 .. n, s[i].id = s[j].id PROVE i = j
    OBVIOUS
  <2>1. s[i] = s[j]
    BY <1>6 DEF RowSet
  <2>2. i \in Int /\ j \in Int
    BY <1>1
  <2> HIDE DEF rank, n
  <2>3. rank[s[i]] = i - 1 /\ rank[s[j]] = j - 1
    BY <1>6
  <2> QED BY <2>1, <2>2, <2>3
<1> QED BY <1>1, <1>6, <1>7, <1>8, <1>9, <1>10 DEF Ordered, SingleRows
------------------------------------------------------------------------------
(* Pages and lists.                                                        *)

LEMMA ElementType ==
    ASSUME NEW list \in Seq(RowType)
    PROVE  /\ Len(list) \in Nat /\ DOMAIN list = 1 .. Len(list)
           /\ \A i \in DOMAIN list : list[i] \in RowType
OBVIOUS

LEMMA LoadType ==
    ASSUME TypeOK, NEW l \in DOMAIN loads
    PROVE  /\ loads[l].next \in Cursor \cup {Start, Nowhere} /\ loads[l].filter \in Filters
           /\ loads[l].base \in Seq(RowType) /\ loads[l].rows \in Seq(RowType)
           /\ loads[l].state \in {"asked", "answered", "ended"} /\ loads[l].after \in Cursor \cup {Nowhere}
           /\ l \in 1 .. Len(loads) /\ Len(loads) \in Nat
<1> DEFINE Loads == [next : Cursor \cup {Start, Nowhere}, filter : Filters, base : Seq(RowType),
                     state : {"asked", "answered", "ended"}, rows : Seq(RowType), after : Cursor \cup {Nowhere}]
<1>1. loads \in Seq(Loads)
  BY DEF TypeOK
<1>2. loads[l] \in Loads /\ l \in 1 .. Len(loads) /\ Len(loads) \in Nat
  <2> HIDE DEF Loads
  <2> QED BY <1>1
<1> QED BY <1>2

\* Rows and cursors have a day and a number.
LEMMA PlacesAreNumbers ==
    /\ \A row \in RowType : row.day \in Days /\ row.id \in Tx /\ row.day \in Int /\ row.id \in Int
    /\ \A cursor \in Cursor \cup {Start, Nowhere} : cursor.day \in Int /\ cursor.id \in Int
    /\ Tx \subseteq Int /\ Days \subseteq Int
<1>1. Tx \subseteq Int /\ Days \subseteq Int
  BY DEF Tx, Days
<1>2. \A row \in RowType : row.day \in Days /\ row.id \in Tx
  BY DEF RowType
<1>3. \A cursor \in [day : Days, id : Tx] : cursor.day \in Days /\ cursor.id \in Tx
  OBVIOUS
<1>4. \A cursor \in {Start, End, Nowhere} : cursor.day \in Int /\ cursor.id \in Int
  BY DEF Start, End, Nowhere
<1> QED BY <1>1, <1>2, <1>3, <1>4 DEF Cursor

\* The transactions there are, as rows.
LEMMA RowOfTx ==
    ASSUME TypeOK
    PROVE  \A t \in Tx : /\ Row(t, store.tx[t]) \in RowType /\ Row(t, store.tx[t]).id = t
                         /\ Row(t, store.tx[t]).day = store.tx[t].day
                         /\ Row(t, store.tx[t]).category = store.tx[t].category
<1> SUFFICES ASSUME NEW t \in Tx
             PROVE  /\ Row(t, store.tx[t]) \in RowType /\ Row(t, store.tx[t]).id = t
                    /\ Row(t, store.tx[t]).day = store.tx[t].day
                    /\ Row(t, store.tx[t]).category = store.tx[t].category
  OBVIOUS
<1>1. store.tx[t] \in Stored
  BY DEF TypeOK
<1> QED BY <1>1 DEF Stored, Row, RowType

LEMMA RowsAreASet ==
    ASSUME TypeOK,
           NEW S, \A r \in S : r.id \in Tx /\ r = Row(r.id, store.tx[r.id])
    PROVE  RowSet(S) /\ S \subseteq RowType
<1>1. S \subseteq RowType
  BY RowOfTx
<1>2. \A r, q \in S : r.id = q.id => r = q
  OBVIOUS
<1>3. IsFiniteSet(S)
  <2> DEFINE T == {r \in Tx : \E q \in S : q.id = r}
             f == [t \in T |-> Row(t, store.tx[t])]
  <2>1. IsFiniteSet(Tx)
    BY FeedAssumption, FS_Interval DEF Tx
  <2>2. IsFiniteSet(T)
    BY <2>1, FS_Subset
  <2>3. f \in Surjection(T, S)
    <3>1. \A t \in T : f[t] \in S
      OBVIOUS
    <3>2. \A r \in S : r.id \in T /\ f[r.id] = r
      OBVIOUS
    <3> HIDE DEF T
    <3>3. f \in [T -> S]
      BY <3>1
    <3> HIDE DEF f
    <3> QED BY <3>2, <3>3 DEF Surjection
  <2> HIDE DEF T, f
  <2> QED BY <2>2, <2>3, FS_Surjection
<1> QED BY <1>1, <1>2, <1>3, PlacesAreNumbers DEF RowSet

\* What a page of S is.
PageOf(S, p) ==
  /\ p.rows \in Seq(RowType) /\ p.next \in Cursor
  /\ Ordered(p.rows) /\ SingleRows(p.rows)
  /\ Len(p.rows) <= PageSize /\ (p.rows = <<>> => p.next = End)
  /\ \A i \in DOMAIN p.rows : p.rows[i] \in S /\ ~AfterCursor(p.next, p.rows[i])
  /\ \A r \in S : AfterCursor(p.next, r) \/ \E i \in DOMAIN p.rows : p.rows[i] = r

\* Everything is after the start, and nothing is after the end.
LEMMA DaysAreNumbers == \A d \in Days : d \in Int /\ 0 <= d /\ d <= 999
<1> SUFFICES ASSUME NEW d \in 0 .. 999 PROVE d \in Int /\ 0 <= d /\ d <= 999
  BY DEF Days
<1> QED OBVIOUS

LEMMA EverythingAfterStart == \A row : row.day \in Days => AfterCursor(Start, row)
<1> SUFFICES ASSUME NEW row, row.day \in Days PROVE AfterCursor(Start, row)
  OBVIOUS
<1>1. row.day \in Int /\ row.day <= 999
  BY DaysAreNumbers
<1>2. Start.day = 1000
  BY DEF Start
<1> QED BY <1>1, <1>2 DEF AfterCursor, Before

LEMMA NothingAfterEnd == \A row : row.day \in Days => ~AfterCursor(End, row)
<1> SUFFICES ASSUME NEW row, row.day \in Days PROVE ~AfterCursor(End, row)
  OBVIOUS
<1>1. row.day \in Int /\ 0 <= row.day
  BY DaysAreNumbers
<1>2. End.day = -1
  BY DEF End
<1> QED BY <1>1, <1>2 DEF AfterCursor, Before

LEMMA PageIsFirst ==
    ASSUME NEW S, RowSet(S), S \subseteq RowType
    PROVE  PageOf(S, Page(S))
<1> DEFINE n == Cardinality(S)
           s == InOrder(S)
           m == IF Len(s) < PageSize THEN Len(s) ELSE PageSize
           shown == SubSeq(s, 1, m)
           next == IF Len(s) > PageSize THEN [day |-> Last(shown).day, id |-> Last(shown).id] ELSE End
<1>1. /\ n \in Nat /\ s \in [1 .. n -> S] /\ \A r \in S : \E i \in 1 .. n : s[i] = r
      /\ Ordered(s) /\ SingleRows(s)
  BY InOrderIsOrder
<1>2. Page(S) = [rows |-> shown, next |-> next]
  BY DEF Page
<1> HIDE DEF n, s
<1>3. s \in Seq(RowType) /\ Len(s) = n /\ DOMAIN s = 1 .. n
  BY <1>1
<1>4. PageSize \in Nat \ {0}
  BY FeedAssumption
<1>5. m \in Nat /\ m <= n /\ m <= PageSize /\ (n > PageSize => m = PageSize) /\ (~(n > PageSize) => m = n)
  BY <1>1, <1>3, <1>4
<1> HIDE DEF m
<1>6. /\ shown \in Seq(RowType) /\ Len(shown) = m /\ DOMAIN shown = 1 .. m
      /\ \A i \in 1 .. m : shown[i] = s[i] /\ i \in 1 .. n
  BY <1>1, <1>3, <1>5
<1> HIDE DEF shown
<1>7. Ordered(shown) /\ SingleRows(shown)
  BY <1>1, <1>3, <1>6 DEF Ordered, SingleRows
<1>8. \A i \in 1 .. m : shown[i] \in S
  BY <1>1, <1>6
<1>9. CASE n > PageSize
  <2>1. m \in 1 .. m /\ m \in 1 .. n /\ s[m] \in RowType
    BY <1>1, <1>3, <1>4, <1>5, <1>9
  <2>2. Last(shown) = s[m]
    BY <1>6, <2>1 DEF Last
  <2>3. next = [day |-> s[m].day, id |-> s[m].id]
    BY <1>3, <1>9, <2>2
  <2> HIDE DEF next
  <2>4. next \in Cursor
    BY <2>1, <2>3, PlacesAreNumbers DEF Cursor
  <2>5. \A r : AfterCursor(next, r) <=> Before(s[m], r)
    BY <2>3 DEF AfterCursor, Before
  <2>6. \A i \in 1 .. m : ~AfterCursor(next, shown[i])
    <3> SUFFICES ASSUME NEW i \in 1 .. m PROVE ~Before(s[m], s[i])
      BY <1>6, <2>5
    <3>1. i \in 1 .. n /\ s[i] \in RowType
      BY <1>1, <1>6
    <3>2. i = m \/ Before(s[i], s[m])
      BY <1>1, <1>3, <1>5, <2>1, <3>1 DEF Ordered
    <3> QED BY <2>1, <3>1, <3>2, BeforeIsOrder, PlacesAreNumbers
  <2>7. \A r \in S : AfterCursor(next, r) \/ \E i \in DOMAIN shown : shown[i] = r
    <3> SUFFICES ASSUME NEW r \in S, ~AfterCursor(next, r) PROVE \E i \in DOMAIN shown : shown[i] = r
      OBVIOUS
    <3>1. PICK i \in 1 .. n : s[i] = r
      BY <1>1
    <3>2. ~(m < i)
      BY <1>1, <1>3, <2>1, <2>5, <3>1 DEF Ordered
    <3>3. i \in 1 .. m
      BY <1>1, <1>5, <3>1, <3>2
    <3> QED BY <1>6, <3>1, <3>3
  <2>8. shown # <<>>
    BY <1>6, <2>1
  <2> HIDE DEF PageOf
  <2>9. PageOf(S, [rows |-> shown, next |-> next])
    BY <1>5, <1>6, <1>7, <1>8, <2>4, <2>6, <2>7, <2>8 DEF PageOf
  <2> QED BY <1>2, <2>9
<1>10. CASE ~(n > PageSize)
  <2>1. next = End
    BY <1>3, <1>10
  <2> HIDE DEF next
  <2>2. next \in Cursor /\ \A i \in 1 .. m : ~AfterCursor(next, shown[i])
    BY <1>8, <2>1, NothingAfterEnd, PlacesAreNumbers DEF Cursor
  <2>3. \A r \in S : \E i \in DOMAIN shown : shown[i] = r
    BY <1>1, <1>5, <1>6, <1>10
  <2>4. PageOf(S, [rows |-> shown, next |-> next])
    BY <1>5, <1>6, <1>7, <1>8, <2>1, <2>2, <2>3 DEF PageOf
  <2> QED BY <1>2, <2>4
<1> QED BY <1>9, <1>10

LEMMA ListedRows ==
    ASSUME TypeOK, NEW cursor, NEW filter
    PROVE  /\ RowSet(Listed(cursor, filter)) /\ Listed(cursor, filter) \subseteq RowType
           /\ \A r \in Listed(cursor, filter) :
                /\ r.id \in Tx /\ r = Row(r.id, store.tx[r.id]) /\ store.tx[r.id].there
                /\ AfterCursor(cursor, r) /\ filter \in {Everything, r.category}
           /\ \A t \in Tx :
                store.tx[t].there /\ ~Reached(cursor, t) /\ filter \in {Everything, store.tx[t].category} =>
                  Row(t, store.tx[t]) \in Listed(cursor, filter)
<1> DEFINE S == Listed(cursor, filter)
<1>1. \A r \in S : /\ r.id \in Tx /\ r = Row(r.id, store.tx[r.id]) /\ store.tx[r.id].there
                   /\ AfterCursor(cursor, r) /\ filter \in {Everything, r.category}
  BY RowOfTx DEF Listed
<1>2. ASSUME NEW t \in Tx, store.tx[t].there, ~Reached(cursor, t), filter \in {Everything, store.tx[t].category}
      PROVE  Row(t, store.tx[t]) \in S
  BY <1>2, RowOfTx DEF Listed, Reached
<1> HIDE DEF S
<1>3. RowSet(S) /\ S \subseteq RowType
  BY <1>1, RowsAreASet
<1> QED BY <1>1, <1>2, <1>3 DEF S

\* What a list joined of two is.
JoinedOf(base, rows, list) ==
  /\ list \in Seq(RowType) /\ SingleRows(list)
  /\ Len(base) <= Len(list) /\ \A i \in DOMAIN base : list[i] = base[i]
  /\ \A i \in DOMAIN list : Len(base) < i => \E j \in DOMAIN rows : list[i] = rows[j]
  /\ \A i, j \in DOMAIN list : Len(base) < i /\ i < j => Before(list[i], list[j])
  /\ \A j \in DOMAIN rows : Shows(list, rows[j].id)
  /\ base = <<>> => Len(list) <= Len(rows)

LEMMA JoinedIsOfBoth ==
    ASSUME NEW base \in Seq(RowType), NEW rows \in Seq(RowType), SingleRows(base), SingleRows(rows)
    PROVE  JoinedOf(base, rows, Joined(base, rows))
<1> DEFINE S == {row \in Range(rows) : \A i \in DOMAIN base : base[i].id # row.id}
           n == Cardinality(S)
           s == InOrder(S)
           list == base \o s
<1>1. Joined(base, rows) = list
  BY DEF Joined
<1>2. \A r \in S : (\E j \in DOMAIN rows : r = rows[j]) /\ \A i \in DOMAIN base : base[i].id # r.id
  BY DEF Range
<1>3. \A j \in DOMAIN rows : rows[j] \in S \/ \E i \in DOMAIN base : base[i].id = rows[j].id
  BY DEF Range
<1>4. S \subseteq RowType /\ \A r, q \in S : r.id = q.id => r = q
  <2>1. DOMAIN rows = 1 .. Len(rows) /\ \A j \in DOMAIN rows : rows[j] \in RowType
    BY ElementType
  <2>2. \A i, j \in DOMAIN rows : rows[i].id = rows[j].id => i = j
    BY DEF SingleRows
  <2> HIDE DEF S
  <2>3. S \subseteq RowType
    BY <1>2, <2>1
  <2>4. ASSUME NEW r \in S, NEW q \in S, r.id = q.id PROVE r = q
    <3>1. PICK i \in DOMAIN rows : r = rows[i]
      BY <1>2
    <3>2. PICK j \in DOMAIN rows : q = rows[j]
      BY <1>2
    <3> QED BY <2>2, <2>4, <3>1, <3>2
  <2> QED BY <2>3, <2>4
<1>5. IsFiniteSet(S) /\ n \in Nat /\ n <= Len(rows)
  <2>1. IsFiniteSet(DOMAIN rows) /\ Cardinality(DOMAIN rows) = Len(rows)
    <3>1. DOMAIN rows = 1 .. Len(rows) /\ Len(rows) \in Nat
      OBVIOUS
    <3>2. 1 \in Int /\ Len(rows) \in Int
      BY <3>1
    <3>3. IsFiniteSet(1 .. Len(rows)) /\ Cardinality(1 .. Len(rows)) = IF 1 > Len(rows) THEN 0 ELSE Len(rows) - 1 + 1
      BY <3>2, FS_Interval
    <3> QED BY <3>1, <3>3
  <2>2. rows \in Surjection(DOMAIN rows, Range(rows))
    BY DEF Surjection, Range
  <2>3. IsFiniteSet(Range(rows)) /\ Cardinality(Range(rows)) <= Len(rows)
    BY <2>1, <2>2, FS_Surjection
  <2>4. IsFiniteSet(S) /\ n <= Cardinality(Range(rows))
    BY <2>3, FS_Subset
  <2> HIDE DEF n, S
  <2>5. n \in Nat /\ Cardinality(Range(rows)) \in Nat /\ Len(rows) \in Nat
    BY <2>3, <2>4, FS_CardinalityType DEF n
  <2> QED BY <2>3, <2>4, <2>5
<1> HIDE DEF S
<1>6. RowSet(S)
  BY <1>4, <1>5, PlacesAreNumbers DEF RowSet
<1>7. /\ s \in [1 .. n -> S] /\ \A r \in S : \E i \in 1 .. n : s[i] = r
      /\ Ordered(s) /\ SingleRows(s)
  BY <1>6, InOrderIsOrder
<1> HIDE DEF n, s
<1>8. s \in Seq(RowType) /\ Len(s) = n /\ DOMAIN s = 1 .. n
  BY <1>4, <1>5, <1>7
<1>9. /\ list \in Seq(RowType) /\ Len(list) = Len(base) + n /\ DOMAIN list = 1 .. Len(base) + n
      /\ DOMAIN base = 1 .. Len(base) /\ Len(base) \in Nat
      /\ \A i \in 1 .. Len(base) : list[i] = base[i]
      /\ \A i \in DOMAIN list : Len(base) < i => i - Len(base) \in 1 .. n /\ list[i] = s[i - Len(base)]
      /\ \A i \in 1 .. n : Len(base) + i \in DOMAIN list /\ list[Len(base) + i] = s[i]
  BY <1>5, <1>8
<1> HIDE DEF list
<1>10. \A i \in DOMAIN list : Len(base) < i => list[i] \in S
  BY <1>7, <1>9
<1>11. SingleRows(list)
  <2> SUFFICES ASSUME NEW i \in DOMAIN list, NEW j \in DOMAIN list, list[i].id = list[j].id PROVE i = j
    BY DEF SingleRows
  <2>1. i \in Int /\ j \in Int
    BY <1>9
  <2>2. CASE i <= Len(base) /\ j <= Len(base)
    <3>1. i \in DOMAIN base /\ j \in DOMAIN base
      BY <1>9, <2>2
    <3> QED BY <1>9, <3>1 DEF SingleRows
  <2>3. CASE Len(base) < i /\ Len(base) < j
    <3>1. i - Len(base) \in 1 .. n /\ j - Len(base) \in 1 .. n /\ s[i - Len(base)].id = s[j - Len(base)].id
      BY <1>9, <2>3
    <3>2. i - Len(base) = j - Len(base)
      BY <1>7, <1>8, <3>1 DEF SingleRows
    <3> QED BY <1>9, <2>1, <3>2
  <2>4. CASE i <= Len(base) /\ Len(base) < j
    BY <1>2, <1>9, <1>10, <2>4
  <2>5. CASE Len(base) < i /\ j <= Len(base)
    BY <1>2, <1>9, <1>10, <2>5
  <2> QED BY <1>9, <2>1, <2>2, <2>3, <2>4, <2>5
<1>12. \A i, j \in DOMAIN list : Len(base) < i /\ i < j => Before(list[i], list[j])
  <2> SUFFICES ASSUME NEW i \in DOMAIN list, NEW j \in DOMAIN list, Len(base) < i, i < j
               PROVE  Before(list[i], list[j])
    OBVIOUS
  <2>1. /\ i - Len(base) \in 1 .. n /\ j - Len(base) \in 1 .. n /\ i - Len(base) < j - Len(base)
        /\ list[i] = s[i - Len(base)] /\ list[j] = s[j - Len(base)]
    BY <1>9
  <2> QED BY <1>7, <1>8, <2>1 DEF Ordered
<1>13. \A j \in DOMAIN rows : Shows(list, rows[j].id)
  <2> SUFFICES ASSUME NEW j \in DOMAIN rows PROVE \E i \in DOMAIN list : list[i].id = rows[j].id
    BY DEF Shows
  <2>1. CASE rows[j] \in S
    <3>1. PICK i \in 1 .. n : s[i] = rows[j]
      BY <1>7, <2>1
    <3>2. Len(base) + i \in DOMAIN list /\ list[Len(base) + i] = s[i]
      BY <1>9, <3>1
    <3> QED BY <3>1, <3>2
  <2>2. CASE \E i \in DOMAIN base : base[i].id = rows[j].id
    <3>1. PICK i \in DOMAIN base : base[i].id = rows[j].id
      BY <2>2
    <3>2. i \in DOMAIN list /\ list[i] = base[i]
      BY <1>5, <1>9
    <3> QED BY <3>1, <3>2
  <2> QED BY <1>3, <2>1, <2>2
<1>14. base = <<>> => Len(list) <= Len(rows)
  BY <1>5, <1>9
<1>15. JoinedOf(base, rows, list)
  BY <1>2, <1>5, <1>9, <1>10, <1>11, <1>12, <1>13, <1>14 DEF JoinedOf
<1> QED BY <1>1, <1>15

\* What is left of a list.
NewestOf(list, new) ==
  /\ new \in Seq(RowType)
  /\ ~(Len(list) > Window) => new = list
  /\ Len(list) > Window =>
       /\ Len(new) = Window /\ Len(list) - Window \in Nat
       /\ \A i \in DOMAIN new : Len(list) - Window + i \in DOMAIN list /\ new[i] = list[Len(list) - Window + i]
       /\ \A i \in DOMAIN list :
            \/ i <= Len(list) - Window
            \/ i - (Len(list) - Window) \in DOMAIN new /\ list[i] = new[i - (Len(list) - Window)]

LEMMA NewestIsTheEnd ==
    ASSUME NEW list \in Seq(RowType)
    PROVE  NewestOf(list, Newest(list))
<1>1. Window \in Nat \ {0} /\ Len(list) \in Nat /\ DOMAIN list = 1 .. Len(list)
  BY FeedAssumption
<1>2. CASE ~(Len(list) > Window)
  <2>1. Newest(list) = list
    BY <1>1, <1>2 DEF Newest
  <2> QED BY <1>2, <2>1 DEF NewestOf
<1>3. CASE Len(list) > Window
  <2> DEFINE d == Len(list) - Window
             new == SubSeq(list, d + 1, Len(list))
  <2>1. d \in Nat /\ Newest(list) = new /\ d < Len(list)
    BY <1>1, <1>3 DEF Newest
  <2>2. /\ new \in Seq(RowType) /\ Len(new) = Window /\ DOMAIN new = 1 .. Window
        /\ \A i \in 1 .. Window : new[i] = list[d + i] /\ d + i \in DOMAIN list
    BY <1>1, <1>3
  <2> HIDE DEF new
  <2>3. \A i \in DOMAIN list : i <= d \/ (i - d \in DOMAIN new /\ list[i] = new[i - d])
    <3> SUFFICES ASSUME NEW i \in DOMAIN list, ~(i <= d) PROVE (i - d \in DOMAIN new /\ list[i] = new[i - d])
      OBVIOUS
    <3>1. i - d \in 1 .. Window /\ d + (i - d) = i
      <4>1. i \in Int /\ d \in Int /\ i <= Len(list) /\ i > d
        BY <1>1, <2>1
      <4> QED BY <1>1, <4>1
    <3> HIDE DEF d
    <3> QED BY <2>2, <3>1
  <2>4. NewestOf(list, new)
    BY <1>1, <1>3, <2>1, <2>2, <2>3 DEF NewestOf
  <2> QED BY <2>1, <2>4
<1> QED BY <1>2, <1>3
------------------------------------------------------------------------------
(* Writes of the store.                                                    *)

StoreType == [tx : [Tx -> Stored], rule : [there : BOOLEAN, category : Categories, version : Nat]]

\* What every write of the store keeps of a transaction.
WrittenTx(old, new) ==
  /\ new \in Stored /\ (new.manual <=> old.manual)
  /\ old.version <= new.version /\ old.categoryVersion <= new.categoryVersion
  /\ new.there => old.there \/ ~old.manual
  /\ old.source = "user" => new.source = "user"
  /\ new.source = "user" /\ ~new.manual => new.categoryVersion > 0

Written(s) == s \in StoreType /\ \A t \in Tx : WrittenTx(store.tx[t], s.tx[t])

\* The history after a write.
LEMMA HistoryAfterWrite ==
    ASSUME TypeOK, NEW s, s \in StoreType, Wrote(s)
    PROVE  /\ store' = s
           /\ history' \in [versions : [Tx -> SUBSET RowType], settled : SUBSET Tx,
                            known : [Tx -> [version : Nat, categoryVersion : Nat, void : BOOLEAN]]]
           /\ history'.known = history.known
           /\ \A t \in Tx : history'.versions[t] = history.versions[t] \cup {Row(t, s.tx[t])}
           /\ \A t \in history'.settled :
                /\ t \in history.settled /\ t \in Tx
                /\ s.tx[t].there = store.tx[t].there
                /\ s.tx[t].day = store.tx[t].day /\ s.tx[t].category = store.tx[t].category
<1> DEFINE versions == [t \in Tx |-> history.versions[t] \cup {Row(t, s.tx[t])}]
           settled == {t \in history.settled :
                         s.tx[t].there = store.tx[t].there /\ s.tx[t].day = store.tx[t].day
                         /\ s.tx[t].category = store.tx[t].category}
<1>1. store' = s /\ history' = [history EXCEPT !.versions = versions, !.settled = settled]
  BY DEF Wrote
<1>2. \A t \in Tx : Row(t, s.tx[t]) \in RowType
  <2> SUFFICES ASSUME NEW t \in Tx PROVE Row(t, s.tx[t]) \in RowType
    OBVIOUS
  <2>1. s.tx[t] \in Stored
    BY DEF StoreType
  <2> QED BY <2>1 DEF Row, RowType, Stored
<1>3. history \in [versions : [Tx -> SUBSET RowType], settled : SUBSET Tx,
                   known : [Tx -> [version : Nat, categoryVersion : Nat, void : BOOLEAN]]]
  BY DEF TypeOK
<1>4. versions \in [Tx -> SUBSET RowType] /\ \A t \in Tx : versions[t] = history.versions[t] \cup {Row(t, s.tx[t])}
  BY <1>2, <1>3
<1>5. settled \subseteq Tx /\ \A t \in settled :
        /\ t \in history.settled /\ s.tx[t].there = store.tx[t].there
        /\ s.tx[t].day = store.tx[t].day /\ s.tx[t].category = store.tx[t].category
  BY <1>3
<1> HIDE DEF versions, settled
<1>6. /\ history'.versions = versions /\ history'.settled = settled /\ history'.known = history.known
      /\ history' \in [versions : [Tx -> SUBSET RowType], settled : SUBSET Tx,
                       known : [Tx -> [version : Nat, categoryVersion : Nat, void : BOOLEAN]]]
  BY <1>1, <1>3, <1>4, <1>5
<1> QED BY <1>1, <1>4, <1>5, <1>6

\* A write keeps what is said of the store, of the list and of its pages.
LEMMA WriteKeepsStore ==
    ASSUME FeedInv, NEW s, Written(s), Wrote(s), world' = world
    PROVE  /\ StoreHolds' /\ KnownHolds' /\ (saving' = saving => SavingHolds')
           /\ \A t \in Tx : store.tx[t].source = "user" => store'.tx[t].source = "user"
<1>1. TypeOK /\ StoreHolds /\ KnownHolds /\ SavingHolds
  BY DEF FeedInv
<1>2. s \in StoreType /\ \A t \in Tx : WrittenTx(store.tx[t], s.tx[t])
  BY DEF Written
<1>3. /\ store' = s /\ history'.known = history.known
      /\ \A t \in Tx : history'.versions[t] = history.versions[t] \cup {Row(t, s.tx[t])}
      /\ \A t \in history'.settled : t \in history.settled /\ s.tx[t].there = store.tx[t].there
  BY <1>1, <1>2, HistoryAfterWrite
<1>4. \A t \in Tx : store.tx[t] \in Stored
  BY <1>1 DEF TypeOK
<1>5. StoreHolds'
  <2> SUFFICES ASSUME NEW t \in Tx
               PROVE  /\ s.tx[t].manual <=> t \in world.manual
                      /\ s.tx[t].source = "user" /\ ~s.tx[t].manual => s.tx[t].categoryVersion > 0
                      /\ Row(t, s.tx[t]) \in history'.versions[t]
                      /\ t \in history'.settled => s.tx[t].there
    BY <1>3 DEF StoreHolds, Row
  <2> QED BY <1>1, <1>2, <1>3 DEF StoreHolds, WrittenTx
<1>6. KnownHolds'
  <2> SUFFICES ASSUME NEW t \in Tx, s.tx[t].there \/ ~s.tx[t].manual
               PROVE  /\ history.known[t].version <= s.tx[t].version
                      /\ history.known[t].categoryVersion <= s.tx[t].categoryVersion
                      /\ ~history.known[t].void
    BY <1>3 DEF KnownHolds
  <2>1. WrittenTx(store.tx[t], s.tx[t]) /\ (store.tx[t].there \/ ~store.tx[t].manual)
    BY <1>2 DEF WrittenTx
  <2>2. /\ history.known[t].version <= store.tx[t].version
        /\ history.known[t].categoryVersion <= store.tx[t].categoryVersion
        /\ ~history.known[t].void
    BY <1>1, <2>1 DEF KnownHolds
  <2>3. {history.known[t].version, history.known[t].categoryVersion, store.tx[t].version,
         store.tx[t].categoryVersion, s.tx[t].version, s.tx[t].categoryVersion} \subseteq Nat
    <3>1. history.known[t] \in [version : Nat, categoryVersion : Nat, void : BOOLEAN]
      BY <1>1 DEF TypeOK
    <3> QED BY <1>4, <2>1, <3>1 DEF Stored, WrittenTx
  <2> QED BY <2>1, <2>2, <2>3 DEF WrittenTx
<1>7. ASSUME saving' = saving PROVE SavingHolds'
  <2> SUFFICES ASSUME saving.kind # "none"
               PROVE  LET change == saving.change  row == s.tx[change.id]
                      IN  /\ change \in ChangeType
                          /\ saving.kind # "category" => change.id \in world.manual
                          /\ saving.state = "done" =>
                               /\ saving.kind = "category" => change.categoryVersion < row.categoryVersion
                               /\ saving.kind = "edit" =>
                                    change.version < row.version /\ change.categoryVersion <= row.categoryVersion
                               /\ saving.kind = "void" => ~row.there
    BY <1>1, <1>3, <1>7 DEF SavingHolds, ChangeType
  <2> DEFINE change == saving.change
  <2>1. change \in ChangeType /\ change.id \in Tx /\ change.version \in Nat /\ change.categoryVersion \in Nat
    BY <1>1 DEF SavingHolds, ChangeType
  <2>2. WrittenTx(store.tx[change.id], s.tx[change.id]) /\ store.tx[change.id] \in Stored
    BY <1>2, <1>4, <2>1
  <2>3. {store.tx[change.id].version, store.tx[change.id].categoryVersion, s.tx[change.id].version,
         s.tx[change.id].categoryVersion} \subseteq Nat
    BY <2>2 DEF Stored, WrittenTx
  <2>4. store.tx[change.id].manual <=> change.id \in world.manual
    BY <1>1, <2>1 DEF StoreHolds
  <2> QED BY <1>1, <2>1, <2>2, <2>3, <2>4 DEF SavingHolds, WrittenTx
<1>8. \A t \in Tx : store.tx[t].source = "user" => store'.tx[t].source = "user"
  BY <1>2, <1>3 DEF WrittenTx
<1> QED BY <1>5, <1>6, <1>7, <1>8

\* What is listed stays listed, and what is wanted was wanted.
LEMMA WriteKeepsLists ==
    ASSUME FeedInv, NEW s, Written(s), Wrote(s), UNCHANGED <<world, loads, client>>
    PROVE  ListHolds' /\ PageHolds' /\ AnswerHolds'
<1>1. TypeOK /\ StoreHolds /\ KnownHolds /\ SavingHolds /\ ListHolds /\ PageHolds /\ AnswerHolds
  BY DEF FeedInv
<1>2. s \in StoreType
  BY DEF Written
<1>3. /\ store' = s /\ history'.known = history.known
      /\ \A t \in Tx : history'.versions[t] = history.versions[t] \cup {Row(t, s.tx[t])}
      /\ \A t \in history'.settled :
           /\ t \in history.settled /\ t \in Tx
           /\ s.tx[t].day = store.tx[t].day /\ s.tx[t].category = store.tx[t].category
  BY <1>1, <1>2, HistoryAfterWrite
<1>4. \A list \in Seq(RowType) : \A i \in DOMAIN list : list[i].id \in Tx
  BY ElementType, PlacesAreNumbers
<1>5. \A list \in Seq(RowType) : \A i \in DOMAIN list : \A row \in history.versions[list[i].id] :
         row \in history'.versions[list[i].id]
  BY <1>3, <1>4
<1>6. \A list \in Seq(RowType) : \A i \in DOMAIN list :
         list[i].id \in history'.settled =>
           list[i].id \in history.settled /\ s.tx[list[i].id].day = store.tx[list[i].id].day
  BY <1>3
<1>7. \A t \in Wanted' : /\ t \in Wanted /\ \A row : Before(Row(t, s.tx[t]), row) <=> Before(Row(t, store.tx[t]), row)
                         /\ \A cursor : AfterCursor(cursor, Row(t, s.tx[t])) <=> AfterCursor(cursor, Row(t, store.tx[t]))
  BY <1>3 DEF Wanted, Before, AfterCursor, Row
<1>8. client.list \in Seq(RowType) /\ client' = client /\ loads' = loads
  BY <1>1 DEF TypeOK
<1>9. ASSUME client.current # 0
      PROVE  LET load == loads[client.current] IN load.base \in Seq(RowType) /\ load.rows \in Seq(RowType)
  BY <1>1, <1>9, LoadType DEF PageHolds
<1>10. ListHolds'
  <2>1. SingleRows(client.list)'
    BY <1>1, <1>8 DEF ListHolds, SingleRows
  <2>2. ASSUME client.online PROVE OfFilter(client.list, client.filter)'
    BY <1>1, <1>5, <1>8, <2>2 DEF ListHolds, OfFilter
  <2>3. ASSUME client.online, ~client.refresh
        PROVE  Ordered(client.list)' /\ AsTold(client.list)' /\ AsSettled(client.list)'
    <3>1. Ordered(client.list) /\ AsTold(client.list) /\ AsSettled(client.list)
      BY <1>1, <2>3 DEF ListHolds
    <3>2. Ordered(client.list)'
      BY <1>8, <3>1 DEF Ordered, Before
    <3>3. AsTold(client.list)'
      BY <1>3, <1>5, <1>8, <3>1 DEF AsTold
    <3>4. AsSettled(client.list)'
      <4>1. \A i \in DOMAIN client.list : client.list[i].id \in history'.settled =>
               client.list[i].id \in history.settled /\ s.tx[client.list[i].id].day = store.tx[client.list[i].id].day
        BY <1>6, <1>8
      <4>2. \A i \in DOMAIN client.list : client.list[i].id \in history'.settled =>
               client.list[i].day = s.tx[client.list[i].id].day
        BY <3>1, <4>1 DEF AsSettled
      <4> QED BY <1>3, <1>8, <4>2 DEF AsSettled
    <3> QED BY <3>2, <3>3, <3>4
  <2>4. ASSUME client.online, ~client.refresh, client.list # <<>>, NEW t \in Wanted', Reached(client.cursor, t)'
        PROVE  Shows(client.list, t)' \/ (client.older /\ Before(Row(t, s.tx[t]), client.list[1]))
    <3>1. Reached(client.cursor, t) /\ t \in Wanted
      BY <1>3, <1>7, <1>8, <2>4 DEF Reached
    <3>2. Shows(client.list, t) \/ (client.older /\ Before(Row(t, store.tx[t]), client.list[1]))
      BY <1>1, <2>4, <3>1 DEF ListHolds
    <3> QED BY <1>7, <1>8, <2>4, <3>2 DEF Shows
  <2> QED BY <1>1, <1>3, <1>8, <2>1, <2>2, <2>3, <2>4 DEF ListHolds, AfterCursor, Before
<1>11. PageHolds'
  <2> SUFFICES ASSUME client.current # 0 PROVE OfFilter(loads[client.current].base, loads[client.current].filter)'
    BY <1>1, <1>8 DEF PageHolds, SingleRows
  <2> DEFINE base == loads[client.current].base
  <2>1. OfFilter(base, loads[client.current].filter) /\ base \in Seq(RowType)
    BY <1>1, <1>9 DEF PageHolds
  <2>2. \A i \in DOMAIN base : \A row \in history.versions[base[i].id] : row \in history'.versions[base[i].id]
    BY <1>5, <2>1
  <2> QED BY <1>8, <2>1, <2>2 DEF OfFilter
<1>12. AnswerHolds'
  <2> SUFFICES ASSUME client.current # 0, loads[client.current].state = "answered"
               PROVE  /\ OfFilter(loads[client.current].rows, loads[client.current].filter)'
                      /\ AsSettled(loads[client.current].rows)'
                      /\ ~client.refresh => AsTold(loads[client.current].rows)'
                      /\ \A t \in Wanted' : Reached(loads[client.current].after, t)' /\ ~Reached(loads[client.current].next, t)'
                           => Shows(loads[client.current].rows, t)'
    <3>1. AnswerHolds /\ client' = client /\ loads' = loads
      BY <1>1, <1>8
    <3> QED BY <3>1 DEF AnswerHolds, SingleRows, Ordered, AfterCursor, Before
  <2>1. OfFilter(loads[client.current].rows, loads[client.current].filter)'
    BY <1>1, <1>5, <1>8, <1>9 DEF AnswerHolds, OfFilter
  <2>2. AsSettled(loads[client.current].rows)'
    <3> DEFINE rows == loads[client.current].rows
    <3>1. AsSettled(rows) /\ rows \in Seq(RowType)
      BY <1>1, <1>9 DEF AnswerHolds
    <3>2. \A i \in DOMAIN rows : rows[i].id \in history'.settled =>
             rows[i].id \in history.settled /\ s.tx[rows[i].id].day = store.tx[rows[i].id].day
      BY <1>6, <3>1
    <3>3. \A i \in DOMAIN rows : rows[i].id \in history'.settled => rows[i].day = s.tx[rows[i].id].day
      BY <3>1, <3>2 DEF AsSettled
    <3> QED BY <1>3, <1>8, <3>3 DEF AsSettled
  <2>3. ASSUME ~client.refresh PROVE AsTold(loads[client.current].rows)'
    BY <1>1, <1>3, <1>5, <1>8, <1>9, <2>3 DEF AnswerHolds, AsTold
  <2>4. ASSUME NEW t \in Wanted', Reached(loads[client.current].after, t)', ~Reached(loads[client.current].next, t)'
        PROVE  Shows(loads[client.current].rows, t)'
    <3>1. Reached(loads[client.current].after, t) /\ ~Reached(loads[client.current].next, t) /\ t \in Wanted
      BY <1>3, <1>7, <1>8, <2>4 DEF Reached
    <3> QED BY <1>1, <1>8, <3>1 DEF AnswerHolds, Shows
  <2> QED BY <2>1, <2>2, <2>3, <2>4
<1> QED BY <1>10, <1>11, <1>12

RuleType == [there : BOOLEAN, category : Categories, version : Nat]

LEMMA TxIsWritten ==
    ASSUME FeedInv, NEW t \in Tx, NEW r, WrittenTx(store.tx[t], r), NEW rule \in RuleType,
           NEW s, s = [tx |-> [store.tx EXCEPT ![t] = r], rule |-> rule]
    PROVE  Written(s)
<1>1. store.tx \in [Tx -> Stored] /\ StoreHolds
  BY DEF FeedInv, TypeOK
<1>2. s.tx = [store.tx EXCEPT ![t] = r] /\ s.rule = rule
  OBVIOUS
<1>3. r \in Stored
  BY DEF WrittenTx
<1>4. s \in StoreType
  BY <1>1, <1>3 DEF StoreType, RuleType
<1>5. ASSUME NEW u \in Tx PROVE WrittenTx(store.tx[u], s.tx[u])
  <2>1. CASE u = t
    BY <1>1, <1>2, <2>1
  <2>2. CASE u # t
    <3>1. s.tx[u] = store.tx[u] /\ store.tx[u] \in Stored
      BY <1>1, <1>2, <2>2
    <3> QED BY <1>1, <3>1 DEF StoreHolds, WrittenTx, Stored
  <2> QED BY <2>1, <2>2
<1> QED BY <1>4, <1>5 DEF Written

LEMMA RuleIsWritten ==
    ASSUME FeedInv, NEW rule \in RuleType, NEW s, s = [tx |-> store.tx, rule |-> rule]
    PROVE  Written(s)
<1>1. store.tx \in [Tx -> Stored] /\ StoreHolds
  BY DEF FeedInv, TypeOK
<1>2. s \in StoreType
  BY <1>1 DEF StoreType, RuleType
<1>3. ASSUME NEW u \in Tx PROVE WrittenTx(store.tx[u], s.tx[u])
  <2>1. s.tx[u] = store.tx[u] /\ store.tx[u] \in Stored
    BY <1>1
  <2> QED BY <1>1, <2>1 DEF StoreHolds, WrittenTx, Stored
<1> QED BY <1>2, <1>3 DEF Written

\* The store, written at one transaction or at the rule.
LEMMA StoreAsRecord ==
    ASSUME TypeOK
    PROVE  /\ store.rule \in RuleType /\ store.tx \in [Tx -> Stored] /\ \A t \in Tx : store.tx[t] \in Stored
           /\ store = [tx |-> store.tx, rule |-> store.rule]
           /\ \A r : [store EXCEPT !.rule = r] = [tx |-> store.tx, rule |-> r]
           /\ \A t \in Tx : \A r : [store EXCEPT !.tx[t] = r] = [tx |-> [store.tx EXCEPT ![t] = r], rule |-> store.rule]
<1>1. store \in [tx : [Tx -> Stored], rule : RuleType]
  BY DEF TypeOK, RuleType
<1>2. store = [tx |-> store.tx, rule |-> store.rule]
  BY <1>1
<1>3. \A r : [store EXCEPT !.rule = r] = [tx |-> store.tx, rule |-> r]
  BY <1>1
<1>4. \A t \in Tx : \A r : [store EXCEPT !.tx[t] = r] = [tx |-> [store.tx EXCEPT ![t] = r], rule |-> store.rule]
  BY <1>1
<1> QED BY <1>1, <1>2, <1>3, <1>4

\* Every write of the API and of the bank is of this kind.
Writes == \E s : Written(s) /\ Wrote(s)

LEMMA WorldDays ==
    ASSUME TypeOK, NEW day \in Range(world.days)
    PROVE  day \in Days
<1>1. world.days \in Seq(Days)
  BY FeedAssumption DEF TypeOK
<1>2. PICK i \in DOMAIN world.days : day = world.days[i]
  BY DEF Range
<1> QED BY <1>1, <1>2

LEMMA CategorizedIsWritten ==
    ASSUME NEW r \in Stored, NEW category \in Categories
    PROVE  /\ WrittenTx(r, Categorized(r, category, "user"))
           /\ r.source # "user" => WrittenTx(r, Categorized(r, category, "provider"))
<1>1. ASSUME NEW source \in Sources, NEW n, n = Categorized(r, category, source)
      PROVE  /\ n \in Stored /\ n.manual = r.manual /\ n.there = r.there /\ n.version = r.version
             /\ n.categoryVersion = r.categoryVersion + 1 /\ n.source = source /\ n.day = r.day
  <2>1. r.categoryVersion + 1 \in Nat
    BY DEF Stored
  <2> QED BY <1>1, <2>1 DEF Categorized, Stored
<1>2. {"user", "provider"} \subseteq Sources /\ r.version \in Nat /\ r.categoryVersion \in Nat
  BY DEF Sources, Stored
<1>3. WrittenTx(r, Categorized(r, category, "user"))
  BY <1>1, <1>2 DEF WrittenTx
<1>4. ASSUME r.source # "user" PROVE WrittenTx(r, Categorized(r, category, "provider"))
  BY <1>1, <1>2, <1>4 DEF WrittenTx
<1> QED BY <1>3, <1>4

LEMMA RemovedIsWritten ==
    ASSUME NEW r \in Stored, NEW there \in BOOLEAN, there => ~r.manual \/ r.there,
           r.source = "user" /\ ~r.manual => r.categoryVersion > 0
    PROVE  WrittenTx(r, Removed(r, there))
<1>1. r.version \in Nat /\ r.version + 1 \in Nat /\ r.categoryVersion \in Nat
  BY DEF Stored
<1>2. ASSUME NEW n, n = Removed(r, there)
      PROVE  /\ n \in Stored /\ n.manual = r.manual /\ (n.there <=> there) /\ n.version = r.version + 1
             /\ n.categoryVersion = r.categoryVersion /\ n.source = r.source
  BY <1>1, <1>2 DEF Removed, Stored
<1> QED BY <1>1, <1>2 DEF WrittenTx

LEMMA UpdateTransactionCategoryWrites ==
    ASSUME FeedInv, NEW c \in ChangeType, UpdateTransactionCategory(c)
    PROVE  Writes
<1>1. TypeOK
  BY DEF FeedInv
<1>2. c.id \in Tx /\ c.category \in Categories
  BY DEF ChangeType
<1> DEFINE r == Categorized(store.tx[c.id], c.category, "user")
           rule == IF c.future THEN RuleFor(store.rule, TRUE, c.category) ELSE store.rule
           s == [tx |-> [store.tx EXCEPT ![c.id] = r], rule |-> rule]
<1>3. WrittenTx(store.tx[c.id], r)
  BY <1>1, <1>2, StoreAsRecord, CategorizedIsWritten
<1>4. rule \in RuleType
  BY <1>1, <1>2, StoreAsRecord DEF RuleFor, RuleType
<1>5. Wrote(s)
  BY DEF UpdateTransactionCategory
<1> HIDE DEF r, rule
<1>6. Written(s)
  BY <1>2, <1>3, <1>4, TxIsWritten
<1> HIDE DEF s
<1> QED BY <1>5, <1>6 DEF Writes

LEMMA UpdateManualTransactionWrites ==
    ASSUME FeedInv, NEW c \in ChangeType, UpdateManualTransaction(c)
    PROVE  Writes
<1>1. TypeOK
  BY DEF FeedInv
<1>2. c.id \in Tx /\ c.category \in Categories /\ c.day \in Days
  BY DEF ChangeType
<1> DEFINE old == store.tx[c.id]
           kept == SetManualCategory(old, c.category)
           r == [kept EXCEPT !.day = c.day, !.version = @ + 1]
           s == [store EXCEPT !.tx[c.id] = r]
<1>3. old \in Stored /\ old.there /\ old.manual
  BY <1>1, <1>2, StoreAsRecord DEF UpdateManualTransaction
<1>4. /\ kept \in Stored /\ kept.manual /\ kept.there /\ kept.source = "user" /\ kept.version = old.version
      /\ old.categoryVersion <= kept.categoryVersion
  <2>1. old.version \in Nat /\ old.categoryVersion \in Nat /\ "user" \in Sources
    BY <1>3 DEF Stored, Sources
  <2>2. CASE old.category = c.category /\ old.source = "user"
    BY <1>3, <2>1, <2>2 DEF SetManualCategory
  <2>3. CASE ~(old.category = c.category /\ old.source = "user")
    <3>1. kept = Categorized(old, c.category, "user")
      BY <2>3 DEF SetManualCategory
    <3> HIDE DEF kept
    <3>2. /\ kept \in Stored /\ kept.manual = old.manual /\ kept.there = old.there /\ kept.source = "user"
          /\ kept.version = old.version /\ kept.categoryVersion = old.categoryVersion + 1
      <4>1. old.categoryVersion + 1 \in Nat
        BY <2>1
      <4> QED BY <1>2, <1>3, <2>1, <3>1, <4>1 DEF Categorized, Stored
    <3> QED BY <1>3, <2>1, <3>2
  <2> QED BY <2>2, <2>3
<1>5. Wrote(s)
  BY DEF UpdateManualTransaction
<1> HIDE DEF kept
<1>6. WrittenTx(old, r)
  <2>1. old.version \in Nat /\ kept.version + 1 \in Nat
    BY <1>3, <1>4 DEF Stored
  <2>2. /\ r \in Stored /\ r.manual /\ r.there /\ r.source = "user" /\ r.version = kept.version + 1
        /\ r.categoryVersion = kept.categoryVersion
    BY <1>2, <1>4, <2>1 DEF Stored
  <2> HIDE DEF r
  <2> QED BY <1>3, <1>4, <2>1, <2>2 DEF WrittenTx
<1> HIDE DEF r
<1>7. s = [tx |-> [store.tx EXCEPT ![c.id] = r], rule |-> store.rule]
  BY <1>1, <1>2, StoreAsRecord
<1> HIDE DEF s
<1>8. Written(s)
  BY <1>1, <1>2, <1>6, <1>7, TxIsWritten, StoreAsRecord
<1> QED BY <1>5, <1>8 DEF Writes

LEMMA VoidManualTransactionWrites ==
    ASSUME FeedInv, NEW c \in ChangeType, VoidManualTransaction(c)
    PROVE  Writes
<1>1. TypeOK /\ StoreHolds
  BY DEF FeedInv
<1>2. c.id \in Tx
  BY DEF ChangeType
<1> DEFINE old == store.tx[c.id]
           r == Removed(old, FALSE)
<1>3. old \in Stored /\ old.manual
  BY <1>1, <1>2, StoreAsRecord DEF VoidManualTransaction
<1>4. CASE old.there
  <2> DEFINE s == [store EXCEPT !.tx[c.id] = r]
  <2>1. Wrote(s)
    BY <1>4 DEF VoidManualTransaction
  <2>3. WrittenTx(old, r)
    BY <1>1, <1>2, <1>3, RemovedIsWritten DEF StoreHolds
  <2> HIDE DEF r
  <2>4. s = [tx |-> [store.tx EXCEPT ![c.id] = r], rule |-> store.rule]
    BY <1>1, <1>2, StoreAsRecord
  <2> HIDE DEF s
  <2>5. Written(s)
    BY <1>1, <1>2, <2>3, <2>4, TxIsWritten, StoreAsRecord
  <2> QED BY <2>1, <2>5 DEF Writes
<1>5. CASE ~old.there
  <2>1. Wrote(store)
    BY <1>5 DEF VoidManualTransaction
  <2>2. Written(store)
    BY <1>1, RuleIsWritten, StoreAsRecord
  <2> QED BY <2>1, <2>2 DEF Writes
<1> QED BY <1>4, <1>5

LEMMA IngestedIsWritten ==
    ASSUME TypeOK, NEW r \in Stored, NEW day \in Days, NEW category \in Categories, ~r.manual,
           r.source = "user" => r.categoryVersion > 0
    PROVE  WrittenTx(r, Ingested(r, day, category))
<1> DEFINE kept == IF r.categoryVersion = 0 THEN Assigned(r, category) ELSE Reassigned(r, category)
<1>1. r.version \in Nat /\ r.version + 1 \in Nat /\ r.categoryVersion \in Nat
  BY DEF Stored
<1>2. /\ kept \in Stored /\ kept.manual = r.manual /\ kept.version = r.version
      /\ r.categoryVersion <= kept.categoryVersion /\ (r.source = "user" <=> kept.source = "user")
      /\ kept.source = "user" => kept.categoryVersion > 0
  <2>1. CASE r.categoryVersion = 0
    <3>1. kept = Assigned(r, category)
      BY <2>1
    <3> HIDE DEF kept
    <3>2. store.rule.category \in Categories
      BY DEF TypeOK
    <3>3. \E c \in Categories, source \in {"merchant_rule", "provider"} :
            kept = [r EXCEPT !.category = c, !.source = source, !.categoryVersion = 1]
      BY <3>1, <3>2 DEF Assigned
    <3>4. PICK c \in Categories, source \in {"merchant_rule", "provider"} :
            kept = [r EXCEPT !.category = c, !.source = source, !.categoryVersion = 1]
      BY <3>3
    <3>5. /\ kept \in Stored /\ kept.manual = r.manual /\ kept.version = r.version
          /\ kept.categoryVersion = 1 /\ kept.source = source
      BY <3>4 DEF Stored, Sources
    <3> QED BY <1>1, <2>1, <3>5
  <2>2. CASE r.categoryVersion # 0
    <3>1. kept = Reassigned(r, category)
      BY <2>2
    <3> HIDE DEF kept
    <3>2. CASE r.source \in {"user", "merchant_rule"} \/ r.category = category
      BY <1>1, <2>2, <3>1, <3>2 DEF Reassigned
    <3>3. CASE ~(r.source \in {"user", "merchant_rule"} \/ r.category = category)
      <4>1. kept = Categorized(r, category, "provider")
        BY <3>1, <3>3 DEF Reassigned
      <4>2. r.categoryVersion + 1 \in Nat
        BY <1>1
      <4>3. /\ kept \in Stored /\ kept.manual = r.manual /\ kept.version = r.version
            /\ kept.categoryVersion = r.categoryVersion + 1 /\ kept.source = "provider"
        BY <4>1, <4>2 DEF Categorized, Stored, Sources
      <4> QED BY <1>1, <3>3, <4>3
    <3> QED BY <3>2, <3>3
  <2> QED BY <2>1, <2>2
<1>3. Ingested(r, day, category) = [kept EXCEPT !.there = TRUE, !.day = day, !.version = @ + 1]
  BY DEF Ingested
<1> HIDE DEF kept
<1>4. ASSUME NEW n, n = Ingested(r, day, category)
      PROVE  /\ n \in Stored /\ n.manual = r.manual /\ n.version = r.version + 1
             /\ n.categoryVersion = kept.categoryVersion /\ n.source = kept.source
  <2>1. n = [kept EXCEPT !.there = TRUE, !.day = day, !.version = @ + 1]
    BY <1>3, <1>4
  <2>2. kept \in Stored /\ kept.version + 1 \in Nat
    BY <1>1, <1>2
  <2>3. n \in Stored /\ n.manual = kept.manual /\ n.version = kept.version + 1
        /\ n.categoryVersion = kept.categoryVersion /\ n.source = kept.source
    BY <2>1, <2>2 DEF Stored
  <2> QED BY <1>2, <2>3
<1>5. kept.categoryVersion \in Nat
  BY <1>2 DEF Stored
<1> QED BY <1>1, <1>2, <1>4, <1>5 DEF WrittenTx

\* A write of one transaction by the bank or another session.
LEMMA TxWrites ==
    ASSUME FeedInv, NEW t \in Tx, NEW r, WrittenTx(store.tx[t], r), Wrote([store EXCEPT !.tx[t] = r])
    PROVE  Writes
<1> DEFINE s == [store EXCEPT !.tx[t] = r]
<1>1. TypeOK
  BY DEF FeedInv
<1>2. s = [tx |-> [store.tx EXCEPT ![t] = r], rule |-> store.rule] /\ store.rule \in RuleType
  BY <1>1, StoreAsRecord
<1>3. Wrote(s)
  OBVIOUS
<1> HIDE DEF s
<1>4. Written(s)
  BY <1>2, TxIsWritten
<1> QED BY <1>3, <1>4 DEF Writes

LEMMA ChangeWrites ==
    ASSUME FeedInv, Change
    PROVE  Writes
<1>1. TypeOK /\ StoreHolds
  BY DEF FeedInv
<1>2. \A t \in Tx : store.tx[t] \in Stored
  BY <1>1, StoreAsRecord
<1>3. ASSUME NEW t \in Tx, NEW day \in Range(world.days), NEW c \in Categories, IngestTransaction(t, day, c)
      PROVE  Writes
  <2>1. ~store.tx[t].manual /\ Wrote([store EXCEPT !.tx[t] = Ingested(store.tx[t], day, c)])
    BY <1>3 DEF IngestTransaction
  <2>2. day \in Days
    BY <1>1, WorldDays
  <2>3. WrittenTx(store.tx[t], Ingested(store.tx[t], day, c))
    BY <1>1, <1>2, <2>1, <2>2, IngestedIsWritten DEF StoreHolds
  <2> QED BY <2>1, <2>3, TxWrites
<1>4. ASSUME NEW t \in Tx, NEW other \in BOOLEAN, RemoveTransaction(t, other) PROVE Writes
  <2>1. store.tx[t].there /\ Wrote([store EXCEPT !.tx[t] = Removed(store.tx[t], other)])
    BY <1>4 DEF RemoveTransaction
  <2>2. WrittenTx(store.tx[t], Removed(store.tx[t], other))
    BY <1>1, <1>2, <2>1, RemovedIsWritten DEF StoreHolds
  <2> QED BY <2>1, <2>2, TxWrites
<1>5. ASSUME NEW t \in Tx, NEW c \in Categories, ChangeElsewhere(t, c) PROVE Writes
  <2>1. Wrote([store EXCEPT !.tx[t] = Categorized(store.tx[t], c, "user")])
    BY <1>5 DEF ChangeElsewhere
  <2>2. WrittenTx(store.tx[t], Categorized(store.tx[t], c, "user"))
    BY <1>2, CategorizedIsWritten
  <2> QED BY <2>1, <2>2, TxWrites
<1>6. ASSUME DeleteMerchantCategoryRule PROVE Writes
  <2> DEFINE rule == RuleFor(store.rule, FALSE, store.rule.category)
             s == [store EXCEPT !.rule = rule]
  <2>1. rule \in RuleType
    BY <1>1, StoreAsRecord DEF RuleType, RuleFor
  <2>3. s = [tx |-> store.tx, rule |-> rule]
    BY <1>1, StoreAsRecord
  <2>2. Wrote(s)
    BY <1>6 DEF DeleteMerchantCategoryRule
  <2> HIDE DEF s
  <2>4. Written(s)
    BY <2>1, <2>3, RuleIsWritten
  <2> QED BY <2>2, <2>4 DEF Writes
<1>7. ASSUME NEW c \in Categories, UpdateMerchantCategoryRule(c) PROVE Writes
  <2> DEFINE rule == RuleFor(store.rule, TRUE, c)
             s == [store EXCEPT !.rule = rule]
  <2>1. rule \in RuleType
    BY <1>1, StoreAsRecord DEF RuleType, RuleFor
  <2>3. s = [tx |-> store.tx, rule |-> rule]
    BY <1>1, StoreAsRecord
  <2>2. Wrote(s)
    BY <1>7 DEF UpdateMerchantCategoryRule
  <2> HIDE DEF s
  <2>4. Written(s)
    BY <2>1, <2>3, RuleIsWritten
  <2> QED BY <2>2, <2>4 DEF Writes
<1> QED BY <1>3, <1>4, <1>5, <1>6, <1>7 DEF Change

UserStays == \A t \in Tx : store.tx[t].source = "user" => store'.tx[t].source = "user"

\* A write keeps the type of what it does not change.
LEMMA TypeKept ==
    ASSUME TypeOK, store' \in StoreType,
           history' \in [versions : [Tx -> SUBSET RowType], settled : SUBSET Tx,
                         known : [Tx -> [version : Nat, categoryVersion : Nat, void : BOOLEAN]]],
           bounds' \in [changes : Nat, edits : Nat, refreshes : Nat],
           UNCHANGED <<world, loads, client, saving>>
    PROVE  TypeOK'
<1>1. world' = world /\ loads' = loads /\ client' = client /\ saving' = saving
  OBVIOUS
<1>2. store' \in [tx : [Tx -> Stored], rule : [there : BOOLEAN, category : Categories, version : Nat]]
  BY DEF StoreType
<1> QED BY <1>1, <1>2 DEF TypeOK

LEMMA ChangeKeeps ==
    ASSUME FeedInv, Change
    PROVE  FeedInv' /\ UserStays
<1>1. PICK s : Written(s) /\ Wrote(s)
  BY ChangeWrites DEF Writes
<1>2. UNCHANGED <<world, loads, client, saving>> /\ bounds' = [bounds EXCEPT !.changes = @ + 1]
  BY DEF Change
<1>3. StoreHolds' /\ KnownHolds' /\ SavingHolds' /\ UserStays
  BY <1>1, <1>2, WriteKeepsStore DEF UserStays
<1>4. ListHolds' /\ PageHolds' /\ AnswerHolds'
  BY <1>1, <1>2, WriteKeepsLists
<1>5. TypeOK'
  <2>1. TypeOK /\ s \in StoreType
    BY <1>1 DEF FeedInv, Written
  <2>2. /\ store' = s
        /\ history' \in [versions : [Tx -> SUBSET RowType], settled : SUBSET Tx,
                         known : [Tx -> [version : Nat, categoryVersion : Nat, void : BOOLEAN]]]
    BY <1>1, <2>1, HistoryAfterWrite
  <2>3. bounds' \in [changes : Nat, edits : Nat, refreshes : Nat]
    <3>1. bounds \in [changes : Nat, edits : Nat, refreshes : Nat]
      BY <2>1 DEF TypeOK
    <3> QED BY <1>2, <3>1
  <2> QED BY <1>2, <2>1, <2>2, <2>3, TypeKept
<1> QED BY <1>3, <1>4, <1>5 DEF FeedInv
------------------------------------------------------------------------------
(* Asking for pages.                                                       *)

LoadRecord == [next : Cursor \cup {Start, Nowhere}, filter : Filters, base : Seq(RowType),
               state : {"asked", "answered", "ended"}, rows : Seq(RowType), after : Cursor \cup {Nowhere}]

ClientType == [list : Seq(RowType), filter : Filters, cursor : Cursor, older : BOOLEAN, current : Nat,
               failed : Cursor \cup {Start, Nowhere}, online : BOOLEAN, refresh : BOOLEAN,
               open : RowType \cup {NoRow}]

HistoryType == [versions : [Tx -> SUBSET RowType], settled : SUBSET Tx,
                known : [Tx -> [version : Nat, categoryVersion : Nat, void : BOOLEAN]]]

LEMMA TypeParts ==
    TypeOK <=> /\ world \in Worlds /\ store \in StoreType /\ loads \in Seq(LoadRecord) /\ client \in ClientType
               /\ saving \in [kind : {"none", "category", "edit", "void"}, change : ChangeType \cup {NoRow},
                              state : {"none", "asked", "done"}]
               /\ bounds \in [changes : Nat, edits : Nat, refreshes : Nat] /\ history \in HistoryType
BY DEF TypeOK, StoreType, LoadRecord, ClientType, HistoryType

LEMMA NoRows == <<>> \in Seq(RowType) /\ Len(<<>>) = 0 /\ DOMAIN <<>> = {}
OBVIOUS

\* The first page, asked for by a client that is online.
LEMMA FirstPageIsAsked ==
    ASSUME FeedInv, NEW c \in ClientType, c.online, LoadPage(c, Start), UNCHANGED <<world, store, saving, bounds>>
    PROVE  FeedInv'
<1> DEFINE n == Len(loads) + 1
           load == [next |-> Start, filter |-> c.filter, base |-> <<>>, state |-> "asked",
                    rows |-> <<>>, after |-> Nowhere]
           there == {t \in Tx : store.tx[t].there}
<1>1. TypeOK /\ StoreHolds /\ KnownHolds /\ SavingHolds
  BY DEF FeedInv
<1>2. /\ loads' = Append(loads, load)
      /\ client' = [c EXCEPT !.current = n, !.failed = Nowhere, !.list = <<>>, !.cursor = End, !.older = FALSE]
      /\ history' = [history EXCEPT !.settled = there]
  BY DEF LoadPage, Asked, Settled
<1>3. load \in LoadRecord
  <2>1. Start \in Cursor \cup {Start, Nowhere} /\ Nowhere \in Cursor \cup {Nowhere} /\ c.filter \in Filters
    BY DEF ClientType
  <2> QED BY <2>1, NoRows DEF LoadRecord
<1>4. loads \in Seq(LoadRecord) /\ history \in HistoryType /\ there \subseteq Tx
  BY <1>1, TypeParts
<1>5. /\ load.next = Start /\ load.filter = c.filter /\ load.base = <<>> /\ load.state = "asked"
  OBVIOUS
<1> HIDE DEF load, there
<1>6. loads' \in Seq(LoadRecord) /\ n \in Nat /\ n # 0 /\ n \in DOMAIN loads' /\ loads'[n] = load
  BY <1>2, <1>3, <1>4
<1> HIDE DEF n
<1>7. /\ client' \in ClientType /\ client'.list = <<>> /\ client'.cursor = End /\ ~client'.older
      /\ client'.current = n /\ client'.failed = Nowhere /\ client'.online /\ client'.filter = c.filter
  BY <1>2, <1>6, NoRows DEF ClientType, Cursor
<1>8. /\ history' \in HistoryType /\ history'.settled = there /\ history'.known = history.known
      /\ history'.versions = history.versions
  BY <1>2, <1>4 DEF HistoryType
<1>9. TypeOK'
  <2>1. /\ world' \in Worlds /\ store' \in StoreType
        /\ saving' \in [kind : {"none", "category", "edit", "void"}, change : ChangeType \cup {NoRow},
                        state : {"none", "asked", "done"}]
        /\ bounds' \in [changes : Nat, edits : Nat, refreshes : Nat]
    BY <1>1, TypeParts
  <2> QED BY <1>6, <1>7, <1>8, <2>1 DEF TypeOK, StoreType, LoadRecord, ClientType, HistoryType
<1>10. StoreHolds' /\ KnownHolds' /\ SavingHolds'
  <2>1. StoreHolds'
    BY <1>1, <1>8 DEF StoreHolds, there, Row
  <2>2. KnownHolds'
    BY <1>1, <1>8 DEF KnownHolds
  <2>3. SavingHolds'
    BY <1>1 DEF SavingHolds
  <2> QED BY <2>1, <2>2, <2>3
<1>11. ListHolds'
  BY <1>7, NoRows DEF ListHolds, SingleRows, Ordered, OfFilter, AsTold, AsSettled
<1>12. PageHolds' /\ AnswerHolds'
  BY <1>5, <1>6, <1>7, NoRows DEF PageHolds, AnswerHolds, SingleRows, OfFilter
<1> QED BY <1>9, <1>10, <1>11, <1>12 DEF FeedInv

\* What is said of the list while it stays as it is.
LEMMA ListKept ==
    ASSUME ListHolds, UNCHANGED <<store, history>>, client'.list = client.list, client'.cursor = client.cursor,
           client'.older <=> client.older, client'.online <=> client.online, client'.filter = client.filter,
           client.refresh => client'.refresh,
           ~client'.refresh /\ client.online => client'.failed \in {Nowhere, Start, client.cursor},
           ~client'.refresh /\ client.online /\ client'.failed = Start => client.list = <<>>
    PROVE  ListHolds'
<1>1. SingleRows(client.list)'
  BY DEF ListHolds, SingleRows
<1>2. ASSUME client.online PROVE OfFilter(client.list, client.filter)'
  BY <1>2 DEF ListHolds, OfFilter
<1>3. ASSUME client.online, ~client.refresh
      PROVE  /\ Ordered(client.list)' /\ AsTold(client.list)' /\ AsSettled(client.list)'
             /\ \A i \in DOMAIN client'.list : ~AfterCursor(client'.cursor, client'.list[i])
             /\ client'.list = <<>> => ~client'.older /\ client'.cursor = End
  <2>1. Ordered(client.list) /\ AsTold(client.list) /\ AsSettled(client.list)
    BY <1>3 DEF ListHolds
  <2>2. Ordered(client.list)'
    BY <2>1 DEF Ordered, Before
  <2>3. AsTold(client.list)'
    BY <2>1 DEF AsTold
  <2>4. AsSettled(client.list)'
    BY <2>1 DEF AsSettled
  <2> QED BY <1>3, <2>2, <2>3, <2>4 DEF ListHolds
<1>4. ASSUME client.online, ~client.refresh, client.list # <<>>, NEW t \in Wanted', Reached(client.cursor, t)'
      PROVE  Shows(client.list, t)' \/ (client'.older /\ Before(Row(t, store'.tx[t]), client'.list[1]))
  <2>1. t \in Wanted /\ Reached(client.cursor, t)
    BY <1>4 DEF Wanted, Reached, AfterCursor, Before, Row
  <2>2. Shows(client.list, t) \/ (client.older /\ Before(Row(t, store.tx[t]), client.list[1]))
    BY <1>4, <2>1 DEF ListHolds
  <2> QED BY <2>2 DEF Shows
<1>5. \A t \in Wanted' : client.online /\ ~client.refresh /\ client.list # <<>> /\ Reached(client.cursor, t)' =>
         Shows(client.list, t)' \/ (client'.older /\ Before(Row(t, store'.tx[t]), client'.list[1]))
  BY <1>4
<1>6. client'.online => OfFilter(client.list, client.filter)'
  BY <1>2
<1>7. ASSUME client'.online, ~client'.refresh
      PROVE  /\ Ordered(client.list)' /\ AsTold(client.list)' /\ AsSettled(client.list)'
             /\ \A i \in DOMAIN client'.list : ~AfterCursor(client'.cursor, client'.list[i])
             /\ client'.list = <<>> => ~client'.older /\ client'.cursor = End
             /\ client'.failed \in {Nowhere, Start, client'.cursor}
             /\ client'.failed = Start => client'.list = <<>>
             /\ client'.list # <<>> => \A t \in Wanted' : Reached(client.cursor, t)' =>
                  Shows(client.list, t)' \/ (client'.older /\ Before(Row(t, store'.tx[t]), client'.list[1]))
  <2>1. client.online /\ ~client.refresh
    BY <1>7
  <2>2. client'.failed \in {Nowhere, Start, client'.cursor} /\ (client'.failed = Start => client'.list = <<>>)
    BY <1>7, <2>1
  <2> QED BY <1>3, <1>5, <2>1, <2>2
<1> QED BY <1>1, <1>6, <1>7 DEF ListHolds

\* The next page of the list, or the one that failed.
LEMMA NextPageIsAsked ==
    ASSUME FeedInv, NEW next \in Cursor \cup {Nowhere}, client.online, ~client.refresh => next = client.cursor,
           LoadPage(client, next), UNCHANGED <<world, store, saving, bounds>>
    PROVE  FeedInv'
<1> DEFINE n == Len(loads) + 1
           load == [next |-> next, filter |-> client.filter, base |-> client.list, state |-> "asked",
                    rows |-> <<>>, after |-> Nowhere]
<1>1. TypeOK /\ StoreHolds /\ KnownHolds /\ SavingHolds /\ ListHolds
  BY DEF FeedInv
<1>2. client \in ClientType /\ loads \in Seq(LoadRecord)
  BY <1>1, TypeParts
<1>3. next # Start
  BY DEF Cursor, Start, End, Nowhere, Days
<1>4. /\ loads' = Append(loads, load)
      /\ client' = [client EXCEPT !.current = n, !.failed = Nowhere]
      /\ history' = history
  BY <1>3 DEF LoadPage, Asked, Settled
<1>5. load \in LoadRecord
  BY <1>2, NoRows DEF LoadRecord, ClientType
<1>6. /\ load.next = next /\ load.filter = client.filter /\ load.base = client.list /\ load.state = "asked"
  OBVIOUS
<1> HIDE DEF load
<1>7. loads' \in Seq(LoadRecord) /\ n \in Nat /\ n # 0 /\ n \in DOMAIN loads' /\ loads'[n] = load
  BY <1>2, <1>4, <1>5
<1> HIDE DEF n
<1>8. /\ client' \in ClientType /\ client'.list = client.list /\ client'.cursor = client.cursor
      /\ (client'.older <=> client.older) /\ client'.current = n /\ client'.failed = Nowhere
      /\ (client'.online <=> client.online) /\ (client'.refresh <=> client.refresh) /\ client'.filter = client.filter
  BY <1>2, <1>4, <1>7 DEF ClientType
<1>9. TypeOK'
  <2>1. /\ world' \in Worlds /\ store' \in StoreType /\ history' \in HistoryType
        /\ saving' \in [kind : {"none", "category", "edit", "void"}, change : ChangeType \cup {NoRow},
                        state : {"none", "asked", "done"}]
        /\ bounds' \in [changes : Nat, edits : Nat, refreshes : Nat]
    BY <1>1, <1>4, TypeParts
  <2> QED BY <1>7, <1>8, <2>1 DEF TypeOK, StoreType, LoadRecord, ClientType, HistoryType
<1>10. StoreHolds' /\ KnownHolds' /\ SavingHolds'
  BY <1>1, <1>4 DEF StoreHolds, KnownHolds, SavingHolds
<1>11. ListHolds'
  <2>1. ListHolds /\ UNCHANGED <<store, history>>
    BY <1>1, <1>4
  <2>2. /\ ~client'.refresh /\ client.online => client'.failed \in {Nowhere, Start, client.cursor}
        /\ ~client'.refresh /\ client.online /\ client'.failed = Start => client.list = <<>>
    BY <1>8 DEF Nowhere, Start
  <2> QED BY <1>8, <2>1, <2>2, ListKept
<1>12. PageHolds' /\ AnswerHolds'
  <2>1. SingleRows(client.list) /\ OfFilter(client.list, client.filter)
    BY <1>1 DEF ListHolds
  <2>2. client'.current = n /\ loads'[n] = load /\ history' = history
    BY <1>4, <1>7, <1>8
  <2>3. AnswerHolds'
    BY <1>6, <2>2 DEF AnswerHolds
  <2>4. SingleRows(client.list)' /\ OfFilter(client.list, client.filter)'
    BY <1>8, <2>1, <2>2 DEF SingleRows, OfFilter
  <2>5. PageHolds'
    BY <1>3, <1>6, <1>7, <1>8, <2>1, <2>2 DEF PageHolds, SingleRows, OfFilter
  <2> QED BY <2>3, <2>5
<1> QED BY <1>9, <1>10, <1>11, <1>12 DEF FeedInv

LEMMA ClientParts ==
    ASSUME TypeOK
    PROVE  client \in ClientType /\ client.list \in Seq(RowType) /\ client.cursor \in Cursor
           /\ client.failed \in Cursor \cup {Start, Nowhere} /\ client.current \in Nat
           /\ client.open \in RowType \cup {NoRow}
BY TypeParts DEF ClientType

LEMMA AskingKeeps ==
    ASSUME FeedInv, LoadOlder \/ TryAgain \/ BackToNewest \/ ReceiveWorkspace \/ \E filter \in Filters : SetFilter(filter)
    PROVE  FeedInv'
<1>1. TypeOK /\ ListHolds /\ client \in ClientType /\ client.cursor \in Cursor
      /\ client.failed \in Cursor \cup {Start, Nowhere}
  BY ClientParts DEF FeedInv
<1>2. CASE LoadOlder
  BY <1>1, <1>2, NextPageIsAsked DEF LoadOlder
<1>3. CASE TryAgain
  <2>1. CASE client.failed = Start
    BY <1>1, <1>3, <2>1, FirstPageIsAsked DEF TryAgain
  <2>2. CASE client.failed # Start
    <3>1. client.failed \in Cursor \cup {Nowhere} /\ client.online /\ client.failed # Nowhere
      BY <1>1, <1>3, <2>2 DEF TryAgain
    <3>2. ~client.refresh => client.failed = client.cursor
      BY <1>1, <2>2, <3>1 DEF ListHolds
    <3> QED BY <1>3, <3>1, <3>2, NextPageIsAsked DEF TryAgain
  <2> QED BY <2>1, <2>2
<1>4. CASE BackToNewest
  BY <1>1, <1>4, FirstPageIsAsked DEF BackToNewest
<1>5. CASE ReceiveWorkspace
  <2>1. /\ [client EXCEPT !.refresh = FALSE, !.online = TRUE] \in ClientType
        /\ [client EXCEPT !.refresh = FALSE, !.online = TRUE].online
    BY <1>1 DEF ClientType
  <2> QED BY <1>5, <2>1, FirstPageIsAsked DEF ReceiveWorkspace
<1>6. ASSUME NEW filter \in Filters, SetFilter(filter) PROVE FeedInv'
  <2> DEFINE c == [client EXCEPT !.filter = filter]
  <2>1. /\ c \in ClientType /\ c.filter = filter /\ c.online = client.online /\ c.list = client.list
        /\ c.cursor = client.cursor /\ c.older = client.older /\ c.refresh = client.refresh
        /\ c.current = client.current /\ c.failed = client.failed
    BY <1>1 DEF ClientType
  <2>2. CASE client.online
    <3>1. LoadPage(c, Start) /\ UNCHANGED <<world, store, saving, bounds>>
      BY <1>6, <2>2 DEF SetFilter
    <3> HIDE DEF c
    <3>2. c.online
      BY <2>1, <2>2
    <3> QED BY <2>1, <3>1, <3>2, FirstPageIsAsked
  <2>3. CASE ~client.online
    <3>1. client' = c /\ UNCHANGED <<world, store, loads, saving, bounds, history>>
      BY <1>6, <2>3 DEF SetFilter
    <3> HIDE DEF c
    <3>2. /\ client' \in ClientType /\ ~client'.online /\ client'.list = client.list
          /\ client'.current = client.current
      BY <2>1, <2>3, <3>1
    <3>3. TypeOK'
      BY <1>1, <3>1, <3>2 DEF TypeOK, ClientType
    <3>4. StoreHolds' /\ KnownHolds' /\ SavingHolds'
      BY <3>1 DEF FeedInv, StoreHolds, KnownHolds, SavingHolds
    <3>5. ListHolds'
      <4>1. SingleRows(client.list)
        BY <1>1 DEF ListHolds
      <4> QED BY <3>2, <4>1 DEF ListHolds, SingleRows
    <3>6. client.current = 0
      BY <2>3 DEF FeedInv, PageHolds
    <3>7. PageHolds' /\ AnswerHolds'
      BY <3>2, <3>6 DEF PageHolds, AnswerHolds
    <3> QED BY <3>3, <3>4, <3>5, <3>7 DEF FeedInv
  <2> QED BY <2>2, <2>3
<1> QED BY <1>2, <1>3, <1>4, <1>5, <1>6

\* What is said of the page on its way, while it stays as it is.
LEMMA PageKept ==
    ASSUME PageHolds, AnswerHolds, store' = store, history'.versions = history.versions,
           history'.settled = history.settled, ~client'.refresh => history'.known = history.known,
           ~client'.refresh => client'.list = client.list, client.list = <<>> => client'.list = <<>>,
           client'.cursor = client.cursor, client'.online <=> client.online, client'.filter = client.filter,
           client'.current = client.current, client.refresh => client'.refresh,
           client.current # 0 => client.current \in DOMAIN loads' /\ loads'[client.current] = loads[client.current]
    PROVE  PageHolds' /\ AnswerHolds'
<1> DEFINE l == client.current
<1>1. CASE l = 0
  BY <1>1 DEF PageHolds, AnswerHolds
<1>2. CASE l # 0
  <2>1. client'.current = l /\ loads'[client'.current] = loads[l] /\ client'.current \in DOMAIN loads'
    BY <1>2
  <2>2. PageHolds'
    BY <1>2, <2>1 DEF PageHolds, SingleRows, OfFilter
  <2>3. ASSUME loads[l].state = "answered"
        PROVE  /\ SingleRows(loads[l].rows)' /\ OfFilter(loads[l].rows, loads[l].filter)'
               /\ Ordered(loads[l].rows)' /\ AsSettled(loads[l].rows)'
               /\ ~client'.refresh => AsTold(loads[l].rows)'
               /\ Wanted' = Wanted
               /\ \A t : /\ Reached(loads[l].after, t)' <=> Reached(loads[l].after, t)
                         /\ Reached(loads[l].next, t)' <=> Reached(loads[l].next, t)
                         /\ Shows(loads[l].rows, t)' <=> Shows(loads[l].rows, t)
    <3>1. /\ SingleRows(loads[l].rows) /\ OfFilter(loads[l].rows, loads[l].filter)
          /\ Ordered(loads[l].rows) /\ AsSettled(loads[l].rows)
          /\ ~client.refresh => AsTold(loads[l].rows)
      BY <1>2, <2>3 DEF AnswerHolds
    <3>2. SingleRows(loads[l].rows)' /\ OfFilter(loads[l].rows, loads[l].filter)'
      <4>1. SingleRows(loads[l].rows)'
        BY <2>1, <3>1 DEF SingleRows
      <4>2. OfFilter(loads[l].rows, loads[l].filter)'
        <5>1. OfFilter(loads[l].rows, loads[l].filter) /\ history'.versions = history.versions
          BY <3>1
        <5> QED BY <2>1, <5>1 DEF OfFilter
      <4> QED BY <4>1, <4>2
    <3>3. Ordered(loads[l].rows)' /\ AsSettled(loads[l].rows)'
      <4>1. Ordered(loads[l].rows) /\ AsSettled(loads[l].rows) /\ history'.settled = history.settled
        BY <3>1
      <4>2. Ordered(loads[l].rows)'
        <5>1. loads'[client'.current].rows = loads[l].rows
          BY <2>1
        <5> QED BY <4>1, <5>1 DEF Ordered
      <4> QED BY <2>1, <4>1, <4>2 DEF AsSettled
    <3>4. ~client'.refresh => AsTold(loads[l].rows)'
      BY <2>1, <3>1 DEF AsTold
    <3>5. Wanted' = Wanted
      BY DEF Wanted
    <3>6. \A t : /\ Reached(loads[l].after, t)' <=> Reached(loads[l].after, t)
                 /\ Reached(loads[l].next, t)' <=> Reached(loads[l].next, t)
                 /\ Shows(loads[l].rows, t)' <=> Shows(loads[l].rows, t)
      <4> SUFFICES ASSUME NEW t
                   PROVE  /\ Reached(loads[l].after, t)' <=> Reached(loads[l].after, t)
                          /\ Reached(loads[l].next, t)' <=> Reached(loads[l].next, t)
                          /\ Shows(loads[l].rows, t)' <=> Shows(loads[l].rows, t)
        OBVIOUS
      <4>1. loads'[client'.current] = loads[l] /\ store' = store
        BY <2>1
      <4>2. Reached(loads[l].after, t)' <=> Reached(loads[l].after, t)
        BY <4>1 DEF Reached, AfterCursor, Before, Row
      <4>3. Reached(loads[l].next, t)' <=> Reached(loads[l].next, t)
        BY <4>1 DEF Reached, AfterCursor, Before, Row
      <4>4. Shows(loads[l].rows, t)' <=> Shows(loads[l].rows, t)
        BY <4>1 DEF Shows
      <4> QED BY <4>2, <4>3, <4>4
    <3> QED BY <3>2, <3>3, <3>4, <3>5, <3>6
  <2>4. AnswerHolds'
    BY <1>2, <2>1, <2>3 DEF AnswerHolds
  <2> QED BY <2>2, <2>4
<1> QED BY <1>1, <1>2

\* Steps that change neither the list nor a page nor the store.
LEMMA AsideKeeps ==
    ASSUME FeedInv, UNCHANGED <<world, store, loads, history>>, client' \in ClientType,
           bounds' \in [changes : Nat, edits : Nat, refreshes : Nat],
           saving' \in [kind : {"none", "category", "edit", "void"}, change : ChangeType \cup {NoRow},
                        state : {"none", "asked", "done"}],
           SavingHolds', client'.list = client.list, client'.cursor = client.cursor,
           client'.older <=> client.older, client'.online <=> client.online, client'.filter = client.filter,
           client'.current = client.current, client'.failed = client.failed, client.refresh => client'.refresh
    PROVE  FeedInv'
<1>1. TypeOK /\ StoreHolds /\ KnownHolds /\ ListHolds /\ PageHolds /\ AnswerHolds
  BY DEF FeedInv
<1>2. TypeOK'
  BY <1>1 DEF TypeOK, ClientType
<1>3. StoreHolds' /\ KnownHolds'
  BY <1>1 DEF StoreHolds, KnownHolds
<1>4. ListHolds'
  <2>1. /\ ~client'.refresh /\ client.online => client'.failed \in {Nowhere, Start, client.cursor}
        /\ ~client'.refresh /\ client.online /\ client'.failed = Start => client.list = <<>>
    BY <1>1 DEF ListHolds
  <2> QED BY <1>1, <2>1, ListKept
<1>5. PageHolds' /\ AnswerHolds'
  <2>1. client.current # 0 => client.current \in DOMAIN loads' /\ loads'[client.current] = loads[client.current]
    BY <1>1 DEF PageHolds
  <2> QED BY <1>1, <2>1, PageKept
<1> QED BY <1>2, <1>3, <1>4, <1>5 DEF FeedInv

LEMMA OpenDetailKeeps ==
    ASSUME FeedInv, AskWorkspace \/ CloseDetail \/ \E i \in DOMAIN client.list : OpenTransaction(i)
    PROVE  FeedInv'
<1>1. TypeOK /\ client \in ClientType /\ SavingHolds
  BY ClientParts DEF FeedInv
<1>2. bounds \in [changes : Nat, edits : Nat, refreshes : Nat]
      /\ saving \in [kind : {"none", "category", "edit", "void"}, change : ChangeType \cup {NoRow},
                     state : {"none", "asked", "done"}]
  BY <1>1 DEF TypeOK
<1>3. CASE AskWorkspace
  <2>1. /\ client' \in ClientType /\ client'.list = client.list /\ client'.cursor = client.cursor
        /\ client'.older = client.older /\ client'.online = client.online /\ client'.filter = client.filter
        /\ client'.current = client.current /\ client'.failed = client.failed /\ client'.refresh
    BY <1>1, <1>3 DEF AskWorkspace, ClientType
  <2>2. bounds' \in [changes : Nat, edits : Nat, refreshes : Nat] /\ UNCHANGED <<world, store, loads, saving, history>>
    BY <1>2, <1>3 DEF AskWorkspace
  <2>3. SavingHolds'
    BY <1>1, <2>2 DEF SavingHolds
  <2> QED BY <1>2, <2>1, <2>2, <2>3, AsideKeeps
<1>4. CASE CloseDetail \/ \E i \in DOMAIN client.list : OpenTransaction(i)
  <2>1. \E row \in RowType \cup {NoRow} : client' = [client EXCEPT !.open = row]
    BY <1>1, <1>4, ElementType DEF CloseDetail, OpenTransaction, ClientType
  <2>2. PICK row \in RowType \cup {NoRow} : client' = [client EXCEPT !.open = row]
    BY <2>1
  <2>3. /\ client' \in ClientType /\ client'.list = client.list /\ client'.cursor = client.cursor
        /\ client'.older = client.older /\ client'.online = client.online /\ client'.filter = client.filter
        /\ client'.current = client.current /\ client'.failed = client.failed /\ client'.refresh = client.refresh
    BY <1>1, <2>2 DEF ClientType
  <2>4. UNCHANGED <<world, store, loads, saving, bounds, history>>
    BY <1>4 DEF CloseDetail, OpenTransaction
  <2>5. SavingHolds'
    BY <1>1, <2>4 DEF SavingHolds
  <2> QED BY <1>2, <2>3, <2>4, <2>5, AsideKeeps
<1> QED BY <1>3, <1>4

\* A change is asked for, or given up.
LEMMA SaveKeeps ==
    ASSUME FeedInv, SaveCategory \/ SaveEdit \/ SaveVoid
    PROVE  FeedInv'
<1>1. TypeOK /\ client \in ClientType /\ client.open \in RowType \cup {NoRow}
  BY ClientParts DEF FeedInv
<1>2. \E kind \in {"category", "edit", "void"}, category \in Categories, day \in Days, future \in BOOLEAN :
        /\ Save(kind, category, day, future) /\ client.open \in RowType
        /\ kind # "category" => client.open.id \in world.manual
  <2>1. CASE SaveCategory
    BY <1>1, <2>1 DEF SaveCategory, Save, RowType
  <2>2. CASE SaveEdit
    <3>1. PICK category \in Categories, day \in Range(world.days) :
            client.open # NoRow /\ client.open.id \in world.manual /\ Save("edit", category, day, FALSE)
      BY <2>2 DEF SaveEdit
    <3>2. day \in Days
      BY <1>1, WorldDays
    <3> QED BY <1>1, <3>1, <3>2
  <2>3. CASE SaveVoid
    <3>1. client.open \in RowType /\ client.open.category \in Categories /\ client.open.day \in Days
      BY <1>1, <2>3 DEF SaveVoid, RowType
    <3> QED BY <2>3, <3>1 DEF SaveVoid
  <2> QED BY <2>1, <2>2, <2>3
<1>3. PICK kind \in {"category", "edit", "void"}, category \in Categories, day \in Days, future \in BOOLEAN :
        /\ Save(kind, category, day, future) /\ client.open \in RowType
        /\ kind # "category" => client.open.id \in world.manual
  BY <1>2
<1> DEFINE change == [id |-> client.open.id, category |-> category, day |-> day, future |-> future,
                      version |-> client.open.version, categoryVersion |-> client.open.categoryVersion]
<1>4. saving' = [kind |-> kind, state |-> "asked", change |-> change]
      /\ bounds' = [bounds EXCEPT !.edits = @ + 1] /\ UNCHANGED <<world, store, loads, client, history>>
  BY <1>3 DEF Save
<1>5. change \in ChangeType /\ change.id = client.open.id
  BY <1>3 DEF ChangeType, RowType
<1> HIDE DEF change
<1>6. /\ saving' \in [kind : {"none", "category", "edit", "void"}, change : ChangeType \cup {NoRow},
                      state : {"none", "asked", "done"}]
      /\ saving'.kind = kind /\ saving'.change = change /\ saving'.state = "asked"
  BY <1>4, <1>5
<1>7. SavingHolds'
  BY <1>3, <1>4, <1>5, <1>6 DEF SavingHolds
<1>8. bounds' \in [changes : Nat, edits : Nat, refreshes : Nat]
  <2>1. bounds \in [changes : Nat, edits : Nat, refreshes : Nat]
    BY <1>1 DEF TypeOK
  <2> QED BY <1>4, <2>1
<1> QED BY <1>1, <1>4, <1>6, <1>7, <1>8, AsideKeeps

LEMMA LoseSavedKeeps ==
    ASSUME FeedInv, LoseSaved
    PROVE  FeedInv'
<1>1. TypeOK /\ client \in ClientType
  BY ClientParts DEF FeedInv
<1>2. saving' = NoChange /\ UNCHANGED <<world, store, loads, client, bounds, history>>
  BY DEF LoseSaved
<1>3. /\ saving' \in [kind : {"none", "category", "edit", "void"}, change : ChangeType \cup {NoRow},
                      state : {"none", "asked", "done"}]
      /\ saving'.kind = "none" /\ saving'.state = "none"
  BY <1>2 DEF NoChange
<1>4. SavingHolds'
  BY <1>3 DEF SavingHolds
<1>5. bounds' \in [changes : Nat, edits : Nat, refreshes : Nat]
  BY <1>1, <1>2 DEF TypeOK
<1> QED BY <1>1, <1>2, <1>3, <1>4, <1>5, AsideKeeps

LEMMA LoadsTyped ==
    ASSUME TypeOK, loads' \in Seq(LoadRecord), UNCHANGED <<world, store, client, saving, bounds, history>>
    PROVE  TypeOK'
<1>1. /\ world' = world /\ store' = store /\ client' = client /\ saving' = saving
      /\ bounds' = bounds /\ history' = history
  OBVIOUS
<1>2. loads' \in Seq([next : Cursor \cup {Start, Nowhere}, filter : Filters, base : Seq(RowType),
                     state : {"asked", "answered", "ended"}, rows : Seq(RowType), after : Cursor \cup {Nowhere}])
  BY DEF LoadRecord
<1> QED BY <1>1, <1>2 DEF TypeOK

\* A page that is not the one the client waits for.
LEMMA OtherPageKeeps ==
    ASSUME FeedInv, NEW l \in DOMAIN loads, l # client.current, NEW load \in LoadRecord,
           loads' = [loads EXCEPT ![l] = load],
           UNCHANGED <<world, store, client, saving, bounds, history>>
    PROVE  FeedInv'
<1>1. TypeOK /\ StoreHolds /\ KnownHolds /\ SavingHolds /\ ListHolds /\ PageHolds /\ AnswerHolds
  BY DEF FeedInv
<1>2. /\ loads' \in Seq(LoadRecord) /\ DOMAIN loads' = DOMAIN loads
      /\ loads'[client.current] = loads[client.current] \/ client.current \notin DOMAIN loads
  BY <1>1, TypeParts
<1>3. TypeOK'
  BY <1>1, <1>2, LoadsTyped
<1>4. StoreHolds' /\ KnownHolds' /\ SavingHolds'
  BY <1>1 DEF StoreHolds, KnownHolds, SavingHolds
<1>5. ListHolds'
  <2>1. /\ ~client'.refresh /\ client.online => client'.failed \in {Nowhere, Start, client.cursor}
        /\ ~client'.refresh /\ client.online /\ client'.failed = Start => client.list = <<>>
    BY <1>1 DEF ListHolds
  <2> QED BY <1>1, <2>1, ListKept
<1>6. PageHolds' /\ AnswerHolds'
  <2>1. client.current # 0 => client.current \in DOMAIN loads' /\ loads'[client.current] = loads[client.current]
    BY <1>1, <1>2 DEF PageHolds
  <2> QED BY <1>1, <2>1, PageKept
<1> QED BY <1>3, <1>4, <1>5, <1>6 DEF FeedInv

LEMMA AnswerType ==
    ASSUME TypeOK, NEW l \in DOMAIN loads, NEW page, page.rows \in Seq(RowType), page.next \in Cursor,
           NEW load, load = Answered(loads[l], page)
    PROVE  /\ load \in LoadRecord /\ load.next = loads[l].next /\ load.filter = loads[l].filter
           /\ load.base = loads[l].base /\ load.rows = page.rows /\ load.after = page.next
           /\ load.state = "answered"
<1>1. loads[l] \in LoadRecord
  BY TypeParts
<1> QED BY <1>1 DEF LoadRecord, Answered

\* The page a client waits for is listed.
LEMMA AnswerKeeps ==
    ASSUME FeedInv, NEW l \in DOMAIN loads, ListTransactions(l)
    PROVE  FeedInv'
<1> DEFINE S == Listed(loads[l].next, loads[l].filter)
           page == Page(S)
           load == Answered(loads[l], page)
<1>1. TypeOK /\ StoreHolds /\ KnownHolds /\ SavingHolds /\ ListHolds /\ PageHolds /\ AnswerHolds
  BY DEF FeedInv
<1>2. loads' = [loads EXCEPT ![l] = load] /\ UNCHANGED <<world, store, client, saving, bounds, history>>
  BY DEF ListTransactions
<1>3. /\ RowSet(S) /\ S \subseteq RowType
      /\ \A r \in S : /\ r.id \in Tx /\ r = Row(r.id, store.tx[r.id]) /\ store.tx[r.id].there
                      /\ AfterCursor(loads[l].next, r) /\ loads[l].filter \in {Everything, r.category}
      /\ \A t \in Tx : store.tx[t].there /\ ~Reached(loads[l].next, t)
                       /\ loads[l].filter \in {Everything, store.tx[t].category} => Row(t, store.tx[t]) \in S
  BY <1>1, ListedRows
<1> HIDE DEF S
<1>4. PageOf(S, page)
  BY <1>3, PageIsFirst
<1> HIDE DEF page
<1>5. /\ load \in LoadRecord /\ load.next = loads[l].next /\ load.filter = loads[l].filter
      /\ load.base = loads[l].base /\ load.rows = page.rows /\ load.after = page.next /\ load.state = "answered"
  BY <1>1, <1>4, AnswerType DEF PageOf
<1> HIDE DEF load
<1>6. CASE l # client.current
  BY <1>2, <1>5, <1>6, OtherPageKeeps
<1>7. CASE l = client.current
  <2>1. /\ loads' \in Seq(LoadRecord) /\ DOMAIN loads' = DOMAIN loads /\ loads'[l] = load
    BY <1>1, <1>2, <1>5, TypeParts
  <2>2. l # 0
    BY <1>1, LoadType
  <2>3. TypeOK'
    BY <1>1, <1>2, <2>1, LoadsTyped
  <2>4. StoreHolds' /\ KnownHolds' /\ SavingHolds'
    BY <1>1, <1>2 DEF StoreHolds, KnownHolds, SavingHolds
  <2>5. ListHolds'
    <3>1. /\ ~client'.refresh /\ client.online => client'.failed \in {Nowhere, Start, client.cursor}
          /\ ~client'.refresh /\ client.online /\ client'.failed = Start => client.list = <<>>
      BY <1>1, <1>2 DEF ListHolds
    <3> QED BY <1>1, <1>2, <3>1, ListKept
  <2>6. PageHolds'
    BY <1>1, <1>2, <1>5, <1>7, <2>1, <2>2 DEF PageHolds, SingleRows, OfFilter
  <2>7. /\ page.rows \in Seq(RowType) /\ SingleRows(page.rows) /\ Ordered(page.rows)
        /\ \A i \in DOMAIN page.rows :
             /\ page.rows[i] \in S /\ page.rows[i].id \in Tx
             /\ page.rows[i] = Row(page.rows[i].id, store.tx[page.rows[i].id])
             /\ store.tx[page.rows[i].id].there
    BY <1>3, <1>4 DEF PageOf
  <2>8. OfFilter(page.rows, loads[l].filter)
    BY <1>1, <1>3, <2>7 DEF OfFilter, StoreHolds
  <2>9. AsSettled(page.rows)
    <3> SUFFICES ASSUME NEW i \in DOMAIN page.rows PROVE page.rows[i].day = store.tx[page.rows[i].id].day
      BY DEF AsSettled
    <3>1. \A t, r : Row(t, r).day = r.day
      BY DEF Row
    <3> QED BY <2>7, <3>1
  <2>10. AsTold(page.rows)
    <3> SUFFICES ASSUME NEW i \in DOMAIN page.rows, NEW t \in Tx, page.rows[i] = Row(t, store.tx[t]),
                        store.tx[t].there, page.rows[i].id = t
                 PROVE  /\ page.rows[i] \in history.versions[t]
                        /\ page.rows[i].version >= history.known[t].version
                        /\ page.rows[i].categoryVersion >= history.known[t].categoryVersion
                        /\ ~history.known[t].void
      BY <2>7 DEF AsTold
    <3>1. page.rows[i].version = store.tx[t].version /\ page.rows[i].categoryVersion = store.tx[t].categoryVersion
      BY DEF Row
    <3>2. history.known[t] \in [version : Nat, categoryVersion : Nat, void : BOOLEAN] /\ store.tx[t] \in Stored
      BY <1>1 DEF TypeOK
    <3>3. {history.known[t].version, history.known[t].categoryVersion, store.tx[t].version,
           store.tx[t].categoryVersion} \subseteq Nat
      BY <3>2 DEF Stored
    <3>4. /\ history.known[t].version <= store.tx[t].version
          /\ history.known[t].categoryVersion <= store.tx[t].categoryVersion /\ ~history.known[t].void
      BY <1>1 DEF KnownHolds
    <3>5. page.rows[i] \in history.versions[t]
      BY <1>1 DEF StoreHolds
    <3> QED BY <3>1, <3>3, <3>4, <3>5
  <2>11. \A t \in Wanted : Reached(page.next, t) /\ ~Reached(loads[l].next, t) => Shows(page.rows, t)
    <3> SUFFICES ASSUME NEW t \in Wanted, Reached(page.next, t), ~Reached(loads[l].next, t) PROVE Shows(page.rows, t)
      OBVIOUS
    <3>1. t \in Tx /\ t \in history.settled /\ store.tx[t].there /\ client.filter \in {Everything, store.tx[t].category}
      BY <1>1 DEF Wanted, StoreHolds, TypeOK
    <3>2. loads[l].filter = client.filter
      BY <1>1, <1>7, <2>2 DEF PageHolds
    <3>3. Row(t, store.tx[t]) \in S
      BY <1>3, <3>1, <3>2
    <3>4. PICK i \in DOMAIN page.rows : page.rows[i] = Row(t, store.tx[t])
      BY <1>4, <3>3 DEF PageOf, Reached
    <3> QED BY <3>4 DEF Shows, Row
  <2>12. /\ Len(page.rows) <= PageSize /\ page.next \in Cursor /\ (page.rows = <<>> => page.next = End)
         /\ \A i \in DOMAIN page.rows : AfterCursor(loads[l].next, page.rows[i]) /\ ~AfterCursor(page.next, page.rows[i])
    BY <1>3, <1>4 DEF PageOf
  <2> DEFINE now == loads'[client'.current]
  <2>13. /\ now.rows = page.rows /\ now.filter = loads[l].filter /\ now.next = loads[l].next /\ now.after = page.next
    BY <1>2, <1>5, <1>7, <2>1
  <2>14. SingleRows(now.rows) /\ Ordered(now.rows) /\ Len(now.rows) <= PageSize /\ now.after \in Cursor
         /\ (now.rows = <<>> => now.after = End)
         /\ \A i \in DOMAIN now.rows : AfterCursor(now.next, now.rows[i]) /\ ~AfterCursor(now.after, now.rows[i])
    BY <2>7, <2>12, <2>13
  <2>15. OfFilter(loads[client.current].rows, loads[client.current].filter)'
    BY <1>2, <2>8, <2>13 DEF OfFilter
  <2>16. AsSettled(loads[client.current].rows)'
    BY <1>2, <2>9, <2>13 DEF AsSettled
  <2>17. AsTold(loads[client.current].rows)'
    BY <1>2, <2>10, <2>13 DEF AsTold
  <2>18. Wanted' = Wanted
    BY <1>2 DEF Wanted
  <2>19. \A t \in Wanted : Reached(loads[client.current].after, t)' /\ ~Reached(loads[client.current].next, t)'
                             => Shows(loads[client.current].rows, t)'
    <3> SUFFICES ASSUME NEW t \in Wanted, Reached(loads[client.current].after, t)',
                        ~Reached(loads[client.current].next, t)'
                 PROVE  Shows(loads[client.current].rows, t)'
      OBVIOUS
    <3>1. Reached(page.next, t) /\ ~Reached(loads[l].next, t)
      BY <1>2, <2>13 DEF Reached, AfterCursor, Before, Row
    <3>2. Shows(page.rows, t)
      BY <2>11, <3>1
    <3> QED BY <2>13, <3>2 DEF Shows
  <2>20. AnswerHolds'
    BY <2>14, <2>15, <2>16, <2>17, <2>18, <2>19 DEF AnswerHolds
  <2> QED BY <2>3, <2>4, <2>5, <2>6, <2>20 DEF FeedInv
<1> QED BY <1>6, <1>7

LEMMA FinishedType == Finished \in LoadRecord
BY NoRows DEF Finished, LoadRecord, Filters

LEMMA LosePageKeeps ==
    ASSUME FeedInv, NEW l \in DOMAIN loads, LosePage(l)
    PROVE  FeedInv'
<1>1. TypeOK /\ StoreHolds /\ KnownHolds /\ SavingHolds /\ ListHolds /\ PageHolds /\ AnswerHolds
  BY DEF FeedInv
<1>2. loads' = [loads EXCEPT ![l] = Finished] /\ UNCHANGED <<world, store, saving, bounds, history>>
  BY DEF LosePage
<1>3. CASE client.current # l
  <2>1. client' = client
    BY <1>3 DEF LosePage, Counts
  <2> QED BY <1>2, <1>3, <2>1, FinishedType, OtherPageKeeps
<1>4. CASE client.current = l
  <2>1. client' = [client EXCEPT !.current = 0, !.failed = loads[l].next]
    BY <1>4 DEF LosePage, Counts
  <2>2. loads[l].next \in Cursor \cup {Start, Nowhere} /\ client \in ClientType /\ l # 0
    BY <1>1, LoadType, ClientParts
  <2>3. /\ client' \in ClientType /\ client'.current = 0 /\ client'.failed = loads[l].next
        /\ client'.list = client.list /\ client'.cursor = client.cursor /\ client'.filter = client.filter
        /\ (client'.older <=> client.older) /\ (client'.online <=> client.online)
        /\ (client'.refresh <=> client.refresh)
    BY <2>1, <2>2 DEF ClientType
  <2>4. loads' \in Seq(LoadRecord)
    BY <1>1, <1>2, FinishedType, TypeParts
  <2>5. TypeOK'
    BY <1>1, <1>2, <2>3, <2>4 DEF TypeOK, LoadRecord, ClientType
  <2>6. StoreHolds' /\ KnownHolds' /\ SavingHolds'
    BY <1>1, <1>2 DEF StoreHolds, KnownHolds, SavingHolds
  <2>7. /\ loads[l].next = Start => client.list = <<>>
        /\ ~client.refresh /\ loads[l].next # Start => loads[l].next = client.cursor
    BY <1>1, <1>4, <2>2 DEF PageHolds
  <2>8. ListHolds'
    <3>1. /\ ~client'.refresh /\ client.online => client'.failed \in {Nowhere, Start, client.cursor}
          /\ ~client'.refresh /\ client.online /\ client'.failed = Start => client.list = <<>>
      BY <2>3, <2>7
    <3> QED BY <1>1, <1>2, <2>3, <3>1, ListKept
  <2>9. PageHolds' /\ AnswerHolds'
    BY <2>3 DEF PageHolds, AnswerHolds
  <2> QED BY <2>5, <2>6, <2>8, <2>9 DEF FeedInv
<1> QED BY <1>3, <1>4

\* Offline the list is of what is cached.
LEMMA LoseWorkspaceKeeps ==
    ASSUME FeedInv, LoseWorkspace
    PROVE  FeedInv'
<1> DEFINE S == {Row(t, store.tx[t]) : t \in {u \in Tx : store.tx[u].there}}
<1>1. TypeOK /\ StoreHolds /\ KnownHolds /\ SavingHolds /\ client \in ClientType
  BY ClientParts DEF FeedInv
<1>2. RowSet(S) /\ S \subseteq RowType
  <2>1. \A r \in S : r.id \in Tx /\ r = Row(r.id, store.tx[r.id])
    BY <1>1, RowOfTx
  <2> HIDE DEF S
  <2> QED BY <1>1, <2>1, RowsAreASet
<1>3. Cached = InOrder(S)
  BY DEF Cached
<1> HIDE DEF S
<1>4. Cached \in Seq(RowType) /\ SingleRows(Cached)
  <2> DEFINE n == Cardinality(S)
  <2>1. n \in Nat /\ Cached \in [1 .. n -> S] /\ SingleRows(Cached)
    BY <1>2, <1>3, InOrderIsOrder
  <2> HIDE DEF n
  <2> QED BY <1>2, <2>1
<1>5. /\ client' = [client EXCEPT !.refresh = FALSE, !.online = FALSE, !.current = 0,
                      !.list = Cached, !.cursor = End, !.older = FALSE, !.failed = Nowhere]
      /\ UNCHANGED <<world, store, loads, saving, bounds, history>>
  BY DEF LoseWorkspace
<1>6. client' \in ClientType /\ ~client'.online /\ client'.current = 0 /\ client'.list = Cached
  BY <1>1, <1>4, <1>5 DEF ClientType, Cursor
<1>7. TypeOK'
  BY <1>1, <1>5, <1>6 DEF TypeOK, ClientType
<1>8. StoreHolds' /\ KnownHolds' /\ SavingHolds'
  BY <1>1, <1>5 DEF StoreHolds, KnownHolds, SavingHolds
<1>9. ListHolds'
  BY <1>4, <1>6 DEF ListHolds, SingleRows
<1>10. PageHolds' /\ AnswerHolds'
  BY <1>6 DEF PageHolds, AnswerHolds
<1> QED BY <1>7, <1>8, <1>9, <1>10 DEF FeedInv

\* The API takes a change.
LEMMA HandleKeeps ==
    ASSUME FeedInv, Handle
    PROVE  FeedInv' /\ UserStays
<1> DEFINE change == saving.change
           old == store.tx[change.id]
           new == store'.tx[change.id]
<1>1. TypeOK /\ SavingHolds /\ Handled(saving.kind, change) /\ saving.kind # "none"
      /\ saving' = [saving EXCEPT !.state = "done"] /\ UNCHANGED <<world, loads, client, bounds>>
  BY DEF FeedInv, Handle, Handled
<1>2. change \in ChangeType /\ change.id \in Tx /\ change.version \in Nat /\ change.categoryVersion \in Nat
      /\ (saving.kind # "category" => change.id \in world.manual)
  BY <1>1 DEF SavingHolds, ChangeType
<1>3. store.tx \in [Tx -> Stored] /\ old \in Stored
  BY <1>1, <1>2, StoreAsRecord
<1>4. Writes
  BY <1>1, <1>2, UpdateTransactionCategoryWrites, UpdateManualTransactionWrites, VoidManualTransactionWrites
     DEF Handled
<1>5. PICK s : Written(s) /\ Wrote(s)
  BY <1>4 DEF Writes
<1>6. StoreHolds' /\ KnownHolds' /\ UserStays
  BY <1>1, <1>5, WriteKeepsStore DEF UserStays
<1>7. ListHolds' /\ PageHolds' /\ AnswerHolds'
  BY <1>1, <1>5, WriteKeepsLists
<1>8. saving \in [kind : {"none", "category", "edit", "void"}, change : ChangeType \cup {NoRow},
                  state : {"none", "asked", "done"}]
  BY <1>1 DEF TypeOK
<1>9. /\ saving' \in [kind : {"none", "category", "edit", "void"}, change : ChangeType \cup {NoRow},
                      state : {"none", "asked", "done"}]
      /\ saving'.kind = saving.kind /\ saving'.change = change /\ saving'.state = "done"
  BY <1>1, <1>8
<1>10. SavingHolds'
  <2>1. store' = s /\ new \in Stored /\ WrittenTx(old, new)
    BY <1>2, <1>5 DEF Written, Wrote, StoreType
  <2>2. {old.version, old.categoryVersion, new.version, new.categoryVersion} \subseteq Nat
    BY <1>3, <2>1 DEF Stored
  <2>3. CASE saving.kind = "category"
    <3>1. UpdateTransactionCategory(change)
      BY <1>1, <2>3 DEF Handled
    <3>2. new = Categorized(old, change.category, "user") /\ old.categoryVersion = change.categoryVersion
      BY <1>2, <1>3, <3>1 DEF UpdateTransactionCategory, Wrote
    <3>3. new.categoryVersion = old.categoryVersion + 1
      BY <1>3, <3>2 DEF Categorized, Stored
    <3>4. change.categoryVersion < new.categoryVersion
      BY <2>2, <3>2, <3>3
    <3> HIDE DEF new, change
    <3> QED BY <1>2, <1>9, <2>3, <3>4 DEF SavingHolds, new
  <2>4. CASE saving.kind = "edit"
    <3>1. UpdateManualTransaction(change)
      BY <1>1, <2>4 DEF Handled
    <3>2. /\ new = [SetManualCategory(old, change.category) EXCEPT !.day = change.day, !.version = @ + 1]
          /\ old.version = change.version /\ old.categoryVersion = change.categoryVersion
      BY <1>1, <1>2, <1>3, <3>1, StoreAsRecord DEF UpdateManualTransaction, Wrote
    <3>3. new.version = old.version + 1
      <4> DEFINE kept == SetManualCategory(old, change.category)
      <4>1. kept = old \/ kept = Categorized(old, change.category, "user")
        BY DEF SetManualCategory
      <4>2. DOMAIN kept = DOMAIN old /\ kept.version = old.version
        BY <1>3, <4>1 DEF Categorized, Stored
      <4>3. "version" \in DOMAIN kept /\ "day" \in DOMAIN kept
        BY <1>3, <4>2 DEF Stored
      <4> HIDE DEF kept
      <4>4. new = [kept EXCEPT !.day = change.day, !.version = @ + 1]
        BY <3>2 DEF kept
      <4> HIDE DEF new
      <4> QED BY <4>2, <4>3, <4>4
    <3>4. change.version < new.version /\ change.categoryVersion <= new.categoryVersion
      BY <2>1, <2>2, <3>2, <3>3 DEF WrittenTx
    <3> HIDE DEF new, change
    <3> QED BY <1>1, <1>2, <1>9, <2>4, <3>4 DEF SavingHolds, new
  <2>5. CASE saving.kind = "void"
    <3>1. VoidManualTransaction(change)
      BY <1>1, <2>5 DEF Handled
    <3>2. CASE old.there
      <4>1. new = Removed(old, FALSE)
        BY <1>1, <1>2, <1>3, <3>1, <3>2, StoreAsRecord DEF VoidManualTransaction, Wrote
      <4>2. ~new.there
        BY <1>3, <4>1 DEF Removed, Stored
      <4> HIDE DEF new, change
      <4> QED BY <1>1, <1>2, <1>9, <2>5, <4>2 DEF SavingHolds, new
    <3>3. CASE ~old.there
      <4>1. ~new.there
        BY <3>1, <3>3 DEF VoidManualTransaction, Wrote
      <4> HIDE DEF new, change
      <4> QED BY <1>1, <1>2, <1>9, <2>5, <4>1 DEF SavingHolds, new
    <3> QED BY <3>2, <3>3
  <2> QED BY <1>1, <1>8, <2>3, <2>4, <2>5
<1>11. TypeOK'
  <2>1. s \in StoreType
    BY <1>5 DEF Written
  <2>2. store' \in StoreType /\ history' \in HistoryType
    BY <1>1, <1>5, <2>1, HistoryAfterWrite DEF HistoryType
  <2> QED BY <1>1, <1>9, <2>2 DEF TypeOK, StoreType, HistoryType
<1> QED BY <1>6, <1>7, <1>10, <1>11 DEF FeedInv

LEMMA AppendedRows ==
    ASSUME NEW head \in Seq(RowType), NEW tail \in Seq(RowType), NEW list, list = head \o tail
    PROVE  /\ list \in Seq(RowType) /\ Len(list) = Len(head) + Len(tail)
           /\ \A i \in 1 .. Len(head) : list[i] = head[i]
           /\ \A i \in 1 .. Len(head) + Len(tail) :
                Len(head) < i => i - Len(head) \in 1 .. Len(tail) /\ list[i] = tail[i - Len(head)]
<1>1. list \in Seq(RowType) /\ Len(head) \in Nat /\ Len(tail) \in Nat
  OBVIOUS
<1>2. Len(list) = Len(head) + Len(tail)
  OBVIOUS
<1> QED BY <1>1, <1>2

\* A list with the rows of another, each at most once.
SameRows(list, new) ==
  /\ new \in Seq(RowType) /\ SingleRows(new)
  /\ \A i \in DOMAIN new : \E j \in DOMAIN list : new[i].id = list[j].id
  /\ list = <<>> => new = <<>>

\* What the client makes of its list has the same rows, or one less.
LEMMA ShownAfterIsSame ==
    ASSUME client.list \in Seq(RowType), SingleRows(client.list), NEW change \in ChangeType,
           NEW kind \in {"category", "edit", "void"}
    PROVE  SameRows(client.list, ShownAfter(kind, change))
<1> DEFINE list == client.list
           new == ShownAfter(kind, change)
<1>1. /\ Len(list) \in Nat /\ DOMAIN list = 1 .. Len(list) /\ \A i \in DOMAIN list : list[i] \in RowType
  BY ElementType
<1>2. CASE kind = "void"
  <2> DEFINE at == {i \in DOMAIN list : list[i].id = change.id}
  <2>1. new = ShownVoided(list, change)
    BY <1>2 DEF ShownAfter
  <2>2. CASE at = {}
    <3>1. new = list
      BY <2>1, <2>2 DEF ShownVoided
    <3> HIDE DEF new
    <3>2. SameRows(list, new)
      BY <1>1, <3>1 DEF SameRows
    <3> QED BY <3>2 DEF new
  <2>3. CASE at # {}
    <3>1. PICK k \in at : k = CHOOSE i \in at : TRUE
      BY <2>3
    <3>2. k \in 1 .. Len(list)
      BY <1>1
    <3>3. new = SubSeq(list, 1, k - 1) \o SubSeq(list, k + 1, Len(list))
      BY <2>1, <2>3, <3>1 DEF ShownVoided, RemoveAt
    <3> HIDE DEF new, at
    <3>4. /\ new \in Seq(RowType) /\ Len(new) = Len(list) - 1 /\ DOMAIN new = 1 .. Len(list) - 1
          /\ \A i \in 1 .. Len(list) - 1 : new[i] = list[IF i < k THEN i ELSE i + 1]
      <4> DEFINE n == Len(list)
                 head == SubSeq(list, 1, k - 1)
                 tail == SubSeq(list, k + 1, n)
      <4>1. n \in Nat /\ k \in Int /\ 1 <= k /\ k <= n
        BY <1>1, <3>2
      <4>2. head \in Seq(RowType) /\ Len(head) = k - 1 /\ \A i \in 1 .. k - 1 : head[i] = list[i]
        BY <4>1
      <4>3. tail \in Seq(RowType) /\ Len(tail) = n - k /\ \A i \in 1 .. n - k : tail[i] = list[i + k]
        BY <4>1
      <4> HIDE DEF head, tail
      <4>4. new = head \o tail
        BY <3>3 DEF head, tail
      <4>5. /\ new \in Seq(RowType) /\ Len(new) = n - 1
            /\ \A i \in 1 .. n - 1 : new[i] = IF i < k THEN head[i] ELSE tail[i - (k - 1)]
        <5>1. new \in Seq(RowType) /\ Len(new) = Len(head) + Len(tail)
          BY <4>2, <4>3, <4>4, AppendedRows
        <5>2. /\ \A i \in 1 .. Len(head) : new[i] = head[i]
              /\ \A i \in 1 .. Len(head) + Len(tail) :
                   Len(head) < i => i - Len(head) \in 1 .. Len(tail) /\ new[i] = tail[i - Len(head)]
          <6>1. head \in Seq(RowType) /\ tail \in Seq(RowType)
            BY <4>2, <4>3
          <6> QED BY ONLY <6>1, <4>4, AppendedRows
        <5>3. Len(head) + Len(tail) = n - 1
          BY <4>1, <4>2, <4>3
        <5>4. \A i \in 1 .. n - 1 : IF i < k THEN i \in 1 .. Len(head) ELSE Len(head) < i
          BY <4>1, <4>2
        <5> QED BY <4>2, <5>1, <5>2, <5>3, <5>4
      <4>6. \A i \in 1 .. n - 1 : new[i] = list[IF i < k THEN i ELSE i + 1]
        <5> SUFFICES ASSUME NEW i \in 1 .. n - 1 PROVE new[i] = list[IF i < k THEN i ELSE i + 1]
          OBVIOUS
        <5>1. CASE i < k
          <6>1. i \in 1 .. k - 1
            BY <4>1, <5>1
          <6> QED BY <4>2, <4>5, <5>1, <6>1
        <5>2. CASE ~(i < k)
          <6>1. i - (k - 1) \in 1 .. n - k /\ (i - (k - 1)) + k = i + 1
            BY <4>1, <5>2
          <6>2. new[i] = tail[i - (k - 1)] /\ tail[i - (k - 1)] = list[(i - (k - 1)) + k]
            BY <4>3, <4>5, <5>2, <6>1
          <6> QED BY <5>2, <6>1, <6>2
        <5> QED BY <5>1, <5>2
      <4>7. DOMAIN new = 1 .. n - 1
        BY <4>5
      <4> QED BY <4>5, <4>6, <4>7
    <3> DEFINE place(i) == IF i < k THEN i ELSE i + 1
    <3>5. \A i \in DOMAIN new : place(i) \in DOMAIN list /\ new[i] = list[place(i)]
      BY <1>1, <3>2, <3>4
    <3>6. \A i, j \in DOMAIN new : place(i) = place(j) => i = j
      BY <1>1, <3>2, <3>4
    <3> HIDE DEF place
    <3>7. SingleRows(new)
      BY <3>5, <3>6 DEF SingleRows
    <3>8. list # <<>>
      BY <3>2
    <3>9. SameRows(list, new)
      BY <3>4, <3>5, <3>7, <3>8 DEF SameRows
    <3> QED BY <3>9 DEF new
  <2> QED BY <2>2, <2>3
<1>3. CASE kind # "void"
  <2> DEFINE shown(row) == IF row.id # change.id THEN row
                           ELSE IF kind = "category" THEN ShownSaved(row, change)
                           ELSE ShownEdited(row, change)
  <2>1. new = [i \in DOMAIN list |-> shown(list[i])]
    BY <1>3 DEF ShownAfter
  <2>2. /\ change.category \in Categories /\ change.day \in Days /\ change.categoryVersion + 1 \in Nat
        /\ "user" \in Sources
    BY DEF ChangeType, Sources
  <2>3. ASSUME NEW row \in RowType PROVE shown(row) \in RowType /\ shown(row).id = row.id
    <3>1. row.version + 1 \in Nat /\ row.categoryVersion \in Nat /\ row.categoryVersion + 1 \in Nat
      BY DEF RowType
    <3>2. ShownSaved(row, change) \in RowType /\ ShownSaved(row, change).id = row.id
      BY <2>2 DEF ShownSaved, RowType
    <3>3. ShownEdited(row, change) \in RowType /\ ShownEdited(row, change).id = row.id
      <4>1. CASE row.category = change.category /\ row.source = "user"
        BY <2>2, <3>1, <4>1 DEF ShownEdited, RowType
      <4>2. CASE ~(row.category = change.category /\ row.source = "user")
        BY <2>2, <3>1, <4>2 DEF ShownEdited, RowType
      <4> QED BY <4>1, <4>2
    <3> QED BY <3>2, <3>3
  <2> HIDE DEF shown, new
  <2>4. /\ DOMAIN new = 1 .. Len(list)
        /\ \A i \in 1 .. Len(list) : new[i] \in RowType /\ new[i].id = list[i].id
    BY <1>1, <2>1, <2>3
  <2>5. new \in Seq(RowType) /\ Len(new) = Len(list)
    <3>1. new \in [1 .. Len(list) -> RowType]
      BY <2>1, <2>4
    <3> QED BY <1>1, <3>1
  <2>6. SingleRows(new)
    BY <1>1, <2>4 DEF SingleRows
  <2>7. list = <<>> => new = <<>>
    BY <2>5
  <2>8. SameRows(list, new)
    BY <1>1, <2>4, <2>5, <2>6, <2>7 DEF SameRows
  <2> QED BY <2>8 DEF new
<1> QED BY <1>2, <1>3

\* The person is told that the change is saved.
LEMMA ReceiveSavedKeeps ==
    ASSUME FeedInv, ReceiveSaved
    PROVE  FeedInv'
<1> DEFINE kind == saving.kind
           change == saving.change
           new == ShownAfter(kind, change)
           old == history.known[change.id]
           known == [version |-> IF kind = "category" THEN old.version ELSE change.version + 1,
                     categoryVersion |-> change.categoryVersion + (IF kind = "category" THEN 1 ELSE 0),
                     void |-> kind = "void"]
<1>1. TypeOK /\ StoreHolds /\ KnownHolds /\ SavingHolds /\ ListHolds /\ PageHolds /\ AnswerHolds
  BY DEF FeedInv
<1>2. client \in ClientType /\ client.list \in Seq(RowType) /\ SingleRows(client.list)
  BY <1>1, ClientParts DEF ListHolds
<1>3. saving.state = "done" /\ kind \in {"category", "edit", "void"}
  <2>1. saving \in [kind : {"none", "category", "edit", "void"}, change : ChangeType \cup {NoRow},
                    state : {"none", "asked", "done"}]
    BY <1>1 DEF TypeOK
  <2> QED BY <1>1, <2>1 DEF ReceiveSaved, SavingHolds
<1>4. change \in ChangeType /\ change.id \in Tx /\ change.version \in Nat /\ change.categoryVersion \in Nat
  BY <1>1, <1>3 DEF SavingHolds, ChangeType
<1>5. /\ client' = [client EXCEPT !.list = new, !.open = NoRow, !.refresh = TRUE]
      /\ history' = [history EXCEPT !.known[change.id] = known]
      /\ saving' = NoChange /\ UNCHANGED <<world, store, loads, bounds>>
  BY DEF ReceiveSaved, Confirmed, Known
<1>6. SameRows(client.list, new)
  BY <1>2, <1>3, <1>4, ShownAfterIsSame
<1> HIDE DEF new
<1>7. history \in HistoryType /\ old \in [version : Nat, categoryVersion : Nat, void : BOOLEAN]
  BY <1>1, <1>4, TypeParts DEF HistoryType
<1>8. known \in [version : Nat, categoryVersion : Nat, void : BOOLEAN]
  BY <1>3, <1>4, <1>7
<1>9. /\ known.version = IF kind = "category" THEN old.version ELSE change.version + 1
      /\ known.categoryVersion = change.categoryVersion + (IF kind = "category" THEN 1 ELSE 0)
      /\ known.void <=> kind = "void"
  OBVIOUS
<1> HIDE DEF known
<1>10. /\ history' \in HistoryType /\ history'.versions = history.versions /\ history'.settled = history.settled
       /\ history'.known = [history.known EXCEPT ![change.id] = known]
  BY <1>4, <1>5, <1>7, <1>8 DEF HistoryType
<1>11. /\ client' \in ClientType /\ client'.list = new /\ client'.refresh /\ client'.cursor = client.cursor
       /\ (client'.online <=> client.online) /\ client'.filter = client.filter /\ client'.current = client.current
  BY <1>2, <1>5, <1>6 DEF ClientType, SameRows
<1>12. TypeOK'
  <2>1. NoChange \in [kind : {"none", "category", "edit", "void"}, change : ChangeType \cup {NoRow},
                      state : {"none", "asked", "done"}]
    BY DEF NoChange
  <2> QED BY <1>1, <1>5, <1>10, <1>11, <2>1 DEF TypeOK, ClientType, HistoryType
<1>13. StoreHolds'
  BY <1>1, <1>5, <1>10 DEF StoreHolds
<1>14. KnownHolds'
  <2> SUFFICES ASSUME NEW t \in Tx, store.tx[t].there \/ ~store.tx[t].manual
               PROVE  /\ history'.known[t].version <= store.tx[t].version
                      /\ history'.known[t].categoryVersion <= store.tx[t].categoryVersion
                      /\ ~history'.known[t].void
    BY <1>5 DEF KnownHolds
  <2>1. CASE t # change.id
    <3>1. history'.known[t] = history.known[t]
      BY <1>4, <1>7, <1>10, <2>1 DEF HistoryType
    <3> QED BY <1>1, <3>1 DEF KnownHolds
  <2>2. CASE t = change.id
    <3>1. history'.known[t] = known
      BY <1>4, <1>7, <1>10, <2>2 DEF HistoryType
    <3>2. store.tx[t] \in Stored /\ (store.tx[t].manual <=> t \in world.manual)
      BY <1>1, StoreAsRecord DEF StoreHolds
    <3>3. store.tx[t].version \in Nat /\ store.tx[t].categoryVersion \in Nat /\ old.version \in Nat
      BY <1>7, <3>2 DEF Stored
    <3>4. /\ kind # "category" => t \in world.manual
          /\ kind = "category" => change.categoryVersion < store.tx[t].categoryVersion
          /\ kind = "edit" => change.version < store.tx[t].version
                              /\ change.categoryVersion <= store.tx[t].categoryVersion
          /\ kind = "void" => ~store.tx[t].there
      BY <1>1, <1>3, <2>2 DEF SavingHolds
    <3>5. kind # "void"
      BY <3>2, <3>4
    <3>6. old.version <= store.tx[t].version
      BY <1>1, <2>2 DEF KnownHolds
    <3>7. CASE kind = "category"
      BY <1>4, <1>9, <3>1, <3>3, <3>4, <3>6, <3>7
    <3>8. CASE kind = "edit"
      BY <1>4, <1>9, <3>1, <3>3, <3>4, <3>8
    <3> QED BY <1>3, <3>5, <3>7, <3>8
  <2> QED BY <2>1, <2>2
<1>15. SavingHolds'
  BY <1>5 DEF SavingHolds, NoChange
<1>16. ListHolds'
  <2>1. client.online => OfFilter(client.list, client.filter)
    BY <1>1 DEF ListHolds
  <2>2. client'.online => OfFilter(client.list, client.filter)'
    BY <1>6, <1>10, <1>11, <2>1 DEF OfFilter, SameRows
  <2>3. SingleRows(client.list)'
    BY <1>6, <1>11 DEF SingleRows, SameRows
  <2> QED BY <1>11, <2>2, <2>3 DEF ListHolds
<1>17. PageHolds' /\ AnswerHolds'
  <2>1. client.current # 0 => client.current \in DOMAIN loads' /\ loads'[client.current] = loads[client.current]
    BY <1>1, <1>5 DEF PageHolds
  <2>2. client.list = <<>> => client'.list = <<>>
    BY <1>6, <1>11 DEF SameRows
  <2> QED BY <1>1, <1>5, <1>10, <1>11, <2>1, <2>2, PageKept
<1> QED BY <1>12, <1>13, <1>14, <1>15, <1>16, <1>17 DEF FeedInv
------------------------------------------------------------------------------
(* A page is received.                                                     *)

\* The rows of the new list, by their places in the joined one.
LEMMA NewestPlaces ==
    ASSUME NEW list \in Seq(RowType), NEW new, NewestOf(list, new),
           NEW d, d = IF Len(list) > Window THEN Len(list) - Window ELSE 0
    PROVE  /\ d \in Nat /\ new \in Seq(RowType) /\ (d > 0 <=> Len(list) > Window)
           /\ \A i \in DOMAIN new : i + d \in DOMAIN list /\ new[i] = list[i + d]
           /\ \A i \in DOMAIN list : i <= d \/ (i - d \in DOMAIN new /\ list[i] = new[i - d])
           /\ new = <<>> => list = <<>>
<1>1. Window \in Nat \ {0} /\ Len(list) \in Nat /\ DOMAIN list = 1 .. Len(list) /\ new \in Seq(RowType)
  BY FeedAssumption DEF NewestOf
<1>2. DOMAIN new = 1 .. Len(new) /\ Len(new) \in Nat /\ \A i \in DOMAIN new : i \in Int
  <2>1. DOMAIN new = 1 .. Len(new) /\ Len(new) \in Nat
    BY <1>1, ElementType
  <2> QED BY <2>1
<1>3. CASE Len(list) > Window
  <2>1. d = Len(list) - Window /\ d \in Nat /\ d > 0
    BY <1>1, <1>3
  <2>2. /\ Len(new) = Window
        /\ \A i \in DOMAIN new : d + i \in DOMAIN list /\ new[i] = list[d + i]
        /\ \A i \in DOMAIN list : i <= d \/ (i - d \in DOMAIN new /\ list[i] = new[i - d])
    BY <1>3, <2>1 DEF NewestOf
  <2>3. \A i \in DOMAIN new : d + i = i + d
    BY <1>2, <2>1
  <2>4. new # <<>>
    BY <1>1, <2>2
  <2> QED BY <1>1, <1>3, <2>1, <2>2, <2>3, <2>4
<1>4. CASE ~(Len(list) > Window)
  <2>1. d = 0 /\ new = list
    BY <1>4 DEF NewestOf
  <2>2. \A i \in DOMAIN list : i + 0 = i /\ i - 0 = i
    <3>1. \A i \in 1 .. Len(list) : i + 0 = i /\ i - 0 = i
      BY Z3
    <3> QED BY <1>1, <3>1
  <2>3. \A i \in DOMAIN new : i + d \in DOMAIN list /\ new[i] = list[i + d]
    BY <2>1, <2>2
  <2>4. \A i \in DOMAIN list : i <= d \/ (i - d \in DOMAIN new /\ list[i] = new[i - d])
    BY <2>1, <2>2
  <2>5. d \in Nat /\ ~(d > 0)
    BY <2>1
  <2> QED BY <1>1, <1>4, <2>1, <2>3, <2>4, <2>5
<1> QED BY <1>3, <1>4

\* A page joined to what is before it.
LEMMA JoinedIsOrdered ==
    ASSUME NEW base \in Seq(RowType), NEW rows \in Seq(RowType), NEW list, JoinedOf(base, rows, list),
           Ordered(base), Ordered(rows),
           NEW next \in Cursor \cup {Start, Nowhere}, NEW after \in Cursor,
           \A i \in DOMAIN base : ~AfterCursor(next, base[i]),
           \A i \in DOMAIN rows : AfterCursor(next, rows[i]) /\ ~AfterCursor(after, rows[i]),
           rows = <<>> => after = End
    PROVE  /\ Ordered(list) /\ \A i \in DOMAIN list : ~AfterCursor(after, list[i])
           /\ \A i \in DOMAIN list : (i \in DOMAIN base /\ list[i] = base[i]) \/ \E j \in DOMAIN rows : list[i] = rows[j]
<1>1. /\ DOMAIN base = 1 .. Len(base) /\ Len(base) \in Nat /\ \A i \in DOMAIN base : base[i] \in RowType
      /\ DOMAIN rows = 1 .. Len(rows) /\ Len(rows) \in Nat /\ \A i \in DOMAIN rows : rows[i] \in RowType
      /\ list \in Seq(RowType) /\ DOMAIN list = 1 .. Len(list) /\ Len(list) \in Nat
      /\ \A i \in DOMAIN list : list[i] \in RowType
  BY ElementType DEF JoinedOf
<1>2. /\ Len(base) <= Len(list) /\ \A i \in DOMAIN base : list[i] = base[i]
      /\ \A i \in DOMAIN list : Len(base) < i => \E j \in DOMAIN rows : list[i] = rows[j]
      /\ \A i, j \in DOMAIN list : Len(base) < i /\ i < j => Before(list[i], list[j])
  BY DEF JoinedOf
<1>3. \A i \in DOMAIN list : (i \in DOMAIN base /\ list[i] = base[i]) \/ \E j \in DOMAIN rows : list[i] = rows[j]
  BY <1>1, <1>2
<1>4. /\ next.day \in Int /\ next.id \in Int /\ after.day \in Int /\ after.id \in Int
      /\ \A row \in RowType : row.day \in Int /\ row.id \in Int /\ row.day \in Days
  BY PlacesAreNumbers
<1>5. \A i \in DOMAIN base, j \in DOMAIN rows : Before(base[i], rows[j])
  <2> SUFFICES ASSUME NEW i \in DOMAIN base, NEW j \in DOMAIN rows PROVE Before(base[i], rows[j])
    OBVIOUS
  <2>1. ~Before(next, base[i]) /\ Before(next, rows[j]) /\ base[i] \in RowType /\ rows[j] \in RowType
    BY <1>1 DEF AfterCursor
  <2> QED BY <1>4, <2>1, BeforeIsOrder
<1>6. Ordered(list)
  <2> SUFFICES ASSUME NEW i \in DOMAIN list, NEW j \in DOMAIN list, i < j PROVE Before(list[i], list[j])
    BY DEF Ordered
  <2>1. CASE Len(base) < i
    BY <1>2, <2>1
  <2>2. CASE ~(Len(base) < i) /\ j <= Len(base)
    <3>1. i \in DOMAIN base /\ j \in DOMAIN base
      BY <1>1, <2>2
    <3> QED BY <1>2, <3>1 DEF Ordered
  <2>3. CASE ~(Len(base) < i) /\ ~(j <= Len(base))
    <3>1. i \in DOMAIN base /\ list[i] = base[i] /\ Len(base) < j
      BY <1>1, <1>2, <2>3
    <3>2. PICK k \in DOMAIN rows : list[j] = rows[k]
      BY <1>2, <3>1
    <3> QED BY <1>5, <3>1, <3>2
  <2> QED BY <2>1, <2>2, <2>3
<1>7. ASSUME NEW i \in DOMAIN list PROVE ~AfterCursor(after, list[i])
  <2>1. CASE \E j \in DOMAIN rows : list[i] = rows[j]
    BY <2>1
  <2>2. CASE i \in DOMAIN base /\ list[i] = base[i]
    <3>1. CASE rows = <<>>
      BY <1>1, <1>4, <3>1, NothingAfterEnd
    <3>2. CASE rows # <<>>
      <4>1. 1 \in DOMAIN rows
        BY <1>1, <3>2
      <4>2. Before(base[i], rows[1]) /\ ~Before(after, rows[1]) /\ base[i] \in RowType /\ rows[1] \in RowType
        BY <1>1, <1>5, <2>2, <4>1 DEF AfterCursor
      <4>3. ~Before(after, base[i])
        BY <1>4, <4>2, BeforeIsOrder
      <4> QED BY <2>2, <4>3 DEF AfterCursor
    <3> QED BY <3>1, <3>2
  <2> QED BY <1>3, <2>1, <2>2
<1> QED BY <1>3, <1>6, <1>7

\* The list when the page it waits for has come.
LEMMA ReceivePageKeeps ==
    ASSUME FeedInv, NEW l \in DOMAIN loads, ReceivePage(l)
    PROVE  FeedInv'
<1> DEFINE load == loads[l]
           base == load.base
           rows == load.rows
           next == load.next
           after == load.after
           list == Joined(base, rows)
           new == Newest(list)
           older == next # Start /\ (client.older \/ Len(list) > Window)
           d == IF Len(list) > Window THEN Len(list) - Window ELSE 0
<1>1. TypeOK /\ StoreHolds /\ KnownHolds /\ SavingHolds /\ ListHolds /\ PageHolds /\ AnswerHolds
  BY DEF FeedInv
<1>2. /\ load.state = "answered" /\ loads' = [loads EXCEPT ![l] = Finished]
      /\ UNCHANGED <<world, store, saving, bounds, history>>
  BY DEF ReceivePage
<1>3. CASE client.current # l
  <2>1. client' = client
    BY <1>3 DEF ReceivePage, Counts
  <2> QED BY <1>2, <1>3, <2>1, FinishedType, OtherPageKeeps
<1>4. CASE client.current = l
  <2>1. client' = [client EXCEPT !.list = new, !.cursor = after, !.older = older, !.current = 0, !.failed = Nowhere]
    BY <1>4 DEF ReceivePage, Counts
  <2>2. /\ next \in Cursor \cup {Start, Nowhere} /\ base \in Seq(RowType) /\ rows \in Seq(RowType) /\ l # 0
        /\ client \in ClientType /\ client.list \in Seq(RowType) /\ client.cursor \in Cursor
    BY <1>1, LoadType, ClientParts
  <2>3. /\ client.online /\ load.filter = client.filter /\ (next = Start => base = <<>>)
        /\ SingleRows(base) /\ OfFilter(base, client.filter)
        /\ ~client.refresh /\ next # Start => base = client.list /\ next = client.cursor
    BY <1>1, <1>4, <2>2 DEF PageHolds
  <2>4. /\ SingleRows(rows) /\ OfFilter(rows, client.filter) /\ Ordered(rows) /\ AsSettled(rows)
        /\ ~client.refresh => AsTold(rows)
        /\ Len(rows) <= PageSize /\ after \in Cursor /\ (rows = <<>> => after = End)
        /\ \A i \in DOMAIN rows : AfterCursor(next, rows[i]) /\ ~AfterCursor(after, rows[i])
        /\ \A t \in Wanted : Reached(after, t) /\ ~Reached(next, t) => Shows(rows, t)
    BY <1>1, <1>2, <1>4, <2>2, <2>3 DEF AnswerHolds
  <2> HIDE DEF base, rows, next, after, load
  <2>5. JoinedOf(base, rows, list)
    BY <2>2, <2>3, <2>4, JoinedIsOfBoth
  <2> HIDE DEF list
  <2>6. list \in Seq(RowType) /\ SingleRows(list) /\ DOMAIN list = 1 .. Len(list) /\ Len(list) \in Nat
    BY <2>5, ElementType DEF JoinedOf
  <2>7. NewestOf(list, new)
    BY <2>6, NewestIsTheEnd
  <2> HIDE DEF new
  <2>8. /\ d \in Nat /\ new \in Seq(RowType) /\ (d > 0 <=> Len(list) > Window)
        /\ \A i \in DOMAIN new : i + d \in DOMAIN list /\ new[i] = list[i + d]
        /\ \A i \in DOMAIN list : i <= d \/ (i - d \in DOMAIN new /\ list[i] = new[i - d])
        /\ new = <<>> => list = <<>>
    BY <2>6, <2>7, NewestPlaces
  <2> HIDE DEF d
  <2>9. \A i \in DOMAIN new : i \in Int
    <3>1. DOMAIN new = 1 .. Len(new)
      BY <2>8, ElementType
    <3> QED BY <3>1
  <2>10. older \in BOOLEAN
    OBVIOUS
  <2>11. /\ client' \in ClientType /\ client'.list = new /\ client'.cursor = after /\ (client'.older <=> older)
         /\ client'.current = 0 /\ client'.failed = Nowhere /\ client'.filter = client.filter
         /\ (client'.online <=> client.online) /\ (client'.refresh <=> client.refresh)
    <3> HIDE DEF older
    <3> QED BY <2>1, <2>2, <2>4, <2>8, <2>10 DEF ClientType
  <2>12. TypeOK'
    <3>1. loads' \in Seq(LoadRecord)
      BY <1>1, <1>2, FinishedType, TypeParts
    <3> QED BY <1>1, <1>2, <2>11, <3>1 DEF TypeOK, LoadRecord, ClientType
  <2>13. StoreHolds' /\ KnownHolds' /\ SavingHolds'
    BY <1>1, <1>2 DEF StoreHolds, KnownHolds, SavingHolds
  <2>14. PageHolds' /\ AnswerHolds'
    BY <2>11 DEF PageHolds, AnswerHolds
  <2>15. SingleRows(new)
    <3> SUFFICES ASSUME NEW i \in DOMAIN new, NEW j \in DOMAIN new, new[i].id = new[j].id PROVE i = j
      BY DEF SingleRows
    <3>1. i + d = j + d
      BY <2>6, <2>8 DEF SingleRows
    <3> QED BY <2>8, <2>9, <3>1
  <2>16. \A i \in DOMAIN list : (\E j \in DOMAIN base : list[i] = base[j]) \/ (\E j \in DOMAIN rows : list[i] = rows[j])
    <3> SUFFICES ASSUME NEW i \in DOMAIN list, ~(Len(base) < i) PROVE \E j \in DOMAIN base : list[i] = base[j]
      BY <2>5 DEF JoinedOf
    <3>1. DOMAIN base = 1 .. Len(base) /\ Len(base) \in Nat
      BY <2>2, ElementType
    <3>2. i \in DOMAIN base
      BY <2>6, <3>1
    <3> QED BY <2>5, <3>2 DEF JoinedOf
  <2>17. OfFilter(new, client.filter)
    <3> SUFFICES ASSUME client.filter # Everything, NEW i \in DOMAIN new
                 PROVE  \E row \in history.versions[new[i].id] : row.category = client.filter
      BY DEF OfFilter
    <3>1. (\E j \in DOMAIN base : new[i] = base[j]) \/ (\E j \in DOMAIN rows : new[i] = rows[j])
      BY <2>8, <2>16
    <3> QED BY <2>3, <2>4, <3>1 DEF OfFilter
  <2>18. ASSUME ~client.refresh
         PROVE  /\ Ordered(base) /\ AsTold(base) /\ AsSettled(base)
                /\ \A i \in DOMAIN base : ~AfterCursor(next, base[i])
                /\ next # Start /\ base = <<>> => ~client.older /\ next = End
                /\ next # Start /\ base # <<>> => \A t \in Wanted : Reached(next, t) =>
                     Shows(base, t) \/ (client.older /\ Before(Row(t, store.tx[t]), base[1]))
    <3>1. CASE next = Start
      <4>1. DOMAIN base = {}
        BY <2>3, <3>1
      <4> QED BY <3>1, <4>1 DEF Ordered, AsTold, AsSettled
    <3>2. CASE next # Start
      BY <1>1, <2>3, <2>18, <3>2 DEF ListHolds
    <3> QED BY <3>1, <3>2
  <2>19. ASSUME ~client.refresh
         PROVE  Ordered(list) /\ \A i \in DOMAIN list : ~AfterCursor(after, list[i])
    <3>1. Ordered(base) /\ \A i \in DOMAIN base : ~AfterCursor(next, base[i])
      BY <2>18, <2>19
    <3>2. /\ Ordered(rows) /\ after \in Cursor /\ (rows = <<>> => after = End)
          /\ \A i \in DOMAIN rows : AfterCursor(next, rows[i]) /\ ~AfterCursor(after, rows[i])
      BY <2>4
    <3>3. next \in Cursor \cup {Start, Nowhere} /\ base \in Seq(RowType) /\ rows \in Seq(RowType)
      BY <2>2
    <3> QED BY ONLY <2>5, <3>1, <3>2, <3>3, JoinedIsOrdered
  <2>20. ASSUME ~client.refresh PROVE AsTold(list) /\ AsSettled(list)
    BY <2>4, <2>16, <2>18, <2>20 DEF AsTold, AsSettled
  <2>21. ASSUME ~client.refresh
         PROVE  /\ Ordered(new) /\ AsTold(new) /\ AsSettled(new)
                /\ \A i \in DOMAIN new : ~AfterCursor(after, new[i])
    <3>1. Ordered(new)
      <4> SUFFICES ASSUME NEW i \in DOMAIN new, NEW j \in DOMAIN new, i < j PROVE Before(new[i], new[j])
        BY DEF Ordered
      <4>1. i + d < j + d /\ i + d \in DOMAIN list /\ j + d \in DOMAIN list
        BY <2>8, <2>9
      <4> QED BY <2>8, <2>19, <2>21, <4>1 DEF Ordered
    <3>2. AsTold(new)
      BY <2>8, <2>20, <2>21 DEF AsTold
    <3>3. AsSettled(new)
      BY <2>8, <2>20, <2>21 DEF AsSettled
    <3>4. \A i \in DOMAIN new : ~AfterCursor(after, new[i])
      BY <2>8, <2>19, <2>21
    <3> QED BY <3>1, <3>2, <3>3, <3>4
  <2>22. rows # <<>> \/ base # <<>> => list # <<>>
    <3>1. rows # <<>> => 1 \in DOMAIN rows
      BY <2>2
    <3>2. base # <<>> => Len(base) \in Nat /\ Len(base) > 0
      BY <2>2
    <3> QED BY <2>5, <2>6, <3>1, <3>2 DEF JoinedOf, Shows
  <2>23. ASSUME ~client.refresh, new = <<>> PROVE ~older /\ after = End
    <3>1. list = <<>> /\ rows = <<>> /\ base = <<>>
      BY <2>8, <2>22, <2>23
    <3>2. ~(Len(list) > Window)
      BY <3>1, FeedAssumption
    <3> QED BY <2>4, <2>18, <2>23, <3>1, <3>2
  <2>24. next = Start => d = 0
    <3> SUFFICES ASSUME next = Start, Len(list) > Window PROVE FALSE
      BY <2>8
    <3>1. Len(list) <= Len(rows) /\ Len(rows) \in Nat
      BY <2>2, <2>3, <2>5 DEF JoinedOf
    <3>2. PageSize <= Window /\ PageSize \in Nat /\ Window \in Nat
      BY FeedAssumption
    <3> QED BY <2>4, <2>6, <3>1, <3>2
  <2>25. ASSUME ~client.refresh, new # <<>>, NEW t \in Wanted, Reached(after, t)
         PROVE  Shows(new, t) \/ (older /\ Before(Row(t, store.tx[t]), new[1]))
    <3> DEFINE row == Row(t, store.tx[t])
    <3>1. t \in Tx /\ t \in history.settled /\ row \in RowType /\ row.id = t /\ row.day = store.tx[t].day
      BY <1>1, RowOfTx DEF Wanted, TypeOK
    <3>2. 1 \in DOMAIN new /\ 1 + d \in DOMAIN list /\ new[1] = list[1 + d] /\ new[1] \in RowType
      BY <2>8, <2>25
    <3>3. Shows(list, t) \/ (next # Start /\ client.older /\ base # <<>> /\ Before(row, base[1]))
      <4>1. CASE ~Reached(next, t)
        <5>1. PICK j \in DOMAIN rows : rows[j].id = t
          BY <2>4, <2>25, <4>1 DEF Shows
        <5> QED BY <2>5, <5>1 DEF JoinedOf
      <4>2. CASE Reached(next, t)
        <5>1. next # Start
          <6>1. row.day \in Days
            BY <3>1, PlacesAreNumbers
          <6>2. AfterCursor(Start, row)
            BY <6>1, EverythingAfterStart
          <6> QED BY <4>2, <6>2 DEF Reached
        <5>2. base # <<>>
          <6> SUFFICES ASSUME base = <<>> PROVE FALSE
            OBVIOUS
          <6>1. next = End
            BY <2>18, <2>25, <5>1
          <6>2. rows = <<>>
            <7> SUFFICES ASSUME 1 \in DOMAIN rows PROVE FALSE
              BY <2>2
            <7>1. rows[1] \in RowType /\ AfterCursor(End, rows[1])
              BY <2>2, <2>4, <6>1, ElementType
            <7> QED BY <7>1, NothingAfterEnd, PlacesAreNumbers
          <6>3. list = <<>>
            <7>1. Len(list) <= 0
              BY <2>5, <6>2 DEF JoinedOf
            <7> QED BY <2>6, <7>1
          <6> QED BY <3>2, <6>3
        <5>3. Shows(base, t) \/ (client.older /\ Before(row, base[1]))
          BY <2>18, <2>25, <4>2, <5>1, <5>2
        <5>4. ASSUME Shows(base, t) PROVE Shows(list, t)
          <6>1. PICK j \in DOMAIN base : base[j].id = t
            BY <5>4 DEF Shows
          <6>2. j \in DOMAIN list /\ list[j] = base[j]
            <7>1. DOMAIN base = 1 .. Len(base) /\ Len(base) \in Nat /\ Len(base) <= Len(list)
              BY <2>2, <2>5, ElementType DEF JoinedOf
            <7>2. j \in 1 .. Len(list)
              BY <2>6, <7>1
            <7> QED BY <2>5, <2>6, <7>2 DEF JoinedOf
          <6> QED BY <6>1, <6>2 DEF Shows
        <5> QED BY <5>1, <5>2, <5>3, <5>4
      <4> QED BY <4>1, <4>2
    <3>4. CASE Shows(list, t)
      <4>1. PICK k \in DOMAIN list : list[k].id = t
        BY <3>4 DEF Shows
      <4>2. CASE k - d \in DOMAIN new /\ list[k] = new[k - d]
        BY <4>1, <4>2 DEF Shows
      <4>3. CASE k <= d
        <5>1. k \in Int /\ k < 1 + d /\ 1 <= k
          BY <2>6, <2>8, <4>3
        <5>2. Before(list[k], new[1])
          BY <2>19, <2>25, <3>2, <5>1 DEF Ordered
        <5>3. list[k].day = row.day /\ list[k].id = row.id
          BY <2>20, <2>25, <3>1, <4>1 DEF AsSettled
        <5>4. Before(row, new[1])
          BY <5>2, <5>3 DEF Before
        <5>5. d > 0
          BY <2>8, <4>3, <5>1
        <5>6. next # Start /\ Len(list) > Window
          BY <2>8, <2>24, <5>5
        <5> QED BY <5>4, <5>6
      <4> QED BY <2>8, <4>2, <4>3
    <3>5. CASE next # Start /\ client.older /\ base # <<>> /\ Before(row, base[1])
      <4>1. 1 \in DOMAIN base /\ 1 \in DOMAIN list /\ list[1] = base[1] /\ list[1] \in RowType
        <5>1. 1 \in DOMAIN base
          BY <2>2, <3>5
        <5>2. DOMAIN base = 1 .. Len(base) /\ Len(base) \in Nat /\ Len(base) <= Len(list)
          BY <2>2, <2>5, ElementType DEF JoinedOf
        <5>3. 1 \in DOMAIN list
          BY <2>6, <5>1, <5>2
        <5> QED BY <2>5, <2>6, <5>1, <5>3, ElementType DEF JoinedOf
      <4>2. CASE d = 0
        <5>1. new[1] = list[1]
          BY <3>2, <4>2
        <5> QED BY <3>5, <4>1, <5>1
      <4>3. CASE d # 0
        <5>1. Before(list[1], new[1])
          <6>1. 1 < 1 + d
            BY <2>8, <4>3
          <6> QED BY <2>19, <2>25, <3>2, <4>1, <6>1 DEF Ordered
        <5>2. Before(row, new[1])
          BY <3>1, <3>2, <3>5, <4>1, <5>1, BeforeIsOrder, PlacesAreNumbers
        <5> QED BY <3>5, <5>2
      <4> QED BY <4>2, <4>3
    <3> QED BY <3>3, <3>4, <3>5
  <2>26. ListHolds'
    <3> HIDE DEF older
    <3>1. SingleRows(client.list)'
      BY <2>11, <2>15 DEF SingleRows
    <3>2. OfFilter(client.list, client.filter)'
      BY <1>2, <2>11, <2>17 DEF OfFilter
    <3>3. ASSUME ~client.refresh
          PROVE  /\ Ordered(client.list)' /\ AsTold(client.list)' /\ AsSettled(client.list)'
                 /\ \A i \in DOMAIN client'.list : ~AfterCursor(client'.cursor, client'.list[i])
                 /\ client'.list = <<>> => ~client'.older /\ client'.cursor = End
                 /\ client'.failed \in {Nowhere, Start, client'.cursor}
                 /\ client'.failed = Start => client'.list = <<>>
      <4>1. Ordered(client.list)'
        BY <2>11, <2>21, <3>3 DEF Ordered
      <4>2. AsTold(client.list)'
        BY <1>2, <2>11, <2>21, <3>3 DEF AsTold
      <4>3. AsSettled(client.list)'
        BY <1>2, <2>11, <2>21, <3>3 DEF AsSettled
      <4>4. client'.failed # Start
        BY <2>11 DEF Start, Nowhere
      <4> QED BY <2>11, <2>21, <2>23, <3>3, <4>1, <4>2, <4>3, <4>4
    <3>4. ASSUME ~client.refresh, new # <<>>, NEW t \in Wanted', Reached(client.cursor, t)'
          PROVE  Shows(client.list, t)' \/ (client'.older /\ Before(Row(t, store'.tx[t]), client'.list[1]))
      <4>1. t \in Wanted
        BY <1>2, <2>11 DEF Wanted
      <4>2. Reached(after, t)
        BY <1>2, <2>11, <3>4 DEF Reached
      <4>3. Shows(new, t) \/ (older /\ Before(Row(t, store.tx[t]), new[1]))
        BY <2>25, <3>4, <4>1, <4>2
      <4> QED BY <1>2, <2>11, <4>3 DEF Shows
    <3>5. \A t \in Wanted' : ~client'.refresh /\ client'.list # <<>> /\ Reached(client.cursor, t)' =>
             Shows(client.list, t)' \/ (client'.older /\ Before(Row(t, store'.tx[t]), client'.list[1]))
      BY <2>11, <3>4
    <3> QED BY <2>11, <3>1, <3>2, <3>3, <3>5 DEF ListHolds
  <2> QED BY <2>12, <2>13, <2>14, <2>26 DEF FeedInv
<1> QED BY <1>3, <1>4
------------------------------------------------------------------------------
(* The invariant.                                                          *)

LEMMA InitialTxType ==
    ASSUME NEW w \in Worlds, NEW t \in Tx
    PROVE  /\ InitialTx(w, t) \in Stored /\ (InitialTx(w, t).manual <=> t \in w.manual)
           /\ (InitialTx(w, t).there <=> t \in DOMAIN w.days \ w.late)
           /\ InitialTx(w, t).source = "user" => InitialTx(w, t).manual
<1>1. w.days \in Seq(Days)
  BY FeedAssumption
<1> DEFINE there == t \in DOMAIN w.days \ w.late
           manual == t \in w.manual
           day == IF t \in DOMAIN w.days THEN w.days[t] ELSE 0
           source == IF t \in w.manual THEN "user" ELSE "provider"
           n == IF there THEN 1 ELSE 0
<1>2. day \in Days /\ source \in Sources /\ n \in Nat /\ "food" \in Categories /\ there \in BOOLEAN /\ manual \in BOOLEAN
  <2>1. 0 \in Days
    BY DEF Days
  <2> QED BY <1>1, <2>1 DEF Sources, Categories
<1>3. InitialTx(w, t) = [there |-> there, manual |-> manual, day |-> day, category |-> "food",
                         source |-> source, version |-> 1, categoryVersion |-> n]
  BY DEF InitialTx
<1>4. source = "user" => manual
  OBVIOUS
<1> HIDE DEF there, manual, day, source, n
<1>5. /\ InitialTx(w, t) \in Stored /\ InitialTx(w, t).manual = manual
      /\ InitialTx(w, t).there = there /\ InitialTx(w, t).source = source
  BY <1>2, <1>3 DEF Stored
<1> QED BY <1>4, <1>5 DEF there, manual

LEMMA InitIsFeed ==
    ASSUME Init
    PROVE  FeedInv
<1>1. PICK w \in Worlds :
        /\ world = w
        /\ store = [tx |-> [t \in Tx |-> InitialTx(w, t)],
                    rule |-> [there |-> FALSE, category |-> "food", version |-> 0]]
        /\ loads = <<[Finished EXCEPT !.next = Start, !.state = "asked"]>>
        /\ client = [list |-> <<>>, filter |-> Everything, cursor |-> End, older |-> FALSE,
                     current |-> 1, failed |-> Nowhere, online |-> TRUE, refresh |-> FALSE,
                     open |-> NoRow]
        /\ saving = NoChange
        /\ bounds = [changes |-> 0, edits |-> 0, refreshes |-> 0]
        /\ history = [versions |-> [t \in Tx |-> {Row(t, InitialTx(w, t))}],
                      settled |-> DOMAIN w.days \ w.late,
                      known |-> [t \in Tx |-> [version |-> 0, categoryVersion |-> 0, void |-> FALSE]]]
  BY DEF Init
<1>2. \A t \in Tx : /\ InitialTx(w, t) \in Stored /\ (InitialTx(w, t).manual <=> t \in w.manual)
                    /\ (InitialTx(w, t).there <=> t \in DOMAIN w.days \ w.late)
                    /\ InitialTx(w, t).source = "user" => InitialTx(w, t).manual
  BY InitialTxType
<1>3. DOMAIN w.days \subseteq Tx
  <2>1. w.days \in Seq(Days) /\ Len(w.days) <= MaxTx /\ MaxTx \in Nat
    BY FeedAssumption
  <2>2. DOMAIN w.days = 1 .. Len(w.days) /\ Len(w.days) \in Nat
    BY <2>1
  <2> QED BY <2>1, <2>2 DEF Tx
<1>4. \A t \in Tx : store.tx[t] = InitialTx(w, t)
  BY <1>1
<1>5. store \in StoreType
  BY <1>1, <1>2 DEF StoreType, Categories
<1>6. \A t \in Tx : Row(t, InitialTx(w, t)) \in RowType
  <2> SUFFICES ASSUME NEW t \in Tx PROVE Row(t, InitialTx(w, t)) \in RowType
    OBVIOUS
  <2> DEFINE r == InitialTx(w, t)
  <2>1. r \in Stored
    BY <1>2
  <2> HIDE DEF r
  <2>2. Row(t, r) \in RowType
    BY <2>1 DEF Row, RowType, Stored
  <2> QED BY <2>2 DEF r
<1>7. /\ history \in HistoryType /\ history.settled = DOMAIN w.days \ w.late
      /\ \A t \in Tx : history.versions[t] = {Row(t, InitialTx(w, t))}
      /\ \A t \in Tx : history.known[t] = [version |-> 0, categoryVersion |-> 0, void |-> FALSE]
  BY <1>1, <1>3, <1>6 DEF HistoryType
<1>8. /\ client \in ClientType /\ client.list = <<>> /\ client.cursor = End /\ ~client.older /\ client.current = 1
      /\ client.failed = Nowhere /\ client.filter = Everything /\ client.online /\ ~client.refresh
  BY <1>1, NoRows DEF ClientType, Cursor, Filters
<1> DEFINE load == [Finished EXCEPT !.next = Start, !.state = "asked"]
<1>9. load \in LoadRecord /\ load.next = Start /\ load.state = "asked" /\ load.filter = Everything /\ load.base = <<>>
  BY NoRows DEF Finished, LoadRecord, Filters
<1>10. loads = <<load>>
  BY <1>1
<1> HIDE DEF load
<1>11. loads \in Seq(LoadRecord) /\ 1 \in DOMAIN loads /\ loads[1] = load
  BY <1>9, <1>10
<1>12. /\ saving \in [kind : {"none", "category", "edit", "void"}, change : ChangeType \cup {NoRow},
                      state : {"none", "asked", "done"}]
       /\ saving.kind = "none" /\ saving.state = "none"
  BY <1>1 DEF NoChange
<1>13. bounds \in [changes : Nat, edits : Nat, refreshes : Nat]
  BY <1>1
<1>14. TypeOK
  BY <1>1, <1>5, <1>7, <1>8, <1>11, <1>12, <1>13, TypeParts
<1>15. StoreHolds
  BY <1>1, <1>2, <1>4, <1>7 DEF StoreHolds
<1>16. KnownHolds
  <2> SUFFICES ASSUME NEW t \in Tx
               PROVE  /\ history.known[t].version <= store.tx[t].version
                      /\ history.known[t].categoryVersion <= store.tx[t].categoryVersion
                      /\ ~history.known[t].void
    BY DEF KnownHolds
  <2>1. store.tx[t] \in Stored
    BY <1>2, <1>4
  <2>2. store.tx[t].version \in Nat /\ store.tx[t].categoryVersion \in Nat
    BY <2>1 DEF Stored
  <2> QED BY <1>7, <2>2
<1>17. SavingHolds
  BY <1>12 DEF SavingHolds
<1>18. ListHolds
  BY <1>8, NoRows DEF ListHolds, SingleRows, Ordered, OfFilter, AsTold, AsSettled
<1>19. PageHolds /\ AnswerHolds
  BY <1>8, <1>9, <1>11, NoRows DEF PageHolds, AnswerHolds, SingleRows, OfFilter
<1> QED BY <1>14, <1>15, <1>16, <1>17, <1>18, <1>19 DEF FeedInv

LEMMA StutterKeeps ==
    ASSUME FeedInv, UNCHANGED vars
    PROVE  FeedInv'
<1>1. UNCHANGED <<world, store, loads, client, saving, bounds, history>>
  BY DEF vars
<1>2. TypeOK /\ client \in ClientType /\ SavingHolds /\ bounds \in [changes : Nat, edits : Nat, refreshes : Nat]
      /\ saving \in [kind : {"none", "category", "edit", "void"}, change : ChangeType \cup {NoRow},
                     state : {"none", "asked", "done"}]
  BY TypeParts DEF FeedInv
<1>3. SavingHolds'
  BY <1>1, <1>2 DEF SavingHolds
<1> QED BY <1>1, <1>2, <1>3, AsideKeeps

\* Every step keeps the invariant and the categories that people chose.
LEMMA StepKeeps ==
    ASSUME FeedInv, Next
    PROVE  FeedInv' /\ (UserStays \/ store' = store)
<1>1. CASE Change
  BY <1>1, ChangeKeeps
<1>2. CASE LoadOlder \/ TryAgain \/ BackToNewest
  BY <1>2, AskingKeeps DEF LoadOlder, TryAgain, BackToNewest
<1>3. ASSUME NEW filter \in Filters, SetFilter(filter) PROVE FeedInv' /\ store' = store
  BY <1>3, AskingKeeps DEF SetFilter
<1>4. ASSUME NEW l \in DOMAIN loads, ListTransactions(l) \/ ReceivePage(l) \/ LosePage(l)
      PROVE  FeedInv' /\ store' = store
  BY <1>4, AnswerKeeps, ReceivePageKeeps, LosePageKeeps DEF ListTransactions, ReceivePage, LosePage
<1>5. CASE AskWorkspace \/ ReceiveWorkspace \/ LoseWorkspace
  BY <1>5, OpenDetailKeeps, AskingKeeps, LoseWorkspaceKeeps DEF AskWorkspace, ReceiveWorkspace, LoseWorkspace
<1>6. ASSUME NEW i \in DOMAIN client.list, OpenTransaction(i) PROVE FeedInv' /\ store' = store
  BY <1>6, OpenDetailKeeps DEF OpenTransaction
<1>7. CASE CloseDetail
  BY <1>7, OpenDetailKeeps DEF CloseDetail
<1>8. CASE SaveCategory \/ SaveEdit \/ SaveVoid
  BY <1>8, SaveKeeps DEF SaveCategory, SaveEdit, SaveVoid, Save
<1>9. CASE Handle
  BY <1>9, HandleKeeps
<1>10. CASE ReceiveSaved
  BY <1>10, ReceiveSavedKeeps DEF ReceiveSaved
<1>11. CASE LoseSaved
  BY <1>11, LoseSavedKeeps DEF LoseSaved
<1> QED BY <1>1, <1>2, <1>3, <1>4, <1>5, <1>6, <1>7, <1>8, <1>9, <1>10, <1>11 DEF Next

\* The list is what is there up to its cursor, and a page on its way is the
\* next one, in every state (transaction-feed.tsx:130-173, 545-590).
THEOREM FeedIsSound == Spec => []FeedInv
<1>1. Init => FeedInv
  BY InitIsFeed
<1>2. FeedInv /\ [Next]_vars => FeedInv'
  BY StepKeeps, StutterKeeps
<1> QED BY <1>1, <1>2, PTL DEF Spec

\* When the list says that its end is reached and the workspace is not loaded
\* again, it shows no transaction twice, and has shown every one that has
\* stayed as it was since the list was started, however many pages there were
\* and whatever was written between them (core.service.ts:190-191,
\* transaction-feed.tsx:160-173, 456-460).
THEOREM EndIsReached == Spec => []EndIsTheEnd
<1>1. FeedInv => EndIsTheEnd
  <2> SUFFICES ASSUME FeedInv, SaysEnd, ~client.refresh PROVE AtEnd
    BY DEF EndIsTheEnd
  <2> DEFINE list == client.list
             n == Len(list)
             shown == {list[i].id : i \in DOMAIN list}
             ids == [i \in 1 .. n |-> list[i].id]
  <2>1. TypeOK /\ ListHolds /\ list \in Seq(RowType)
    BY ClientParts DEF FeedInv
  <2>2. client.online /\ client.cursor = End /\ list # <<>>
    BY DEF SaysEnd
  <2>3. n \in Nat /\ DOMAIN list = 1 .. n
    BY <2>1, ElementType
  <2>4. SingleRows(list)
    BY <2>1 DEF ListHolds
  <2>5. Cardinality(shown) = n
    <3>1. ids \in Bijection(1 .. n, shown)
      <4>1. \A i \in 1 .. n : ids[i] \in shown
        BY <2>3
      <4>2. \A x \in shown : \E i \in 1 .. n : ids[i] = x
        BY <2>3
      <4>3. \A i, j \in 1 .. n : ids[i] = ids[j] => i = j
        BY <2>3, <2>4 DEF SingleRows
      <4>4. ids = [i \in 1 .. n |-> ids[i]]
        OBVIOUS
      <4> HIDE DEF ids, shown
      <4>5. ids \in [1 .. n -> shown]
        BY <4>1, <4>4
      <4> QED BY <4>2, <4>3, <4>5 DEF Bijection, Injection, Surjection, IsInjective
    <3>2. IsFiniteSet(1 .. n) /\ Cardinality(1 .. n) = n
      BY <2>3, FS_Interval
    <3> HIDE DEF ids, shown, n
    <3>3. Cardinality(shown) = Cardinality(1 .. n)
      BY <3>1, <3>2, FS_Bijection DEF ExistsBijection
    <3> QED BY <3>2, <3>3
  <2>6. ASSUME NEW t \in history.settled, client.filter \in {Everything, store.tx[t].category}
        PROVE  t \in shown \/ (client.older /\ Before(Row(t, store.tx[t]), list[1]))
    <3>1. t \in Wanted /\ t \in Tx
      BY <2>1, <2>6 DEF Wanted, TypeOK
    <3>2. Row(t, store.tx[t]).day \in Days
      BY <2>1, <3>1, RowOfTx, PlacesAreNumbers
    <3>3. Reached(client.cursor, t)
      BY <2>2, <3>2, NothingAfterEnd DEF Reached
    <3>4. Shows(list, t) \/ (client.older /\ Before(Row(t, store.tx[t]), list[1]))
      BY <2>1, <2>2, <3>1, <3>3 DEF ListHolds
    <3> QED BY <3>4 DEF Shows
  <2> QED BY <2>5, <2>6 DEF AtEnd
<1> QED BY <1>1, FeedIsSound, PTL

\* Under a filter the list shows only transactions that were of it; with
\* nothing on its way each row is its transaction as it was at some time, and
\* not before a change the person was told is saved
\* (transaction-feed.tsx:134, 159-173, 545-590).
THEOREM ListStaysTrue == Spec => []ListIsTrue
<1>1. FeedInv => ListIsTrue
  <2> SUFFICES ASSUME FeedInv PROVE ListIsTrue
    OBVIOUS
  <2>1. ListHolds
    BY DEF FeedInv
  <2>2. ShownForFilter
    BY <2>1 DEF ListHolds, ShownForFilter, OfFilter
  <2>3. ConfirmedIsShown
    BY <2>1 DEF ListHolds, ConfirmedIsShown, AsTold
  <2> QED BY <2>2, <2>3 DEF ListIsTrue
<1> QED BY <1>1, FeedIsSound, PTL

\* A category a person chose is not replaced by the bank's or a rule's,
\* whatever is sent of the transaction later (plaid.service.ts:2299-2337).
THEOREM UserCategoryIsKept == Spec => UserCategoryStays
<1>1. FeedInv /\ [Next]_vars => [\A t \in Tx : store.tx[t].source = "user" => store'.tx[t].source = "user"]_store
  BY StepKeeps DEF UserStays, vars
<1> QED BY <1>1, FeedIsSound, PTL DEF Spec, UserCategoryStays
=============================================================================
