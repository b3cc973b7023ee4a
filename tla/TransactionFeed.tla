-------------------------- MODULE TransactionFeed --------------------------
(***************************************************************************)
(* The transaction feed: the pages the API lists and the changes it makes  *)
(* to a transaction and its category (core.service.ts 154-362, 751-1118),  *)
(* the bank's writes to both (plaid.service.ts 2124-2435), and the list a  *)
(* person scrolls through and edits                                        *)
(* (src/components/transaction-feed.tsx).                                  *)
(*                                                                         *)
(* Transactions are numbered in the order of their identifiers and are all *)
(* of one merchant.  The list is ordered by day and identifier, newest     *)
(* first; a page is one statement of the API.  Answers arrive in any       *)
(* order, late, or not at all; other sessions and the bank write           *)
(* meanwhile.                                                              *)
(***************************************************************************)
EXTENDS Integers, Sequences, SequencesExt, FiniteSets

CONSTANTS
  Worlds,      \* what one history has: see FeedAssumption
  MaxTx,       \* bound on transactions
  PageSize,    \* transactions on a page
  Window,      \* transactions the client keeps
  MaxLoads     \* bound on the pages asked for

Tx == 1 .. MaxTx
Days == 0 .. 999
Categories == {"food", "travel"}
Everything == "all"
Filters == Categories \cup {Everything}
Load == 1 .. MaxLoads

\* days: the day of each transaction; manual: those a person recorded; late:
\* those that are not there at first; kinds: what happens.  The others are
\* bounds: of the changes made elsewhere, of the changes made here, of the
\* times the workspace is loaded again, and of pages asked for.  A page is
\* shorter than what the client keeps (transaction-feed.tsx:146, 168).
ASSUME FeedAssumption ==
  /\ {PageSize, Window} \subseteq Nat \ {0} /\ {MaxTx, MaxLoads} \subseteq Nat
  /\ PageSize <= Window
  /\ \A w \in Worlds :
       /\ w.days \in Seq(Days) /\ Len(w.days) <= MaxTx
       /\ w.manual \cup w.late \subseteq DOMAIN w.days
       /\ w.kinds \subseteq {"bank", "elsewhere", "rule", "filter", "categorize", "edit", "void"}
       /\ {w.changes, w.edits, w.refreshes} \subseteq Nat /\ w.loads \in Load

VARIABLES
  world,   \* what this history has
  store,   \* transactions with their categories, and the merchant's rule
  loads,   \* pages asked for, numbered in the order of the requests
  client,  \* the list, its filter and the open transaction
  saving,  \* the change on its way, with its answer
  bounds,  \* changes, edits and refreshes so far
  history  \* history: each transaction's versions, those that have stayed as
           \* they were since the list was last started, and what the person
           \* was told is saved

vars == <<world, store, loads, client, saving, bounds, history>>

(***************************************************************************)
(* The API                                                                 *)
(***************************************************************************)
Row(t, r) ==
  [id |-> t, day |-> r.day, category |-> r.category, source |-> r.source,
   version |-> r.version, categoryVersion |-> r.categoryVersion]

\* The order of the feed: newest day first, then the greater identifier.
Before(a, b) == a.day > b.day \/ (a.day = b.day /\ a.id > b.id)

Start == [day |-> 1000, id |-> 0]
End == [day |-> -1, id |-> 0]

\* Mutant: a page begins after the day of the cursor.
AfterDay(cursor, row) == cursor.day > row.day

AfterCursor(cursor, row) == Before(cursor, row)

Listed(cursor, filter) ==
  {row \in {Row(t, store.tx[t]) : t \in {u \in Tx : store.tx[u].there}} :
     /\ AfterCursor(cursor, row)
     /\ filter \in {Everything, row.category}}

InOrder(S) ==
  [i \in 1 .. Cardinality(S) |-> CHOOSE row \in S : Cardinality({r \in S : Before(r, row)}) = i - 1]

\* One row more than the page decides whether there is a next one.
Page(listed) ==
  LET rows == InOrder(listed)
      shown == SubSeq(rows, 1, IF Len(rows) < PageSize THEN Len(rows) ELSE PageSize)
  IN [rows |-> shown,
      next |-> IF Len(rows) > PageSize
               THEN [day |-> Last(shown).day, id |-> Last(shown).id] ELSE End]

\* A write of the store: what was listed before and is not listed as it was
\* has changed.
Wrote(s) ==
  /\ store' = s
  /\ history' =
       [history EXCEPT
          !.versions = [t \in Tx |-> @[t] \cup {Row(t, s.tx[t])}],
          !.settled = {t \in @ :
            s.tx[t].there = store.tx[t].there /\ s.tx[t].day = store.tx[t].day
            /\ s.tx[t].category = store.tx[t].category}]

Categorized(r, category, source) ==
  [r EXCEPT !.category = category, !.source = source, !.categoryVersion = @ + 1]

\* The rule of the merchant as it is written: made, taken up again or not there.
RuleFor(rule, there, category) == [there |-> there, category |-> category, version |-> rule.version + 1]

UpdateTransactionCategory(c) ==
  /\ store.tx[c.id].categoryVersion = c.categoryVersion
  /\ Wrote([tx |-> [store.tx EXCEPT ![c.id] = Categorized(@, c.category, "user")],
            rule |-> IF c.future THEN RuleFor(store.rule, TRUE, c.category) ELSE store.rule])

\* A category that is the user's already keeps its version.
SetManualCategory(r, category) ==
  IF r.category = category /\ r.source = "user" THEN r ELSE Categorized(r, category, "user")

UpdateManualTransaction(c) ==
  LET r == store.tx[c.id]
  IN /\ r.version = c.version /\ r.categoryVersion = c.categoryVersion
     /\ r.manual /\ r.there
     /\ Wrote([store EXCEPT !.tx[c.id] =
          [SetManualCategory(r, c.category) EXCEPT !.day = c.day, !.version = @ + 1]])

Removed(r, there) == [r EXCEPT !.there = there, !.version = @ + 1]

\* What is void already is void.
VoidManualTransaction(c) ==
  LET r == store.tx[c.id]
  IN /\ r.version = c.version /\ r.manual
     /\ Wrote(IF r.there THEN [store EXCEPT !.tx[c.id] = Removed(r, FALSE)] ELSE store)

UpdateMerchantCategoryRule(category) ==
  store.rule.there /\ Wrote([store EXCEPT !.rule = RuleFor(@, TRUE, category)])

DeleteMerchantCategoryRule ==
  store.rule.there /\ Wrote([store EXCEPT !.rule = RuleFor(@, FALSE, @.category)])

(***************************************************************************)
(* The bank and other sessions                                             *)
(***************************************************************************)
Assigned(r, category) ==
  IF store.rule.there
  THEN [r EXCEPT !.category = store.rule.category, !.source = "merchant_rule", !.categoryVersion = 1]
  ELSE [r EXCEPT !.category = category, !.source = "provider", !.categoryVersion = 1]

\* Mutant: the bank's category replaces every other.
ReassignedAlways(r, category) ==
  IF r.category = category THEN r ELSE Categorized(r, category, "provider")

\* Only a category of the bank's own follows the bank.
Reassigned(r, category) ==
  IF r.source \in {"user", "merchant_rule"} \/ r.category = category THEN r
  ELSE Categorized(r, category, "provider")

Ingested(r, day, category) ==
  [(IF r.categoryVersion = 0 THEN Assigned(r, category) ELSE Reassigned(r, category)) EXCEPT
     !.there = TRUE, !.day = day, !.version = @ + 1]

IngestTransaction(t, day, category) ==
  /\ t \in DOMAIN world.days /\ ~store.tx[t].manual
  /\ Wrote([store EXCEPT !.tx[t] = Ingested(@, day, category)])

\* A purchase has two records, pending and posted: it stays in the feed when
\* the one that is removed leaves the other.
RemoveTransaction(t, other) ==
  /\ store.tx[t].there /\ ~store.tx[t].manual
  /\ Wrote([store EXCEPT !.tx[t] = Removed(@, other)])

\* Another session's change, made for the transaction as it is.
ChangeElsewhere(t, category) ==
  /\ store.tx[t].there /\ store.tx[t].category # category
  /\ Wrote([store EXCEPT !.tx[t] = Categorized(@, category, "user")])

Change ==
  /\ bounds.changes < world.changes /\ bounds' = [bounds EXCEPT !.changes = @ + 1]
  /\ \/ "bank" \in world.kinds /\ \E t \in Tx :
          \/ \E day \in Range(world.days), c \in Categories : IngestTransaction(t, day, c)
          \/ \E other \in BOOLEAN : RemoveTransaction(t, other)
     \/ "elsewhere" \in world.kinds /\ \E t \in Tx, c \in Categories : ChangeElsewhere(t, c)
     \/ /\ "rule" \in world.kinds
        /\ DeleteMerchantCategoryRule \/ \E c \in Categories : UpdateMerchantCategoryRule(c)
  /\ UNCHANGED <<world, loads, client, saving>>

(***************************************************************************)
(* The list                                                                *)
(***************************************************************************)
Nowhere == [day |-> -2, id |-> 0]   \* no page has failed
Finished == [next |-> Nowhere, filter |-> Everything, base |-> <<>>, state |-> "ended",
             rows |-> <<>>, after |-> Nowhere]
NoRow == [id |-> 0]
NoChange == [kind |-> "none", change |-> NoRow, state |-> "none"]

\* Asking for the first page empties the list; a later page is joined to the
\* list as it is when it is asked for.
Asked(c, next) ==
  IF next = Start
  THEN [c EXCEPT !.current = Len(loads) + 1, !.failed = Nowhere,
                 !.list = <<>>, !.cursor = End, !.older = FALSE]
  ELSE [c EXCEPT !.current = Len(loads) + 1, !.failed = Nowhere]

Settled(next) ==
  IF next = Start
  THEN [history EXCEPT !.settled = {t \in Tx : store.tx[t].there}] ELSE history

LoadPage(c, next) ==
  /\ Len(loads) < world.loads
  /\ loads' = Append(loads, [next |-> next, filter |-> c.filter,
       base |-> IF next = Start THEN <<>> ELSE c.list, state |-> "asked",
       rows |-> <<>>, after |-> Nowhere])
  /\ client' = Asked(c, next)
  /\ history' = Settled(next)

\* Load older, Try again and Back to newest.
LoadOlder ==
  /\ client.online /\ client.cursor # End /\ client.current = 0
  /\ LoadPage(client, client.cursor)
  /\ UNCHANGED <<world, store, saving, bounds>>

TryAgain ==
  /\ client.online /\ client.failed # Nowhere /\ LoadPage(client, client.failed)
  /\ UNCHANGED <<world, store, saving, bounds>>

BackToNewest ==
  /\ client.online /\ client.older /\ LoadPage(client, Start)
  /\ UNCHANGED <<world, store, saving, bounds>>

\* Offline the filter is applied to what is cached.
SetFilter(filter) ==
  /\ "filter" \in world.kinds /\ filter # client.filter
  /\ IF client.online THEN LoadPage([client EXCEPT !.filter = filter], Start)
     ELSE /\ client' = [client EXCEPT !.filter = filter]
          /\ UNCHANGED <<loads, history>>
  /\ UNCHANGED <<world, store, saving, bounds>>

Answered(load, page) ==
  [load EXCEPT !.state = "answered", !.rows = page.rows, !.after = page.next]

ListTransactions(l) ==
  /\ loads[l].state = "asked"
  /\ loads' = [loads EXCEPT ![l] = Answered(@, Page(Listed(@.next, @.filter)))]
  /\ UNCHANGED <<world, store, client, saving, bounds, history>>

\* Mutant: every answer is taken, the last asked for or not.
CountsAlways(l) == TRUE

Counts(l) == client.current = l

Joined(base, rows) ==
  base \o InOrder({row \in Range(rows) : \A i \in DOMAIN base : base[i].id # row.id})

Newest(list) ==
  SubSeq(list, IF Len(list) > Window THEN Len(list) - Window + 1 ELSE 1, Len(list))

ReceivePage(l) ==
  /\ loads[l].state = "answered"
  /\ loads' = [loads EXCEPT ![l] = Finished]
  /\ LET list == Joined(loads[l].base, loads[l].rows)
     IN client' = IF ~Counts(l) THEN client
          ELSE [client EXCEPT !.list = Newest(list), !.cursor = loads[l].after,
                  !.older = loads[l].next # Start /\ (@ \/ Len(list) > Window),
                  !.current = 0, !.failed = Nowhere]
  /\ UNCHANGED <<world, store, saving, bounds, history>>

LosePage(l) ==
  /\ loads[l].state \in {"asked", "answered"}
  /\ loads' = [loads EXCEPT ![l] = Finished]
  /\ client' = IF ~Counts(l) THEN client
               ELSE [client EXCEPT !.current = 0, !.failed = loads[l].next]
  /\ UNCHANGED <<world, store, saving, bounds, history>>

(***************************************************************************)
(* The workspace, loaded again beside the list: a new one starts the list  *)
(* again, and without one the list is offline.                             *)
(***************************************************************************)
AskWorkspace ==
  /\ bounds.refreshes < world.refreshes /\ bounds' = [bounds EXCEPT !.refreshes = @ + 1]
  /\ client' = [client EXCEPT !.refresh = TRUE]
  /\ UNCHANGED <<world, store, loads, saving, history>>

ReceiveWorkspace ==
  /\ client.refresh
  /\ LoadPage([client EXCEPT !.refresh = FALSE, !.online = TRUE], Start)
  /\ UNCHANGED <<world, store, saving, bounds>>

\* What is cached is listed as it was when the workspace was last loaded;
\* here, as it is.
Cached == InOrder({Row(t, store.tx[t]) : t \in {u \in Tx : store.tx[u].there}})

LoseWorkspace ==
  /\ client.refresh
  /\ client' = [client EXCEPT !.refresh = FALSE, !.online = FALSE, !.current = 0,
                  !.list = Cached, !.cursor = End, !.older = FALSE, !.failed = Nowhere]
  /\ UNCHANGED <<world, store, loads, saving, bounds, history>>

(***************************************************************************)
(* One transaction, opened and changed as it was listed when it was opened *)
(***************************************************************************)
OpenTransaction(i) ==
  /\ client.open = NoRow /\ saving.kind = "none" /\ bounds.edits < world.edits
  /\ client' = [client EXCEPT !.open = client.list[i]]
  /\ UNCHANGED <<world, store, loads, saving, bounds, history>>

CloseDetail ==
  /\ client.open # NoRow /\ saving.kind = "none"
  /\ client' = [client EXCEPT !.open = NoRow]
  /\ UNCHANGED <<world, store, loads, saving, bounds, history>>

Save(kind, category, day, future) ==
  /\ client.online /\ client.open # NoRow /\ saving.kind = "none"
  /\ bounds.edits < world.edits /\ bounds' = [bounds EXCEPT !.edits = @ + 1]
  /\ saving' = [kind |-> kind, state |-> "asked",
       change |-> [id |-> client.open.id, category |-> category, day |-> day, future |-> future,
                   version |-> client.open.version,
                   categoryVersion |-> client.open.categoryVersion]]
  /\ UNCHANGED <<world, store, loads, client, history>>

\* Only what a person recorded is edited or removed.
SaveCategory == \E category \in Categories, future \in BOOLEAN :
  /\ "categorize" \in world.kinds /\ client.open # NoRow
  /\ category # client.open.category \/ future
  /\ Save("category", category, client.open.day, future)

SaveEdit == \E category \in Categories, day \in Range(world.days) :
  /\ "edit" \in world.kinds /\ client.open # NoRow
  /\ client.open.id \in world.manual /\ Save("edit", category, day, FALSE)

SaveVoid ==
  /\ "void" \in world.kinds /\ client.open # NoRow /\ client.open.id \in world.manual
  /\ Save("void", client.open.category, client.open.day, FALSE)

Handled(kind, change) ==
  \/ kind = "category" /\ UpdateTransactionCategory(change)
  \/ kind = "edit" /\ UpdateManualTransaction(change)
  \/ kind = "void" /\ VoidManualTransaction(change)

Handle ==
  /\ saving.state = "asked" /\ Handled(saving.kind, saving.change)
  /\ saving' = [saving EXCEPT !.state = "done"]
  /\ UNCHANGED <<world, loads, client, bounds>>

\* The row as the client changes it: a category counts on from the row that
\* was opened, an edit from the row that is listed now.
ShownSaved(row, change) ==
  [row EXCEPT !.category = change.category, !.source = "user",
              !.categoryVersion = change.categoryVersion + 1]

ShownEdited(row, change) ==
  [row EXCEPT !.category = change.category, !.source = "user", !.day = change.day,
     !.version = @ + 1,
     !.categoryVersion =
       IF row.category = change.category /\ row.source = "user" THEN @ ELSE @ + 1]

\* A transaction is listed once (SingleRows below).
ShownVoided(list, change) ==
  LET at == {i \in DOMAIN list : list[i].id = change.id}
  IN  IF at = {} THEN list ELSE RemoveAt(list, CHOOSE i \in at : TRUE)

ShownAfter(kind, change) ==
  LET shown(row) == IF row.id # change.id THEN row
                    ELSE IF kind = "category" THEN ShownSaved(row, change)
                    ELSE ShownEdited(row, change)
  IN IF kind = "void" THEN ShownVoided(client.list, change)
     ELSE [i \in DOMAIN client.list |-> shown(client.list[i])]

Confirmed(kind, change) ==
  [client EXCEPT !.list = ShownAfter(kind, change), !.open = NoRow, !.refresh = TRUE]

\* The least a listed row may say of a transaction whose change was confirmed.
Known(kind, change) ==
  [history EXCEPT !.known[change.id] =
    [version |-> IF kind = "category" THEN @.version ELSE change.version + 1,
     categoryVersion |-> change.categoryVersion + (IF kind = "category" THEN 1 ELSE 0),
     void |-> kind = "void"]]

ReceiveSaved ==
  /\ saving.state = "done"
  /\ client' = Confirmed(saving.kind, saving.change)
  /\ history' = Known(saving.kind, saving.change)
  /\ saving' = NoChange
  /\ UNCHANGED <<world, store, loads, bounds>>

\* Refused, or the request or its answer is lost: the transaction stays open.
LoseSaved ==
  /\ saving.kind # "none"
  /\ saving' = NoChange
  /\ UNCHANGED <<world, store, loads, client, bounds, history>>

(***************************************************************************)
(* Specification                                                           *)
(***************************************************************************)
InitialTx(w, t) ==
  LET there == t \in DOMAIN w.days \ w.late
  IN [there |-> there, manual |-> t \in w.manual,
      day |-> IF t \in DOMAIN w.days THEN w.days[t] ELSE 0,
      category |-> "food", source |-> IF t \in w.manual THEN "user" ELSE "provider",
      version |-> 1, categoryVersion |-> IF there THEN 1 ELSE 0]

Init ==
  \E w \in Worlds :
    /\ world = w
    /\ store = [tx |-> [t \in Tx |-> InitialTx(w, t)],
                rule |-> [there |-> FALSE, category |-> "food", version |-> 0]]
    /\ loads = <<[Finished EXCEPT !.next = Start, !.state = "asked"]>>
    /\ client = [list |-> <<>>, filter |-> Everything, cursor |-> End, older |-> FALSE,
                 current |-> 1, failed |-> Nowhere, online |-> TRUE, refresh |-> FALSE,
                 open |-> NoRow]
    /\ saving = NoChange
    /\ bounds = [changes |-> 0, edits |-> 0, refreshes |-> 0]
    /\ history = [versions |-> [t \in Tx |-> {Row(t, InitialTx(w, t))}],
                  settled |-> DOMAIN w.days \ w.late,
                  known |-> [t \in Tx |-> [version |-> 0, categoryVersion |-> 0, void |-> FALSE]]]

Next ==
  \/ Change
  \/ LoadOlder \/ TryAgain \/ BackToNewest
  \/ \E filter \in Filters : SetFilter(filter)
  \/ \E l \in DOMAIN loads : ListTransactions(l) \/ ReceivePage(l) \/ LosePage(l)
  \/ AskWorkspace \/ ReceiveWorkspace \/ LoseWorkspace
  \/ \E i \in DOMAIN client.list : OpenTransaction(i)
  \/ CloseDetail \/ SaveCategory \/ SaveEdit \/ SaveVoid
  \/ Handle \/ ReceiveSaved \/ LoseSaved

Spec == Init /\ [][Next]_vars

(***************************************************************************)
(* Properties                                                              *)
(***************************************************************************)
Sources == {"provider", "merchant_rule", "user"}
RowType == [id : Tx, day : Days, category : Categories, source : Sources, version : Nat, categoryVersion : Nat]
Cursor == {End} \cup [day : Days, id : Tx]
ChangeType == [id : Tx, category : Categories, day : Days, future : BOOLEAN, version : Nat, categoryVersion : Nat]
Stored == [there : BOOLEAN, manual : BOOLEAN, day : Days, category : Categories, source : Sources,
           version : Nat, categoryVersion : Nat]

\* Rows, pages, changes and cursors are what the code makes of them.
TypeOK ==
  /\ world \in Worlds
  /\ store \in [tx : [Tx -> Stored], rule : [there : BOOLEAN, category : Categories, version : Nat]]
  /\ loads \in Seq([next : Cursor \cup {Start, Nowhere}, filter : Filters, base : Seq(RowType),
                   state : {"asked", "answered", "ended"}, rows : Seq(RowType), after : Cursor \cup {Nowhere}])
  /\ client \in [list : Seq(RowType), filter : Filters, cursor : Cursor, older : BOOLEAN, current : Nat,
                 failed : Cursor \cup {Start, Nowhere}, online : BOOLEAN, refresh : BOOLEAN,
                 open : RowType \cup {NoRow}]
  /\ saving \in [kind : {"none", "category", "edit", "void"}, change : ChangeType \cup {NoRow},
                 state : {"none", "asked", "done"}]
  /\ bounds \in [changes : Nat, edits : Nat, refreshes : Nat]
  /\ history \in [versions : [Tx -> SUBSET RowType], settled : SUBSET Tx,
                  known : [Tx -> [version : Nat, categoryVersion : Nat, void : BOOLEAN]]]

\* When the list says that its end is reached, it shows no transaction twice
\* and has shown every one that has stayed as it was since the list was
\* started, whatever was written between two pages: those missing are newer
\* than the part of the history the list then says it shows.  While the
\* workspace is loaded again, after which the list starts again, this may
\* fail, see EndHolds (core.service.ts:190-191, transaction-feed.tsx:160-173,
\* 456-460).
AtEnd ==
  LET list == client.list
      shown == {list[i].id : i \in DOMAIN list}
  IN  /\ Cardinality(shown) = Len(list)
      /\ \A t \in history.settled :
           client.filter \in {Everything, store.tx[t].category} =>
             t \in shown \/ (client.older /\ Before(Row(t, store.tx[t]), list[1]))
SaysEnd == client.online /\ client.current = 0 /\ client.cursor = End /\ client.list # <<>>
EndIsTheEnd == SaysEnd /\ ~client.refresh => AtEnd

\* Under a filter the list shows only transactions that were of it at some
\* time: the answer to an earlier filter, however late, is not shown under
\* the new one (transaction-feed.tsx:134, 159).
ShownForFilter ==
  client.online => \A i \in DOMAIN client.list :
    \/ client.filter = Everything
    \/ \E row \in history.versions[client.list[i].id] : row.category = client.filter

\* With nothing on its way, each row of the list is the transaction as it was
\* at some time, and not as it was before a change the person was told is
\* saved: what the client guessed of its own change, and a page joined to a
\* list of before the change, do not stay (transaction-feed.tsx:160-173,
\* 545-590).
ConfirmedIsShown ==
  client.online /\ client.current = 0 /\ ~client.refresh /\ saving = NoChange =>
    \A i \in DOMAIN client.list :
      LET row == client.list[i]  known == history.known[row.id]
      IN /\ row \in history.versions[row.id]
         /\ row.version >= known.version /\ row.categoryVersion >= known.categoryVersion
         /\ ~known.void

\* Both: what is listed belongs there and is as the person was told.
ListIsTrue == ShownForFilter /\ ConfirmedIsShown

\* A category a person chose is not replaced by the bank's or a rule's,
\* whatever the bank sends of the transaction later, removed and sent again
\* included (plaid.service.ts:2299-2337).
UserCategoryStays ==
  [][\A t \in Tx : store.tx[t].source = "user" => store'.tx[t].source = "user"]_store

(***************************************************************************)
(* What the properties rest on                                             *)
(***************************************************************************)
\* A transaction is recorded by hand or by the bank for good, and the bank
\* has written the first category of its own.
StoreHolds ==
  \A t \in Tx :
    /\ store.tx[t].manual <=> t \in world.manual
    /\ store.tx[t].source = "user" /\ ~store.tx[t].manual => store.tx[t].categoryVersion > 0
    /\ Row(t, store.tx[t]) \in history.versions[t]
    /\ t \in history.settled => store.tx[t].there

\* What the person was told is saved is stored, unless the transaction is one
\* he recorded and it is gone for good.
KnownHolds ==
  \A t \in Tx :
    LET known == history.known[t]  row == store.tx[t]
    IN  row.there \/ ~row.manual =>
          /\ known.version <= row.version /\ known.categoryVersion <= row.categoryVersion
          /\ ~known.void

\* So is what he will be told.
SavingHolds ==
  LET change == saving.change  row == store.tx[change.id]
  IN  /\ saving.kind = "none" => saving.state = "none"
      /\ saving.kind # "none" =>
           /\ change \in ChangeType
           /\ saving.kind # "category" => change.id \in world.manual
           /\ saving.state = "done" =>
                /\ saving.kind = "category" => change.categoryVersion < row.categoryVersion
                /\ saving.kind = "edit" =>
                     change.version < row.version /\ change.categoryVersion <= row.categoryVersion
                /\ saving.kind = "void" => ~row.there

SingleRows(list) == \A i, j \in DOMAIN list : list[i].id = list[j].id => i = j
Ordered(list) == \A i, j \in DOMAIN list : i < j => Before(list[i], list[j])
OfFilter(list, filter) ==
  filter = Everything \/ \A i \in DOMAIN list :
    \E row \in history.versions[list[i].id] : row.category = filter

\* Rows that were stored like this, and not before what is known.
AsTold(list) ==
  \A i \in DOMAIN list :
    LET row == list[i]  known == history.known[row.id]
    IN  /\ row \in history.versions[row.id]
        /\ row.version >= known.version /\ row.categoryVersion >= known.categoryVersion
        /\ ~known.void

\* A settled transaction is where it is listed.
AsSettled(list) ==
  \A i \in DOMAIN list : list[i].id \in history.settled => list[i].day = store.tx[list[i].id].day

\* The settled transactions the list is of.
Wanted == {t \in history.settled : client.filter \in {Everything, store.tx[t].category}}
Shows(list, t) == \E i \in DOMAIN list : list[i].id = t
Reached(cursor, t) == ~AfterCursor(cursor, Row(t, store.tx[t]))

\* The list shows what there is up to its cursor, but for what it has let go
\* of at its beginning.
ListHolds ==
  LET list == client.list
  IN  /\ SingleRows(list)
      /\ client.online =>
           /\ OfFilter(list, client.filter)
           /\ ~client.refresh =>
                /\ Ordered(list) /\ AsTold(list) /\ AsSettled(list)
                /\ \A i \in DOMAIN list : ~AfterCursor(client.cursor, list[i])
                /\ list = <<>> => ~client.older /\ client.cursor = End
                /\ client.failed \in {Nowhere, Start, client.cursor}
                /\ client.failed = Start => list = <<>>
                /\ list # <<>> => \A t \in Wanted : Reached(client.cursor, t) =>
                     Shows(list, t) \/ (client.older /\ Before(Row(t, store.tx[t]), list[1]))

\* A page on its way is the next one of the list, or the first.
PageHolds ==
  LET load == loads[client.current]
  IN  client.current # 0 =>
        /\ client.current \in DOMAIN loads
        /\ client.online /\ load.state # "ended" /\ load.filter = client.filter
        /\ load.next = Start => load.base = <<>> /\ client.list = <<>>
        /\ SingleRows(load.base) /\ OfFilter(load.base, load.filter)
        /\ ~client.refresh /\ load.next # Start => load.base = client.list /\ load.next = client.cursor

\* An answered page has every settled transaction from its cursor to the next.
AnswerHolds ==
  LET load == loads[client.current]  rows == load.rows
  IN  client.current # 0 /\ load.state = "answered" =>
        /\ SingleRows(rows) /\ OfFilter(rows, load.filter) /\ Ordered(rows) /\ AsSettled(rows)
        /\ ~client.refresh => AsTold(rows)
        /\ Len(rows) <= PageSize /\ load.after \in Cursor /\ (rows = <<>> => load.after = End)
        /\ \A i \in DOMAIN rows : AfterCursor(load.next, rows[i]) /\ ~AfterCursor(load.after, rows[i])
        /\ \A t \in Wanted : Reached(load.after, t) /\ ~Reached(load.next, t) => Shows(rows, t)

FeedInv == TypeOK /\ StoreHolds /\ KnownHolds /\ SavingHolds /\ ListHolds /\ PageHolds /\ AnswerHolds

(***************************************************************************)
(* What one could expect and the code does not keep                        *)
(***************************************************************************)
\* Refuted: the end is the end, even while the workspace is loaded again.  A
\* row whose day was edited stays at its place, the first one of the list too,
\* and those that the list has let go of may then be older than it
\* (transaction-feed.tsx:168, 562-580).
EndHolds == SaysEnd => AtEnd

\* Refuted: every row says how its transaction is or was.  A confirmed
\* category is put beside the version that was listed, which the bank may have
\* left behind, and an edit confirmed after the list was started again counts
\* on from the version that already has it (transaction-feed.tsx:545-583).
ShownIsReal ==
  client.online =>
    \A i \in DOMAIN client.list : client.list[i] \in history.versions[client.list[i].id]
=============================================================================
