# Budgefi in TLA+

A verification development of Budgefi: TLA+ modules of its concurrent and
durable parts, TLC configurations that check them on small instances, and
theorems about them that TLAPS checks for every instance.  Source references
are paths below `src/`; `033:725` is line 725 of the migration whose number is
033, and `plaid.service.ts` is `apps/api/src/plaid/plaid.service.ts`.

## 1. The system

Budgefi computes how much of a household's cash is safe to use.  Its state is
one PostgreSQL database; four kinds of process work on it.

| process | what it does | where |
| --- | --- | --- |
| API server | requests of signed-in users, webhooks of Plaid and Clerk; one transaction per request, some with calls to Plaid between transactions | `apps/api/src` |
| Plaid worker | scheduled; a maintenance call, then leases rows of `plaid_sync_jobs` and runs them with calls to Plaid | `apps/plaid-worker/src/main.ts`, `plaid.service.ts` |
| maintenance worker | scheduled; sweeps households, delivers notifications, finalises account deletions | `apps/worker/src/main.ts`, SQL functions in `migrations/` |
| client | web pages and native shells around one workspace state | `src/state/app-state.tsx` |

The processes share nothing but the database.  They meet in its tables: a
request or a webhook leaves a row that a worker leases later, and most of what
is hard is in the time between two transactions, when anything else may run,
a lease may pass, or the process may be lost.

### Components

| component | state | operations | what is hard | what makes it correct |
| --- | --- | --- | --- | --- |
| **Plaid sync and revocation queue** | `connections`, `plaid_sync_jobs`, `webhook_receipts`, ledger and cursor, the Item at Plaid | link, refresh, disconnect, update session, webhook, maintenance, claim, sync, revoke, retry | two workers hold one row after a lease passed; disconnect, webhook and sync of one connection race; calls whose answer is lost | the ledger is what the cursor says; the token outlives the Item; a revoked connection stays revoked; a row ends |
| **Available-cash alerts** | `calculation_snapshots`, `available_cash_alert_states`, `..._episodes`, preferences | persist and evaluate, change preferences, generate, claim | transactions ordered by their begin commit in another order; preferences are read before the lock | one current episode; no repeated alert without a rise; an alert goes out only if the last evaluation calls for it |
| **Notification delivery** | events, deliveries, endpoints, preferences, the occurrence | generate, claim and review, call the provider, finish | late workers, lost answers, an occurrence that changes while it is announced | a lease is kept, an ended delivery stays ended, every delivery ends |
| **Schedule maintenance** | `schedule_maintenance_jobs`, `plan_occurrences`, income schedules | claim, maintain, finish, back off; roll dates forward | a household that keeps failing, lost workers; dates listed by SQL and by TypeScript | a lease is kept, every household is taken up again and again; the plan has the dates of the rule |
| **Plan evidence** | occurrences, matches, goal movements, debt payments, rules | reconcile, link, unlink, correct, void, skip, record a balance, edit | evidence that changes after it was used | what is verified is paid, and consequences go with the evidence |
| **Plan entries** | accounts and roles, goals, the reserve, bills, debts, incomes | create, edit, pause, archive, restore, include, calibrate, connect, disconnect | commands and the bank's departure write one account, one bill, one sum from several sides | the reserve is what the goals contribute; roles go back; no bill without a reason; decisions stand |
| **Mutation protocol, client workspace** | idempotency records, versions, `data_revision`; screen, queue, drafts | command, bootstrap, reload, poll, save a form, restart | answers out of order, lost or for a request that comes twice | one effect per request, a screen of one revision, no saved edit lost from it, a queue that drains |
| **Pay-cycle history** | planning periods, boundaries with evidence, cycles, reports | persist, correct, open, record | paydays that come, go and return after cycles were closed | cycles follow paydays, reports follow the ledger, cash is explained |
| **Account deletion, Clerk identities** | deletion requests, memberships, identities | request, claim, delete identity, finalise, `user.deleted` | successors, an identity deleted before the data, the revocations it waits for | erased data grants nothing, the household keeps an owner, departures end |
| **Link sessions and exchange** | `plaid_link_sessions`, connections, Items | start, redirect, exchange, retry, compensate, give up | an exchange repeated beside itself, a compensating removal | a connection in use has its Item, a session ends once |
| **Transaction feed** | transactions, categories, a merchant's rule; pages, filter, edits | list, filter, open, edit, void, bank updates | pages answered out of order while rows change | the end is the end, a row is as it was told, a user's category stays |
| Household locks | row locks, advisory locks 7241 and 7242 | all transactions | two orders of locking | no deadlock |
| quiet hours, recurrence detection, debt and money | none (computations) | | dates and boundaries | agreement with a reference definition |
| exception cases, insights, tenancy, encryption, contracts, pages, deployment | | | | section 8 |

`PROJECT.json` lists the same components with their files, and every hazard
with its line and the properties that cover it.

### How the modelled components meet

    pages <--> workspace, feed <--> commands of the API        (Workspace, TransactionFeed)
                                       |
                                       v
     [accounts, goals, bills, debts, incomes]                               (PlanLedger)
                    |                          bank <--> Plaid worker         (PlaidSync)
                    v                                    |
     [plan_occurrences, matches] <--- transactions, balances --+           (PlanEvidence)
                    |
                    +--> [cycles, reports]                                   (PayCycles)
                    +--> [snapshots, alert state, episodes]                  (CashAlert)
                    |               |
                    v               v  episodes and occurrences become events
                          [events, deliveries] <--> maintenance worker <--> APNs, e-mail
                    ^                                              (NotificationDelivery)
                    |  dates roll forward
     [schedule_maintenance_jobs]  (ScheduleMaintenance, extended by PlanMaintenance)

    link sessions --> [connections] --> revocation --> deletion of accounts  (Lifecycle)

Two modules are composed by extension: `PlanMaintenance` adds the plan of a
household to the leases of `ScheduleMaintenance` and takes its dates from
`Calendar`; its actions are conjunctions with those of the sweep.  The others meet at a table,
which one of them writes and the other has as an environment: a revision of an
occurrence is a step of the environment in `NotificationDelivery` and a command in
`PlanEvidence`; the revocation that `PlaidSync` has step by step is in `Lifecycle` one action that
succeeds and one that fails for good; "disconnect" is a command of `PlanLedger` because of what it does to
accounts and goals.

## 2. Modules

| module | models |
| --- | --- |
| `LedgerReplica` | abstract: what a bank connection promises |
| `PlaidSync` | the queue of syncs and revocations; implements `LedgerReplica` |
| `PlaidHistories` | the same queue in histories of two kinds: anything happens, or nobody ends a connection |
| `PlaidSyncProofs` | theorems about both: the ledger, the token, the refinement, rows and revocations, links to the same accounts |
| `CashAlert` | the alert of one user, from snapshot to delivery |
| `CashAlertProofs` | theorems about it: the order of episodes, what a claim follows |
| `NotificationDelivery` | the reminder of one occurrence, from event to provider |
| `NotificationDeliveryProofs` | theorems about it: leases, ends, acceptance |
| `ScheduleMaintenance` | the sweep over households |
| `Calendar` | dates of rules and paydays, in TypeScript and in SQL |
| `PlanMaintenance` | the sweep with what it does to a plan, against edits and deposits |
| `MaintenanceProofs` | theorems about both: leases, and that the one implements the other |
| `PlanEvidence` | transactions as evidence for what was planned |
| `PlanLedger` | what is planned, and the accounts it rests on |
| `PlanLedgerProofs` | theorems about it: the reserve, roles, bills, decisions |
| `Workspace` | the client's screen, queue and forms, and the protocol of the API |
| `WorkspaceProofs` | theorems about it: revisions, saved commands, one effect |
| `PayCycles` | paydays, cycles and their reports |
| `Lifecycle` | links to a bank, and deletions of accounts |
| `LifecycleProofs` | theorems about it: departures, exchanges |
| `TransactionFeed` | the list of transactions, its pages and edits |
| `TransactionFeedProofs` | theorems about it: the end of the list, its rows, a user's category |
| `MC...` | the histories TLC explores, symmetry and small sets |

Everywhere **a PostgreSQL transaction is one action**, since the code relies on
its row and advisory locks for that; what a process holds in memory between two
transactions is a variable of its own (`worker`, `writer`, `saving`, `client`), and
every `await` between them is a place where others run.  Many modules have a
variable `world`, chosen in `Init` and never changed: it bounds a history to one
question (which rules there are, which commands are given), so that one run
covers several histories that would be too large together.

### PlaidSync

*State.*  `status`, `token`, `cursor`, `initial` and `account` are columns of
the connection and of its account (one account stands for those of a
connection); `jobs` is `plaid_sync_jobs`; `receipts` is the table of webhook
bodies already taken; `session` the update-mode Link session.  `worker` is the
memory of a run of `processNextJob`: the row, the attempts it read, the cursor
it loaded and the one it fetched, the error it caught.  `item` and `feed` are
Plaid's side; `applied` counts the updates folded into the ledger.

*Actions.*  Requests: `Link`, `RequestSync`, `Disconnect`, `SetInclusion`,
`StartUpdate`/`StoreUpdateSession`/`CompleteUpdate`/`ExpireUpdate` (a call to
Plaid lies between the first two), `RequestDeletion`.  `Webhook` is
`ingest_verified_plaid_webhook` (021:69-152), `Maintain` is `schedule_plaid_maintenance`.
A worker goes `Claim` - `Load` - `Fetch` or `RemoveItem` - `CommitSync`,
`CommitAccounts` or `FinalizeRevocation` - `FinishJob`; an error at any of these
leads to `RetryOrDeadLetter`.  `StepFails` is an error of the database,
`Crash` the loss of the process, `TimePasses` the end of a backoff or lease.

*Abstractions.*  The order of claims (priority, then time) is left open.  Backoff
and lease are one bit, `due`.  Attempts saturate at `MaxAttempts`.  A slot of
`Row` stands for a later row once its row has ended and nobody holds it.  The
exchange of a public token is the one action `Link`.  Sync runs and the
processing status of receipts, which nothing reads, are left out.  Plaid does
not take back "initial update complete".  `queueRevocationRetry`
(plaid.service.ts:1101) has no caller and no action.

*Histories.*  `PlaidHistories` adds the choice of a kind of history, "any" or
"undisturbed": in the second nobody disconnects, deletes the household or revokes the
permission at the bank, so what ends was retired by a sync as a duplicate
(`resolveDuplicatePlaidItem`).  Everything else happens there too.  `MCSpec` of
`MCPlaidQueue` takes the steps of two workers from the first kind and of two links
from the second.

### CashAlert

*State.*  `clock` hands each planning transaction the instant of its BEGIN,
which is what `now()` yields and what orders evaluations.  `plan` is what the
projection is computed from; `snapshots` the rows of `calculation_snapshots`,
found again by the fingerprint of their inputs; `alert`, `episodes` and
`preference` are the rows of the user.  An episode has one delivery, which
stands for those to all its targets.

*Actions.*  `Begin`, `Compute` (reads the plan and the preferences, takes the
advisory lock: at most one transaction is past it), `PersistSnapshot` (inserts
or finds the snapshot and evaluates, 035:162-225), `Rollback`.
`BeginUpdatePreferences`/`CommitUpdatePreferences` are the transaction of
`updatePreferences`, whose statements see the rows committed before each of
them.  `Age` makes an observation old (36 hours, 7 days for manual ones),
`GraceEnds` is the 24 hours after a change of the user's own.  `Generate`,
`Claim`, `Finish` are the worker's.  `rearmed` is a history variable.

### NotificationDelivery

*State.*  `occurrence` has its version and whether it is still due (`expected`
stands for the states expected and partial); a delivery has its state, whether
`available_at` or the lease has passed, and its attempts.  Each claim counts an
attempt and writes a new lease token, so the number of attempts stands for the
token, and `HoldsLease` is the comparison in `finish_notification_delivery`.
`accepted` is what the provider has taken, which the database does not know.

*Actions.*  `Generate`, `Claim` (the whole review of 035:269-330, then one lease),
`ProviderAccepts`/`ProviderRefuses` (an answer may be lost after the provider
accepted), `DisableRefused`, `Finish`, `FinishThrows` (the call that writes
"sent" throws before or after its commit, and the catch block goes on),
`Crash`, the user's changes, `TimePasses`, `Elapse`.

### ScheduleMaintenance and PlanMaintenance

*State.*  `due` is the sequence of unleased jobs whose time has come, in the
order of `available_at`; `job` the lease and the attempts; `worker` the loop of
`sweep` in the maintenance worker.  The process stands for its lease token: it holds one
claim at a time and forgets it when it ends.  Attempts saturate.  In
`PlanMaintenance`, `first` is the date of one rule (a bill or a contribution),
`terms` its name and amount, `payday` the date of one income, `rows` the occurrences
of the rule and `today` the date in the household's zone.

*Actions.*  `StartSweep`, `Claim`, `Finish`, `MaintenanceFails` and
`FinishFailed` (the catch block), `FinishThrows` (the catch block's own call
fails), `EndSweep` (deadline or limit), `Restart` (Cloud Scheduler, outside the
code), `Crash`, `Expire`, `BecomeDue`, `Delete`.  `HandBack` is a `Finish` whose
four maintenance calls went through; a failure or a loss may come after some of
them, since each is a transaction of its own (`MaintainPartly`).  `SaveRule` is the
edit of a rule through the API, which lists the dates with its own loop and keeps,
replaces or adds a row for each, by the name and amount of the row it finds for the
date (`EffectOf`; of several rows of the lowest version any may be found),
`MarkNotDue` the user's refusal of one item, `ReceiveIncome` a verified deposit,
`NextDay` the passing of days.

*Abstractions.*  Dates are day numbers from 1 January 2022.  `Calendar` has the
loops of `schedule.ts`, `horizon.ts` and `core.service.ts` as folds and the SQL's
index arithmetic beside them.  The limit of 240 steps of the loop is a constant.
Name and amount are one value, which edits compare; payments are in `PlanEvidence`.

### PlanEvidence

*State.*  `rule` (commitments, goals, income schedules), `occ`
(`plan_occurrences` in the order of insertion), `match` (of the rows of one pair
the last, which alone can be active), the transactions that `arrived`, are `live`
(posted, not voided or removed) and are `covered` (a later balance of their account
was recorded), goal `movement`s and debt `proof`s.

*Actions.*  `PlaidSync` (a page of additions and removals with its balance),
`AddManualTransaction`, `LinkTransactionToOccurrence`, `UnlinkTransactionFromOccurrence`,
`UpdateManualTransaction`, `VoidManualTransaction`, `SaveManualBalance`,
`SkipPlanOccurrence`, `EditRule`.  Each ends as the code does: synchronise the
occurrences, propose and confirm matches, verify what a balance covers, reverse
what has lost its evidence, settle, book and advance.  A step of a handler is an
operator from tables to tables; one that breaks a constraint of the schema clears
`ok`, and the action is not taken (the transaction is rolled back).

*Abstractions.*  Amounts are 0 to 3, dates day numbers; the score of a candidate
is reduced to its classes.

### PlanLedger

*State.*  The bank `connection`, each `account` with its planning role, `goal`,
`planned` (the reserve), `income`, `bill`, `debt`, starter `application`s, pending
inclusions `asked`.  `own` and `overtaken` are history.

*Actions.*  Accounts: create, rename, archive, restore, role, inclusion (two
transactions, without the planning lock, so two actions), manual mode.  Savings,
incomes, bills and debts: create, edit, pause, complete, archive, restore, calibrate,
starters.  Bank: reported, lost and returning accounts, liabilities, disconnect,
reconnect.  A command refused for its version changes nothing, so actions are the accepted
commands, and versions are kept only where they are compared later.

### Workspace

*State.*  `store` (a revision and rows, each by its version), `recorded`
(idempotency records), `wire` (requests not yet executed), `reads` (a bootstrap in
progress reads its revision first and its rows later), `ui` (screen, status, queue,
sequence numbers, open form; `body`: the headers of the queue's answer are there and
its body is awaited; `heard`, history: a bootstrap of the API has come since the client
started), `copy` (the native shell's), `stored` (the draft of
onboarding).

*Actions.*  `Click` and `SaveDraft` queue a mutation, `Send` takes its head,
`Execute` is the API's transaction (replay, conflict or effect), then the headers
(`ReceiveHeaders`), the answer or its loss, the reconciliation after a loss; `Reload`,
`Poll` with their reads in two steps; `FailLinkToken`, which declares connected whatever
is shown; `EditElsewhere` and the worker's writes; restarts.

*Abstractions.*  One command of each kind of check stands for the commands of the
core API.  What is read is a plan version, a goal version and bills.

### PayCycles

*State.*  The ledger (`txs`, `matches`, `occs`, `moves`, recorded balances, roles),
the `plan`, and the history: `periods`, `boundaries` and their `evidence`, `cycles`,
`reports`.  `failed` says that the last command broke a constraint and was rolled back.

*Actions.*  A command that touches what a report is computed from ends in
`persistSnapshot`, so each is a change of the ledger followed by period, boundaries,
cycles and reports; `Open` is the detail of an older cycle, `NextDay` passes.  The daily
maintenance does not (033:197-289; apps/worker/src/main.ts:65-77): `Sweep` marks what is
overdue, inserts what a rule has come to reach and leaves the reports; `swept`, history,
has what it changed since the last command.

*Abstractions.*  A report is the set of figures and assurances its fingerprint
covers, for one account or two and cents as small numbers.  Cycles are cut from three recent paydays
(80 in the code) and two reports are kept warm (24).

### Lifecycle

*State.*  `home` (members, roles, deletion requests, Clerk receipts), `link`
(sessions, connections), `provider` (identities, public tokens, Items), and the
memory of the API's `api` attempts, the `worker`s and the `client`.

*Actions.*  The client's way through a link (`Start`, `CreateLinkToken`, `Redirect`,
`ReadPending`, `LinkSucceeds`, `LinkExits`, `StartAgain`, `ReturnToNative`, `Exchange`);
an attempt of the API (`ExchangePublicToken`, `Store`, `Compensate`,
`MarkSessionFailed`, `ApiStops`); the two-minute window and expiry; `RequestDeletion`,
`Disconnect`, `Claim`, `DeleteIdentity`, `Finalize`, their failures,
`RemoveIdentity` outside and the webhook `ReceiveUserDeleted`.

*Abstractions.*  A public token stands for its Item; `Revoke` and `RevocationFails` are the
two ends of the revocation that `PlaidSync` has: the Item removed and the connection
revoked, or a dead letter, after which the connection shows `revocation_pending`
("failed") or `login_required` ("locked", still in use) and waits for somebody to ask again.

### TransactionFeed

*State.*  `store` (transactions with day, versions, category and its source; the
merchant's rule), `loads` (pages asked for), `client` (list, cursor, filter, open
transaction), `saving` (the change on its way).

*Actions.*  `LoadOlder`, `TryAgain`, `BackToNewest`, `SetFilter`, `ListTransactions`
(one statement) and `ReceivePage` or `LosePage` in any order; `AskWorkspace` and its
answer; `OpenTransaction`, `SaveCategory`, `SaveEdit`, `SaveVoid`, `Handle` (the API)
and the answer or its loss; `Change` is the bank and other sessions.

*Abstractions.*  Days are numbers from 0 to 999.  A transaction is `settled` (history)
as long as nothing has changed its place since the list was last started, since
only of such can a list read page by page be complete.

## 3. What the runs check

Safety runs have `CHECK_DEADLOCK FALSE`: with bounded feeds, versions, commands and
attempts the instances really come to rest, and so does the system when nobody
asks for anything.

| run | instance | properties | what it shows |
| --- | --- | --- | --- |
| Queue | `MCSpec`: a history of each kind, with 2 workers, retryable failures, 2 attempts: 1 connection that syncs and is disconnected, with lost workers; 2 links to the same accounts | TypeOK, OneActiveRow, CursorIsLedger, LinksSurvive, ReplicaSpec | workers that hold the same row neither fold a page in twice nor queue a row twice; links whose first syncs interleave do not retire each other; the queue implements `LedgerReplica` |
| Requests | 1 connection and 1 worker with every kind of request, webhook and failure | ErasedAfterRemoval, RevocationStands, RevokedIsFinal | the token goes after the Item; nothing loses or undoes a revocation, and a revoked connection is out of the plan |
| Liveness | 1 worker, feed 2, 2 attempts, every failure, crashes | JobsEnd, RevocationConverges, CatchesUp | rows end, a disconnect ends revoked or with a dead letter, maintenance replaces lost webhooks of a connection that is healthy or stale, unless it comes to report a failure or loses a refresh (`RefreshLost`) |
| Alerts | 2 transactions in flight, ageing balances, changing preferences | EpisodesAreInOrder, ClaimFollowsEvaluation | commits in either order leave the current episode the open one; no second alert without a rise; a delivery follows the last evaluation |
| Reminders | 2 workers, e-mail and a device, 2 attempts; the occurrence, the preferences or the device changes | OthersWorkStands, DeliveriesEnd | a late worker, a retry or a review changes nothing that ended or that another worker holds; every delivery ends, whatever fails |
| Sweeps | 2 workers and 2 households without a plan; 10 plans of one household with 1 worker | LeaseIsKept, EveryHouseholdIsMaintained, PlanFollowsRule, NextPaydayFollows, RefusedContributionStays | a late worker hands back nobody else's household; failing households and ended workers starve nobody; SQL and TypeScript give a rule the same dates, those of the calendar; a refused contribution stays away from sweeps, and from edits that leave its date, name and amount |
| Evidence | 8 histories: one-time and recurring bill, savings from two banks, debt paid from bank to lender, two incomes that fit one deposit | VerifiedIsPaid, ConsequencesStand, RefusalStands | whatever is corrected, removed, unlinked or skipped, what is verified is paid, what was drawn from evidence goes with it, and a refusal stands |
| Ledger | 6 histories: goals on a bank's and a manual account, edits, incomes, debts, starters | PlannedIsContributed, AccountsAreInOrder, BillsHaveAReason, DecisionsStand | the reserve is the goals' contributions; accounts get back the role they had; payments go with their debts; what a user typed or declined stays |
| Workspace | 6 histories: repeated request, unchecked command, native copy and restart, two forms, bank command with its poll; link tokens that fail in three of them | ScreenHasItsRevision, SavedEditsStay, AppliedAsTold, QueueDrains | the screen never goes back, has what was saved once the API has been heard, one effect per request, and what is said of it is true; the queue drains unless a body is awaited for ever |
| PayCycles | 6 ledgers with paydays, debts, savings, balances, roles, horizons, and bills that the maintenance marks and inserts | CyclesFollowLedger, OpenedIsCurrent, CashIsExplained | cycles and reports are those of the ledger as the last command left it, with the occurrences the maintenance changed since as they were; complete ones explain every cent |
| Lifecycle | 5 histories: web client with two sessions, native client, deletion during a link, two members who leave, three members; revocations that fail for good in two of them | DepartureIsClean, AttemptsAgree, DeparturesEnd | erased data grants nothing, one departure keeps an owner, late attempts spoil nothing, deletions end unless stranded or kept by a failed revocation, and go on when that is mended |
| Feed | 7 histories: pages of two with changes between them, filters, categories, edits, a list longer than what is kept | EndIsTheEnd, ListIsTrue, UserCategoryStays | no transaction twice or left out at the end, no answer under another filter, nothing older than was told; a user's category stays |

A run takes from a few seconds to three minutes with two workers.

Some properties are conjunctions of named parts, each stated on its own in the
module: `EpisodesAreInOrder` is `TypeOK`, `CurrentIsOpen` and `AlertsAreSpaced`;
`OthersWorkStands` is `TerminalIsFinal` and `LeaseIsKept`; `RevocationStands` is
`RevokedIsExcluded` and `RevocationHasJob`; and so on.

*Why the bounds suffice.*  The races of the queues are between two holders
of one row, or one holder and one change behind its back; two workers (or
transactions) and one row have all of them, and connections are independent
except for duplicates, which have a history with two.  Linking issues the
history as the first update of the feed, so a feed of one lets two workers fetch
the same pages and both try to commit them; in `Liveness` a second update arrives
at any point of a job.  (With two updates `Queue` is three times as large, and its properties hold
there too; those on the ledger are theorems for every feed.)
Two attempts have a first and a last one.  In `Requests` one attempt is enough:
its questions are about what comes around a job, and retries are in `Queue`.
Amounts 200, 300 and 400 are below, inside and above the band of the threshold
250 with its hysteresis of 100.  `MaxInteger = 40` lets the backoff overflow at
the second failure (30 * 2^1), as 2^31 - 1 does at the 28th; what matters is that
it can.  Three slots with two workers leave one free for a new row.  In `Reminders`
one thing changes in a history, because a delivery is reviewed against each of
them alone.  The dates of `Sweeps` are the ones calendars get wrong: the 29th to
the 31st through February of a leap year and of another, anchors that move, and
rules that began years ago.  `Evidence` lets three transactions meet one or two
sources, enough for a split payment, a competitor and a correction; an
occurrence's version is capped at 4 and a source at 3 rows.  `PayCycles` gives
three paydays every order of coming and going.  `Workspace` has two requests,
because a third waits in the queue like the second.  `Lifecycle` has three
members, so that a successor may leave as well; `Feed` pages of two and lists of
up to five, so that rows of one day lie on both sides of a page's end.

Each property is tied to the code by a mutant in `PROJECT.json`: a definition
changed as a plausible bug would change it, with which TLC finds that property
violated.

### Fairness

- `PlaidSync`: time passes for every row; the scheduled maintenance call is made
  for every connection; a worker that awaits something goes on (calls have
  timeouts); a due row of each connection and operation is claimed if it is due
  again and again (strong, since other claims may come first: the claim is in
  order of priority and time, and the backlog is finite); **and hosts are not
  lost for ever** (`<>[]` no `Crash`).  The last is needed: `claim_plaid_sync_job`
  recovers a passed lease without looking at the attempts (006:272), so a host
  that dies in every run keeps the row for ever.
- `NotificationDelivery`: time, workers, and the polling of the claim.  Crashes
  are not limited, because a claim counts an attempt and the review ends the
  delivery at the limit.
- `PlanMaintenance` (`PlanSpec`): the scheduler starts the job again, a process
  goes on and ends its sweep, leases and delays pass.  Crashes and failures are not limited.
- `Workspace` (`FairSpec`): the client sends what is at the head of its queue, and a
  request whose headers do not come is given up by its time limit (api.ts:326-339; the
  token it is sent with, api.ts:301-325, is taken to come).  Nothing is assumed of a
  request whose headers are there: the timer stops then, and the body has no limit.  So
  `QueueDrains` has the premise that no body is awaited for ever (`[]<>~ui.body`).  The
  API need not execute anything, and nobody has to click.
- `Lifecycle` (`FairSpec`): the workers run, five minutes pass, a queued revocation ends,
  revoked or in a dead letter (`PlaidSync!JobsEnd`; that one succeeds is not assumed), a
  worker's call to Clerk succeeds if it is made again and again (strong), and
  Clerk delivers its events.
- Users, webhooks of Plaid, provider errors and database errors are never fair.

## 4. Where the code and what is said of it part

While modelling, some statements of the documentation, a comment or a page
turned out not to be kept by the code, and so did some that one would expect of
it.  The modules define them after their properties; none is a property of a
run.  Each can be seen by adding it to the configuration named,
as an INVARIANT or, if it is a temporal formula, a PROPERTY.

| definition | add to | what TLC shows |
| --- | --- | --- |
| `PlaidSync!SyncRequestsHaveWork` ("Requests enqueue durable work and return a visible pending state", PRODUCT_ARCHITECTURE.md:25) | Queue, with `Requests = {"sync"}` | a refresh joins the row of a worker that has committed already; the row ends, and the connection stays `syncing` until a later webhook, refresh or disconnect |
| `PlaidSync!MaintenanceCatchesUp` (021:58) | Liveness | the maintenance takes healthy and stale connections only, so it passes over one that has lost a refresh, which stays behind the bank |
| `PlaidSync!RevocationSupersedesSync` ("Plaid Item revocation superseded this synchronization", plaid.service.ts:882) | Requests | a webhook overwrites `revocation_pending`, and a sync commits |
| `PlaidSync!DisconnectErases` ("erases the access-token envelope after confirmation", README.md:7) | Liveness | a revocation that is dead-lettered is never queued again |
| `PlaidSync!ExcludedWhileRevoking` ("Accounts excluded - disconnecting", src/pages/connections.tsx:709) | Requests | the account can be included again |
| `CashAlert!AlertIsTrue` (the alert uses the projection shown on Today, PRODUCT_ARCHITECTURE.md:84) | Alerts | a plan that returns to earlier inputs finds the earlier snapshot, which counts as late; the episode in between is delivered |
| `CashAlert!FallIsAlerted` ("Alert when ... falls below the amount you choose", src/pages/settings.tsx:648) | Alerts | alerts that start inside the hysteresis are not armed |
| `CashAlert!OpenIsCurrent` ("serialized per user", PRODUCT_ARCHITECTURE.md:84) | Alerts, with `MaxVersion = 3` | switching alerts off takes no lock; an episode stays open that belongs to nothing |
| `NotificationDelivery!SendFollowsOccurrence` (changed occurrences "are suppressed before send", PRODUCT_ARCHITECTURE.md:60) | Reminders | the check is at the claim, not at the call |
| `ScheduleMaintenance!SweepGoesOn` ("one busy or broken household cannot block the full sweep", PRODUCT_ARCHITECTURE.md:60) | Sweeps | the backoff overflows in 32 bits at the 28th failure in a row, in the catch block, and ends the process; the households behind get their turn when the scheduler starts it again |
| `PlanMaintenance!OneContributionPerPayday` ("Before next payday", src/components/savings-goal-editor.tsx:217) | Sweeps | the API plans one contribution at the end of the horizon (core.service.ts:4742), the sweep no earlier than in 30 days (033:254), every night anew |
| `PlanMaintenance!RefusedContributionNeverReturns` (core.service.ts:4811-4832) | Sweeps | an edit of the amount or the name of a contribution plans the refused date again |
| `PlanMaintenance!RefusedAmountStays` (4779-4810) | Sweeps | with an older row of the date and of the same version, but another amount, the edit may find that one first and plans the date again although nothing about the refused item changed |
| `PlanMaintenance!RefusedBillStays` (033:227) | Sweeps | the sweep looks at rows that are not skipped only: a bill marked as not due is back the next night |
| `PlanMaintenance!EditsGoThrough` (027:146), `PlanEvidence!ReconcileSucceeds` (027:140-148, 029:255) | Sweeps, Evidence | rows that legal commands lead to make a later edit or reconciliation break a constraint of the schema, and the command fails |
| `PlanEvidence!ReservedOnce` (core.service.ts:4872-4889) | Evidence | an overdue one-time bill that is moved keeps its old item open beside the new one |
| `PlanEvidence!SavingsRefusalStands` (5270), `NotDueStands` (4809-4812), `ProofAtDestination` (484) | Evidence | the search for transfers does not look at refused pairs, and proposes a deposit again in the transaction that unlinks it; an item that is not due comes back; the confirmed proof of a contribution may be in another account than the goal's |
| `PlanLedger!AlwaysProtected` (2716-2743, 4005) | Ledger | an inclusion that has passed its check still applies after a goal took the account |
| `PlanLedger!PaymentIsInThePlan` (3245-3262, 3383-3394) | Ledger | a calibration, or the undo of a starter, removes the bill a debt is paid by |
| `PlanLedger!DestinationIsOpen` (plaid.service.ts:1540, 2065-2071) | Ledger | a synchronisation that misses an account leaves its goals alone; between a disconnection and its end its accounts can be chosen again |
| `PlanLedger!OneKindOfCash` (2862-2885, 4031-4042) | Ledger | the planning role and a goal's release make an account spendable without looking at the other kind |
| `Workspace!StaleDraftsAreDiscarded` ("Stale or cross-identity drafts are discarded", PRODUCT_ARCHITECTURE.md:20) | Workspace | onboarding stores an older draft again under a newer revision, and takes it back after a restart (onboarding.tsx:267-315) |
| `Workspace!RemovedByUser`, `UneditedIsUnchanged`, `PlanChangeNamesItsVersion` (app-state.tsx:829-851, 967-969; PRODUCT_ARCHITECTURE.md:36) | Workspace | a calibration is completed from the screen as it is then: it removes bills its form never showed, writes old content under a new version, and a change of the plan names a version it was not made on |
| `Workspace!NothingComesLate` (comment in mutation-failure.ts) | Workspace | a request given up may still be executed |
| `Workspace!ConnectedShowsSaved` (app-state.tsx:1045-1052) | Workspace | after a restart with an older native copy on the screen a link token that fails sets the status to connected: what had been reported as saved is missing from a connected screen until the reload's answer |
| `Workspace!EveryCommandIsAnswered` ("Budgefi didn’t receive a response in time", api.ts:326-339) | Workspace | the headers stop the timer: a body that never comes holds the head of the queue, and all commands behind it, for ever |
| `PayCycles!ReportsFollowMaintenance` (033:197-239; `listPayCycles`) | PayCycles | a bill marked overdue or inserted by the maintenance is not in the reports shown until the next command |
| `PayCycles!CorrectionsGoThrough` (UNIQUE of 032; pay-cycle-history.ts:842) | PayCycles | a report that returns to earlier inputs breaks the unique key on its fingerprint, and the command fails |
| `PayCycles!PeriodIsThePlans` (122), `ClosingSeesAll` (973-979), `PaydayIsNoCorrection` (352-385; PRODUCT_ARCHITECTURE.md:85) | PayCycles | a plan that returns to an earlier horizon finds its superseded period; a closing balance older than the last transactions lowers no assurance; an ordinary payday may be recorded as a correction |
| `Lifecycle!DeparturesAlwaysEnd` (019:160-164) | Lifecycle | a member who asked while there was another and is the last one now waits for a revocation nobody asked for |
| `Lifecycle!DeparturesOutliveFailures` (019:160-164; plaid.service.ts:1240-1262) | Lifecycle | a revocation that ends in a dead letter keeps the claim of the deletion waiting, and a repeated request queues no other |
| `Lifecycle!OwnerRemains` (020:137-150; PRODUCT_ARCHITECTURE.md:71) | Lifecycle, with `Worlds <- MCOwners` | ownership goes to a member who is leaving too, and those who stay have no owner |
| `Lifecycle!NothingWasAdded` ("Nothing was added", plaid-link-button.tsx:232) | Lifecycle | it is said of a link that was stored, or is stored later |
| `TransactionFeed!EndHolds` ("You’ve reached the end.", transaction-feed.tsx:456-460) | Feed | an edited row stays at its place until the workspace is loaded again; if its new day makes it the newest of a list that has let go of its beginning, the transactions that are missing are no longer those before its first row |
| `TransactionFeed!ShownIsReal` (transaction-feed.tsx:545-583) | Feed | a confirmed category is put beside the version that was listed, which the bank may have left behind |

## 5. What is proved

A module `...Proofs` extends the module it is about; every theorem holds for any
sets of connections, workers, rows, members, deliveries, households and the like,
and for any bounds.  TLC shows the same properties on the instances of section 3.

| module | theorem | statement | what it says |
| --- | --- | --- | --- |
| `PlaidSyncProofs` | `Invariant` | `Spec => []IInv` | token, status, cursor, Item and ledger of a connection agree with what its workers hold |
| | `TypeCorrect` | `Spec => []TypeOK` | types |
| | `LedgerMatchesCursor` | `Spec => []CursorIsLedger` | no update is folded twice or skipped |
| | `TokenOutlivesItem` | `Spec => []ErasedAfterRemoval` | the token goes after the Item |
| | `RevocationIsFinal` | `Spec => RevokedIsFinal` | a revoked connection stays revoked |
| | `ImplementsReplica` | `Spec => ReplicaSpec` | the queue implements `LedgerReplica` |
| | `QueueInvariant` | `Spec => []QueueInv` | what the rows, the workers and the accounts keep |
| | `ActiveRowsAreUnique` | `Spec => []OneActiveRow` | one active row of a connection and operation |
| | `RevocationsStand` | `Spec => []RevocationStands` | a revocation is neither lost on its way nor undone at its end |
| | `LinksOutliveTheirTwins` | `HistorySpec => []LinksSurvive` | where nobody ends a connection, one that ends leaves an older link to its accounts in use |
| `CashAlertProofs` | `Invariant` | `Spec => []AlertInv` | the inductive invariant below |
| | `EpisodesStayInOrder` | `Spec => []EpisodesAreInOrder` | the current episode is open; two alerts are separated by a rise |
| | `ClaimsFollowEvaluation` | `Spec => ClaimFollowsEvaluation` | a delivery goes out below the threshold in force only |
| `NotificationDeliveryProofs` | `Invariant` | `Spec => []DeliveryInv` | the inductive invariant below |
| | `TypeCorrect` | `Spec => []TypeOK` | types; attempts never pass the limit |
| | `SentMeansAccepted` | `Spec => []SentWasAccepted` | what is called sent was accepted |
| | `LateWorkersChangeNothing` | `Spec => OthersWorkStands` | what ended, and what another worker holds, is left alone |
| `MaintenanceProofs` | `TypeCorrect` | `Spec => []TypeOK` | a queued household is queued once and leased to nobody |
| | `LeasesAreKept` | `Spec => LeaseIsKept` | a lease that lasts is its worker's |
| | `PlansFollowSweep` | `PlanSpec => Spec` | the sweep with plans implements the sweep |
| | `LeasesAreKeptWithPlans` | `PlanSpec => LeaseIsKept` | both |
| `WorkspaceProofs` | `Invariant` | `Spec => []WorkspaceInv` | the inductive invariant below |
| | `ScreenIsConfirmed` | `Spec => []ScreenHasItsRevision` | rows are never older than the revision they are shown with |
| | `SavedStaysShown` | `Spec => []SavedEditsStay` | once the API has been heard, what was saved is on the screen, whatever its status |
| | `CommandsDoAsTold` | `Spec => []AppliedAsTold` | one effect per request, none after a refusal |
| `LifecycleProofs` | `Invariant` | `Spec => []LifecycleInv` | the inductive invariant below |
| | `DeparturesAreClean` | `Spec => []DepartureIsClean` | erased data grants nothing; one owner's departure leaves an owner |
| | `AttemptsDoAgree` | `Spec => AttemptsAgree` | late and repeated exchanges spoil nothing that was stored |
| `PlanLedgerProofs` | `PlanStaysInOrder` | `Spec => []LedgerInv` | the three below, together inductive |
| | `ReserveIsContributed` | `Spec => []PlannedIsContributed` | the reserve is the sum of what the active goals contribute |
| | `AccountsKeepTheirParts` | `Spec => []AccountsAreInOrder` | goals protect accounts and give their roles back; incomes go to accounts that are there |
| | `BillsKeepTheirReason` | `Spec => []BillsHaveAReason` | made bills are managed payments of debts; no starter is there twice |
| | `DecisionsAreKept` | `Spec => DecisionsStand` | bills the user entered stay; debts he archived stay archived |
| `TransactionFeedProofs` | `FeedIsSound` | `Spec => []FeedInv` | the inductive invariant below |
| | `EndIsReached` | `Spec => []EndIsTheEnd` | at its end the list has every settled transaction once |
| | `ListStaysTrue` | `Spec => []ListIsTrue` | no row of another filter, none older than what was told |
| | `UserCategoryIsKept` | `Spec => UserCategoryStays` | the category a user chose is his |

The fair specifications of the runs imply `Spec` (or `PlanSpec`), so all of it
holds of them.

### Assumptions

Those the modules state about their constants, each of which TLC evaluates in
a run.  `PlaidSync`: connections are numbers (their order is that of
`created_at`), `NoRow` is no row, payloads name connections, bounds are positive;
and `SlotsAssumption`, that whatever slots the workers hold one is free, which
stands for the fact that ids of new rows are unbounded in the code (only
the theorems about rows use it).  `ScheduleMaintenance`: the households are finitely many, `Nobody` is no
worker, bounds are positive; `PlanMaintenance`: a history's workers and households are
among them.  `CashAlert`: amounts are integers, thresholds and bounds natural
numbers, `None` is neither a number nor a row.  `NotificationDelivery`: e-mail
is no device, `NoDelivery` no delivery, bounds are positive.  `Workspace`: a history's
commands, forms, edits and bounds are of their kinds, and revisions stay below
the number that marks a removed row.  `Lifecycle`: a history's people are among its
members, of whom there is one at least, and its bounds are numbers.  `PlanLedger`:
the accounts are finitely many, each of one type; those of the bank are not manual;
`None` and `New` are neither accounts, roles nor numbers; and a request adds a starter
once, which the schema of the request asks for (packages/contracts/src/index.ts:744).
`TransactionFeed`: a page is not longer than what the client keeps (30 and 300 in
the code), a history's days, transactions and bounds are of their kinds.

### Arguments

`PlaidSync`.  `CursorIsLedger` is not inductive.  A worker between its fetch and
its commit holds a range of the feed in memory, and the commit is right because
that range is one of the feed's (`WorkerInv`), starts at the cursor (the check of
`processSync`), and the ledger of a connection that is not revoked agrees with
its cursor (`ConnectionInv`).  `ErasedAfterRemoval` needs that a worker in stage
`removed` has seen the Item go.  That in turn needs that a row of the queue
belongs to a linked connection (`JobsLinked`).  `IInv` is the conjunction of these
with `TypeOK`.  Each action has a lemma (`LinkStep` ... `CommitAccountsStep`);
actions that change only memory or only one row share one (`MemoryStep`,
`StatusAndQueueStep`).  `RevokedIsFinal` follows from `IInv`: what writes a status
looks at the status, or needs the token that a revoked connection lacks.
`LinksSurvive` follows from `HistoryInv` and `IInv`.  A sync retires a connection only
for one with a smaller number, so it never retires the first connection to a set of
accounts (`FirstNotRetired`); hence no row of a revocation is written for that one, no
worker holds one, and none has an answer to finish or a failure to give up (`Spared`).
When another connection to these accounts ends, the first one has been linked, since
connections are numbered in the order of their links (`LinkedInOrder`), and is in use.
The refinement maps `folded` to `applied` and `access` to the pair of Item and
token (`AccessTo`); a commit of a sync is a `Fold`, a removal at Plaid a `Remove`,
the erasure an `Erase`, and every other step a stutter.

`QueueInv` rests on `IInv`.  A row that ends must not have been the last one of
a pending revocation: a worker whose revocation is `done` has a revoked connection
(`JobInv`), so ending its row leaves nothing pending.  That the accounts
of a revoked connection stay out needs that those who write accounts late
(stages `fetched` and `observed`) work for a sync, whose commit is refused
without the token (`RevokedIsArchived`).  The recovery of leases, the enqueue and
the dead letter each keep one active row because a row is activated only where
none is.

`NotificationDelivery`.  The attempts of a delivery only grow, and a claim takes
a new number.  So two busy workers never have both the delivery and the token
in common (`TokensDiffer`), a token is never greater than the attempts
(`ClaimInv`), and the comparison in `finish_notification_delivery` lets one worker
through at most.

`ScheduleMaintenance`.  `TypeOK` says already what the leases need: a queued
household has no lease and stands in the queue once.  A claim takes a household from
the queue or one whose lease has passed, and every other write compares the
lease.  `PlanNext` is a conjunction with `Next` or leaves the sweep alone, which
gives `PlansFollowSweep`.

`CashAlert`.  An evaluation uses the preferences that were in force when it was
computed, and these may have changed since.  Such an evaluation can close the current
episode and open one under the earlier version, after an episode of the version
in force.  `AlertsAreSpaced` survives because that episode has produced no
event yet: it was opened by the change of the preferences, so it is in its grace,
and the grace ends only when no transaction that began before is under way
(`StaleEvaluationsFirst`).  After an event, then, nobody opens an episode under other
preferences, and the next under the same waits for a rise (`SpacedUnder`).

`Workspace`.  Versions only grow, so a request that does not fit the rows never
will, and a refusal is final (`Refused`); a request that was recorded is never
executed again (`Settled`).  The numbers of the commands grow along the queue,
and what waits in it has not been sent (`CommandsAreOrdered`), so that an answer
is about the command in flight.  A bootstrap whose revision was taken after a
command committed is as new as the command; it is read no earlier than the
command's answer was (`AnswersAreTrue`), and the screen never goes back to an older
revision.  After a restart the screen is empty or a copy, and everything
that is read from then on is as new as all that was saved (`ToldIsTrue`).  The status does
not say which: a failed link token sets it to connected over a copy.  `heard` does, which
only an answer of the API sets, and `SavedEditsStay` is about it.

`Lifecycle`.  Plaid exchanges a public token once, so of the attempts of a session,
the first and its retry after two minutes, one has the Item in hand at most, and
no connection has it yet (`ItemsHaveOneHolder`).  A compensating removal, by that
attempt only, removes no connection's Item therefore, and what is stored completes the
one session of its connection (`ConnectionsHaveOneSession`), which a late mark
leaves alone.  A household is erased by its last member, with no connection
that is not revoked, and nobody is left who could disconnect one (`DeletionsGoOn`).
A sole owner asks to leave only with nobody else there, or has handed over
in the same transaction, and then there are two owners for ever (`OwnersHandOver`); the
second may leave too, which `OneDepartureKeepsOwner` allows and `OwnerRemains`
does not (section 4).

`PlanLedger`.  `LedgerInv` is the conjunction of the run's three invariants, which
are not inductive one by one.  A goal gives back the role it found (`prior`), so that
this is the role the account would have (`own`) needs that the goals of
an account are never two (`GoalsAreAlone`): a second one would have found it
protected.  An account made for a goal or a debt must not have had a goal or an inclusion
before it was there (`AbsentIsExcluded`).  That a paid bill of a debt may be removed with it
needs that what a debt manages was made for it (`ManagedIsMade`), or a user's
bill would go.  The reserve after a bank is disconnected is the sum over goals of which
some were paused in the same transaction.  A command computes tables from tables, so
the proof follows it: `Holds(t)` says of tables what `LedgerInv` says of the
state, and each operator has a lemma about the tables it touches.  The sum of the
contributions is a recursive function; two facts are needed of it, that it is a
number and what it is when at most one goal is active (`syncLegacySavingsInput`),
and each is proved by looking at the shortest prefix of the goals that would refute it.

`TransactionFeed`.  What the list says at its end is a case of what it keeps on its
way there: it has every settled transaction up to its cursor, or has let go of it at
its beginning (`ListHolds`).  That a page keeps this needs that the page is the one
from the cursor the list still has (`PageHolds`; a refresh starts the list again, and
`requestSequence` drops every other page), that it has every settled
transaction between its cursor and the next (`AnswerHolds`, from the order of the
feed, which is total, and from one more row being read than is shown), and that
what was settled then still is or has left `settled`.  An edit breaks the order of the
list, so none of this is said between an answer that was shown and the refresh
that follows it; this is where `EndHolds` fails.  `ListIsTrue` needs that the store
is ahead of what was told (`KnownHolds`) and of what is about to be (`SavingHolds`).
`InOrder` lists a set by the rank of its rows, a definition by cardinality: that it is
a list of all of them, in order and each once, is the lemma `InOrderIsOrder`, proved
with the library's theorems on finite sets.

### Model-checked only

- Liveness: `JobsEnd`, `RevocationConverges`, `CatchesUp`, `DeliveriesEnd`,
  `EveryHouseholdIsMaintained`, `QueueDrains`, `DeparturesEnd`.  Fairness and
  ENABLED are outside TLAPS.
- `PlanFollowsRule`, `NextPaydayFollows`: `Calendar` is arithmetic with cases and
  folds over the days of a horizon, and what a fold computes is an induction over data,
  which the provers cannot instantiate.  `RefusedContributionStays` rests
  on the same dates: the sweep looks at all rows of a date, an edit at the one it finds.
- The properties of `PlanEvidence` and `PayCycles`.  Every handler there composes loops
  over rows (`FoldSet`, `FoldLeft` and sums) whose steps pass the tables on, as the
  loops of `reconcilePlanEvidence` and `ensureCanonicalCycles` do.  Already that a loop
  leaves alone what none of its steps touches is an induction over the rows with the
  step as a parameter, so neither `RefusalStands`, which needs only that, nor
  `VerifiedIsPaid`, `ConsequencesStand`, `CyclesFollowLedger` and `CashIsExplained` is
  within reach; `OpenedIsCurrent` compares two reports, which are made of such sums.
  No module declares a RECURSIVE operator.

## 6. How to run

    tlc -workers 2 -config Queue.cfg MCPlaidQueue.tla    # any run
    for m in *Proofs.tla; do tlapm $m; done              # all proofs

The longest proofs, those of `PlanLedgerProofs`, take about five minutes.

## 7. Plan

1. Proofs about `PlanEvidence` (`VerifiedIsPaid` and `ConsequencesStand` first) and
   `PayCycles` (`CyclesFollowLedger`), with its loops as recursive functions and a
   lemma of its own for what each of them keeps.
2. `HouseholdLocks`: transactions as sequences of locks, deadlock checked
   (plaid.service.ts:643, 864-875; 032:50-66).
3. Pure operators against reference definitions: quiet hours (033:440-486),
   recurrence detection (`recurrence.ts`), amortisation (`debt.ts`).
4. Exception cases (020; core.service.ts), on the protocol of `Workspace`.

## 8. What is not modelled

- *Household locks.*  A transaction is one step everywhere.  `disconnect` locks the
  connection and then, through the trigger of 032:50-66, the household (7241);
  `processSync` takes them the other way round.  PostgreSQL ends such a deadlock
  by failing one side, which the modules have as a failure of the database.
- *Quiet hours, recurrence detection, debt amortisation, money, planning figures*:
  computations without state (section 7).
- *Exception cases*: single-transaction commands with a version check.
- *Insights*: a cached call to a model whose result is a draft.
- *Tenancy and row-level security*: every module is one household; isolation is
  the database's.
- *Token encryption, contracts, configuration, routing*: pure library calls,
  validation and formatting.
- *Pages, components, native shells*: presentation, apart from the state in
  `Workspace`, `TransactionFeed` and `Lifecycle`.
- *Build and deployment*: the schedule it sets up is the fairness above.

Inside the modelled components:

- `PlaidSync`: sync runs, the processing status of receipts, the steps of the
  exchange (`Lifecycle` has them).
- `NotificationDelivery`: test notifications, events that stand for something
  other than a reminder or an alert, quiet hours (an event's instant is given).
- `CashAlert`: what is in the projection.
- `PlanMaintenance`: payments of the rule, several incomes, time zones,
  occurrences of incomes; versions are capped at 3.
- `PlanEvidence`: scores and tolerances beyond their classes, several households' currencies.
- `PlanLedger`: amounts and dates of bills, opening balances, manual balances of a
  goal (core.service.ts:2445-2557), payment policies.
- `Workspace`: writes that are visible without a new revision (plaid.service.ts:551-577,
  585-627, 1266), bootstraps of another household, the single flight of undo,
  a session token that never comes (api.ts:301-325), storage of the native cache.
- `PayCycles`: pending amounts, proposals, the table per category, time zones,
  account types, the limit of 1,000 receipts, the computation of horizons, the
  manifest of `calculation_snapshots`.
- `Lifecycle`: a departed user who signs in again with an old token, several
  households of one user, the cache of `ClerkAccountPolicyService`, sessions in update
  mode (`PlaidSync` has them), a commit of `Store` whose answer is lost, an Android
  browser that is closed without an event.
- `TransactionFeed`: linking and unlinking from the sheet, filters other than the
  category, debouncing, the list of accounts, the tie of two rules by their time
  of recording (core.service.ts:311-317).
