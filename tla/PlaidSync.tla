------------------------------ MODULE PlaidSync ------------------------------
(***************************************************************************)
(* The durable work queue behind Budgefi's bank connections.               *)
(*                                                                         *)
(* API requests, verified webhooks and the maintenance sweep change the    *)
(* row of a connection and enqueue a row of plaid_sync_jobs, each in one   *)
(* PostgreSQL transaction.  Workers lease queued rows and run them in      *)
(* several transactions with calls to Plaid in between: a sync loads the   *)
(* token and the cursor, fetches the pages, and commits; a revocation      *)
(* loads the token, removes the Item at Plaid, and erases the token.       *)
(* Leases time out after five minutes whether the worker is dead or only   *)
(* slow, so two workers may hold the same row.                             *)
(*                                                                         *)
(* A transaction is one action.  Every await between two transactions is a *)
(* point where any other actor may run and where the worker may be lost.   *)
(***************************************************************************)
EXTENDS Naturals, FiniteSets

CONSTANTS
    Connections,    \* connections of one household, numbered by created_at
    Bank,           \* Bank[c]: the institution and the accounts behind c
    Workers,        \* processes that run PlaidService.processNextJob
    Slots,          \* how many rows of one connection and operation coexist
    NoRow,          \* the row of an idle worker
    Payload,        \* webhook bodies Plaid may send: conn, kind, body
    Requests,       \* the kinds of API request the clients of an instance make
    Failures,       \* the kinds of error Plaid answers in an instance
    MaxFeed,        \* bound on the updates of one Item
    MaxAttempts     \* claims after which a failure is dead-lettered (8)

Operations == {"sync", "revoke"}

\* A row of plaid_sync_jobs.  A row no worker holds is never written again
\* once it is succeeded or dead, so its slot may stand for a later row.
Row == [conn : Connections, op : Operations, slot : Slots]

Kinds == {"sync_updates", "permission_revoked", "login_required", "error"}

ASSUME ConnectionsAssumption == Connections \subseteq Nat
ASSUME BankAssumption == DOMAIN Bank = Connections
ASSUME NoRowAssumption == NoRow \notin Row
\* New rows always find a place: whatever slots the workers hold, one is free.
ASSUME SlotsAssumption ==
    /\ Slots # {}
    /\ \A held \in [Workers -> Slots] :
          \E s \in Slots : \A w \in Workers : held[w] # s
ASSUME PayloadAssumption ==
    \A p \in Payload : p.conn \in Connections /\ p.kind \in Kinds
ASSUME FailuresAssumption == Failures \subseteq {"retryable", "permanent", "login"}
ASSUME BoundsAssumption == MaxFeed \in Nat \ {0} /\ MaxAttempts \in Nat \ {0}

VARIABLES
    household,      \* households.lifecycle_state
    status,         \* connections.status; "unlinked" before the row exists
    token,          \* token[c]: encrypted_access_token is not null
    cursor,         \* connections.sync_cursor; 0 is null
    initial,        \* connections.initial_update_complete
    account,        \* the Item's accounts: none, excluded, included, archived
    session,        \* the update-mode Link session: none, asked, created
    receipts,       \* webhook_receipts, by body
    jobs,           \* plaid_sync_jobs
    worker,         \* what each worker process holds in memory
    item,           \* the Item at Plaid: none, present, removed
    feed,           \* updates of the Item that Plaid has issued so far
    applied         \* updates folded into the ledger of the connection

connectionVars == <<status, token, cursor, initial, account>>
requestVars == <<household, session, receipts>>
providerVars == <<item, feed>>
vars == <<connectionVars, requestVars, jobs, worker, providerVars, applied>>

Statuses == {"unlinked", "syncing", "healthy", "stale", "login_required",
             "error", "revocation_pending", "revoked"}

JobStates == {"none", "queued", "running", "succeeded", "dead"}

\* due: available_at has passed for a queued row, the lease has for a running one.
Job == [state : JobStates, due : BOOLEAN, attempts : 0 .. MaxAttempts]

Errors == {"none", "retryable", "permanent", "login"}

Stages == {"idle", "claimed", "loaded", "fetched", "observed", "removed",
           "done", "failing"}

WorkerState == [stage : Stages, row : Row \cup {NoRow}, attempts : 0 .. MaxAttempts,
                from : Nat, to : Nat, error : Errors]

Idle == [stage |-> "idle", row |-> NoRow, attempts |-> 0,
         from |-> 0, to |-> 0, error |-> "none"]

TypeOK ==
    /\ household \in {"active", "deleting"}
    /\ status \in [Connections -> Statuses]
    /\ token \in [Connections -> BOOLEAN]
    /\ cursor \in [Connections -> Nat]
    /\ initial \in [Connections -> BOOLEAN]
    /\ account \in [Connections -> {"none", "excluded", "included", "archived"}]
    /\ session \in [Connections -> {"none", "asked", "created"}]
    /\ receipts \subseteq Payload
    /\ jobs \in [Row -> Job]
    /\ worker \in [Workers -> WorkerState]
    /\ item \in [Connections -> {"none", "present", "removed"}]
    /\ feed \in [Connections -> Nat]
    /\ applied \in [Connections -> Nat]

Init ==
    /\ household = "active"
    /\ status = [c \in Connections |-> "unlinked"]
    /\ token = [c \in Connections |-> FALSE]
    /\ cursor = [c \in Connections |-> 0]
    /\ initial = [c \in Connections |-> FALSE]
    /\ account = [c \in Connections |-> "none"]
    /\ session = [c \in Connections |-> "none"]
    /\ receipts = {}
    /\ jobs = [r \in Row |-> [state |-> "none", due |-> FALSE, attempts |-> 0]]
    /\ worker = [w \in Workers |-> Idle]
    /\ item = [c \in Connections |-> "none"]
    /\ feed = [c \in Connections |-> 0]
    /\ applied = [c \in Connections |-> 0]

------------------------------------------------------------------------------
(* Rows of plaid_sync_jobs.                                                *)

RowsOf(c, op) == {r \in Row : r.conn = c /\ r.op = op}

IsActive(job) == job.state \in {"queued", "running"}

\* The partial unique index allows one active row per connection and operation.
ActiveRow(c, op) == \E r \in RowsOf(c, op) : IsActive(jobs[r])

Held(r) == \E w \in Workers : worker[w].row = r

\* The slot a new row takes.  With more slots than workers there is one
\* whenever there is no active row.
NewRow(c, op) == CHOOSE r \in RowsOf(c, op) : ~IsActive(jobs[r]) /\ ~Held(r)

Queued == [state |-> "queued", due |-> TRUE, attempts |-> 0]

\* INSERT ... ON CONFLICT DO NOTHING for every connection of cs: an active row
\* of the same operation absorbs the request.
Enqueue(cs, op) ==
    [r \in Row |-> IF /\ r.op = op
                      /\ r.conn \in cs
                      /\ ~ActiveRow(r.conn, op)
                      /\ r = NewRow(r.conn, op)
                   THEN Queued ELSE jobs[r]]

Ending(c) == status[c] \in {"revocation_pending", "revoked"}

Exclude(cs) ==
    [c \in Connections |-> IF c \in cs /\ account[c] = "included"
                           THEN "excluded" ELSE account[c]]

------------------------------------------------------------------------------
(* Requests of the household's editors.                                    *)

\* exchange(): the transaction that stores the Item and its first job.
Link(c) ==
    /\ household = "active"
    /\ status[c] = "unlinked"
    /\ \A d \in Connections : d < c => status[d] # "unlinked"
    /\ status' = [status EXCEPT ![c] = "syncing"]
    /\ token' = [token EXCEPT ![c] = TRUE]
    /\ item' = [item EXCEPT ![c] = "present"]
    /\ feed' = [feed EXCEPT ![c] = 1]
    /\ jobs' = Enqueue({c}, "sync")
    /\ UNCHANGED <<cursor, initial, account, requestVars, worker, applied>>

\* An explicit refresh also ends the backoff of a queued retry.
RequestSync(c) ==
    /\ "sync" \in Requests
    /\ household = "active"
    /\ status[c] # "unlinked" /\ ~Ending(c)
    /\ status' = [status EXCEPT ![c] = "syncing"]
    /\ LET queue == Enqueue({c}, "sync") IN
       jobs' = [r \in Row |->
                    IF r \in RowsOf(c, "sync") /\ queue[r].state = "queued"
                    THEN [queue[r] EXCEPT !.due = TRUE] ELSE queue[r]]
    /\ UNCHANGED <<token, cursor, initial, account, requestVars, worker,
                   providerVars, applied>>

\* Mutant: nothing is enqueued.
DisconnectUnqueued(c) ==
    /\ "disconnect" \in Requests
    /\ status[c] # "revoked" /\ token[c]
    /\ status' = [status EXCEPT ![c] = "revocation_pending"]
    /\ account' = Exclude({c})
    /\ UNCHANGED <<token, cursor, initial, requestVars, jobs, worker,
                   providerVars, applied>>

Disconnect(c) ==
    /\ "disconnect" \in Requests
    /\ status[c] # "revoked" /\ token[c]
    /\ status' = [status EXCEPT ![c] = "revocation_pending"]
    /\ account' = Exclude({c})
    /\ jobs' = Enqueue({c}, "revoke")
    /\ UNCHANGED <<token, cursor, initial, requestVars, worker, providerVars,
                   applied>>

\* createLinkToken() in update mode checks the connection in one transaction,
\* asks Plaid for a Link token, and stores the session in another transaction
\* that checks the household only.
StartUpdate(c) ==
    /\ "update" \in Requests
    /\ household = "active"
    /\ token[c] /\ ~Ending(c)
    /\ session[c] = "none"
    /\ session' = [session EXCEPT ![c] = "asked"]
    /\ UNCHANGED <<connectionVars, household, receipts, jobs, worker,
                   providerVars, applied>>

StoreUpdateSession(c) ==
    /\ session[c] = "asked"
    /\ session' = [session EXCEPT ![c] =
                       IF household = "active" THEN "created" ELSE "none"]
    /\ UNCHANGED <<connectionVars, household, receipts, jobs, worker,
                   providerVars, applied>>

\* completeUpdate() reads the session, not the connection.  On a revoked
\* connection the table's token check rejects the write and nothing changes.
CompleteUpdate(c) ==
    /\ household = "active"
    /\ session[c] = "created"
    /\ token[c]
    /\ session' = [session EXCEPT ![c] = "none"]
    /\ status' = [status EXCEPT ![c] = "syncing"]
    /\ jobs' = Enqueue({c}, "sync")
    /\ UNCHANGED <<token, cursor, initial, account, household, receipts,
                   worker, providerVars, applied>>

\* The hosted session lapses unused.
ExpireUpdate(c) ==
    /\ session[c] = "created"
    /\ session' = [session EXCEPT ![c] = "none"]
    /\ UNCHANGED <<connectionVars, household, receipts, jobs, worker,
                   providerVars, applied>>

\* setAccountInclusion() checks the account's version and archived_at, not the
\* status of the connection the account belongs to.
SetInclusion(c) ==
    /\ "inclusion" \in Requests
    /\ account[c] \in {"excluded", "included"}
    /\ account' = [account EXCEPT ![c] =
                       IF @ = "included" THEN "excluded" ELSE "included"]
    /\ UNCHANGED <<status, token, cursor, initial, requestVars, jobs, worker,
                   providerVars, applied>>

\* requestDeletion() by an owner without a successor.
RequestDeletion ==
    /\ "deletion" \in Requests
    /\ household = "active"
    /\ LET open == {c \in Connections : status[c] # "unlinked" /\ ~Ending(c)}
       IN  /\ status' = [c \in Connections |->
                             IF c \in open THEN "revocation_pending" ELSE status[c]]
           /\ jobs' = Enqueue(open, "revoke")
    /\ household' = "deleting"
    /\ UNCHANGED <<token, cursor, initial, account, session, receipts, worker,
                   providerVars, applied>>

------------------------------------------------------------------------------
(* Verified webhooks: ingest_verified_plaid_webhook.                       *)

\* Mutant: the webhook changes the status and leaves the queue alone.
PermissionRevokedUnqueued(c) ==
    /\ status' = [status EXCEPT ![c] = "revocation_pending"]
    /\ account' = Exclude({c})
    /\ UNCHANGED jobs

PermissionRevoked(c) ==
    /\ status' = [status EXCEPT ![c] = "revocation_pending"]
    /\ account' = Exclude({c})
    /\ jobs' = Enqueue({c}, "revoke")

\* These two overwrite whatever status the connection has.
NeedsAttention(c, next) ==
    /\ status' = [status EXCEPT ![c] = next]
    /\ UNCHANGED <<account, jobs>>

SyncUpdates(c) ==
    /\ status' = [status EXCEPT ![c] = IF Ending(c) THEN @ ELSE "syncing"]
    /\ jobs' = Enqueue({c}, "sync")
    /\ UNCHANGED account

\* A body seen before is acknowledged and changes nothing.
Webhook(p) ==
    /\ p \in Payload \ receipts
    /\ status[p.conn] \notin {"unlinked", "revoked"}
    /\ receipts' = receipts \cup {p}
    /\ \/ p.kind = "permission_revoked" /\ PermissionRevoked(p.conn)
       \/ p.kind = "login_required" /\ NeedsAttention(p.conn, "login_required")
       \/ p.kind = "error" /\ NeedsAttention(p.conn, "error")
       \/ p.kind = "sync_updates" /\ SyncUpdates(p.conn)
    /\ UNCHANGED <<token, cursor, initial, household, session, worker,
                   providerVars, applied>>

\* Mutant: only healthy connections are scheduled.
MaintainHealthy(lapsed, old) ==
    /\ lapsed \subseteq Connections /\ old \subseteq lapsed
    /\ status' = [c \in Connections |->
                      IF c \in old /\ status[c] = "healthy" THEN "stale" ELSE status[c]]
    /\ jobs' = IF household = "active"
               THEN Enqueue({c \in lapsed : status[c] = "healthy"}, "sync")
               ELSE jobs
    /\ UNCHANGED <<token, cursor, initial, account, requestVars, worker,
                   providerVars, applied>>

\* schedule_plaid_maintenance(): lapsed connections have not synced for six
\* hours, old ones for thirty-six.
Maintain(lapsed, old) ==
    /\ lapsed \subseteq Connections /\ old \subseteq lapsed
    /\ status' = [c \in Connections |->
                      IF c \in old /\ status[c] = "healthy" THEN "stale" ELSE status[c]]
    /\ jobs' = IF household = "active"
               THEN Enqueue({c \in lapsed : status[c] \in {"healthy", "stale"}}, "sync")
               ELSE jobs
    /\ UNCHANGED <<token, cursor, initial, account, requestVars, worker,
                   providerVars, applied>>

------------------------------------------------------------------------------
(* Workers.                                                                *)

Keep == UNCHANGED <<connectionVars, jobs, providerVars, applied>>

\* The worker goes on; the pages it fetched are no longer needed.
Move(w, stage) ==
    worker' = [worker EXCEPT ![w].stage = stage, ![w].from = 0, ![w].to = 0]

\* The worker leaves the try block of executeClaimedJob with an error.
Raise(w, error) ==
    worker' = [worker EXCEPT ![w].stage = "failing", ![w].error = error,
                             ![w].from = 0, ![w].to = 0]

Runs(w, op) == worker[w].row \in Row /\ worker[w].row.op = op

ConnOf(w) == worker[w].row.conn

\* available_at of a queued row passes, or the five-minute lease of a running one.
TimePasses(r) ==
    /\ IsActive(jobs[r]) /\ ~jobs[r].due
    /\ jobs' = [jobs EXCEPT ![r].due = TRUE]
    /\ UNCHANGED <<connectionVars, requestVars, worker, providerVars, applied>>

\* Mutants: a passed lease counts as one more attempt; it is not recovered.
RecoveredCounting ==
    [r \in Row |-> IF jobs[r].state = "running" /\ jobs[r].due
                   THEN [jobs[r] EXCEPT !.state = "queued", !.attempts = @ + 1]
                   ELSE jobs[r]]
RecoveredNever == jobs

\* The first statement of claim_plaid_sync_job puts every expired lease back.
Recovered ==
    [r \in Row |-> IF jobs[r].state = "running" /\ jobs[r].due
                   THEN [jobs[r] EXCEPT !.state = "queued"] ELSE jobs[r]]

\* Any row that is due: oldest first in the code, except those SKIP LOCKED skips.
Claim(w, r) ==
    /\ worker[w].stage = "idle"
    /\ Recovered[r].state = "queued" /\ Recovered[r].due
    /\ LET attempts == IF jobs[r].attempts < MaxAttempts
                       THEN jobs[r].attempts + 1 ELSE MaxAttempts
       IN  /\ jobs' = [Recovered EXCEPT ![r] =
                          [state |-> "running", due |-> FALSE, attempts |-> attempts]]
           /\ worker' = [worker EXCEPT ![w] =
                            [Idle EXCEPT !.stage = "claimed", !.row = r,
                                         !.attempts = attempts]]
    /\ UNCHANGED <<connectionVars, requestVars, providerVars, applied>>

\* loadConnectionSecret(): the token and, for a sync, the cursor as of now.
Load(w) ==
    /\ worker[w].stage = "claimed"
    /\ LET c == ConnOf(w) IN
       \/ /\ token[c] /\ status[c] # "revoked"
          /\ worker' = [worker EXCEPT
                ![w].stage = "loaded",
                ![w].from = IF worker[w].row.op = "sync" THEN cursor[c] ELSE 0]
       \/ /\ ~token[c] \/ status[c] = "revoked"
          /\ Raise(w, "permanent")
    /\ Keep /\ UNCHANGED requestVars

\* All pages, and the accounts after them.
Fetch(w) ==
    /\ worker[w].stage = "loaded" /\ Runs(w, "sync")
    /\ item[ConnOf(w)] = "present"
    /\ worker' = [worker EXCEPT ![w].stage = "fetched", ![w].to = feed[ConnOf(w)]]
    /\ Keep /\ UNCHANGED requestVars

\* The transactions are unavailable, the accounts are not.
FetchAccountsOnly(w) ==
    /\ worker[w].stage = "loaded" /\ Runs(w, "sync")
    /\ item[ConnOf(w)] = "present"
    /\ \E e \in Failures :
          worker' = [worker EXCEPT ![w].stage = "observed", ![w].error = e]
    /\ Keep /\ UNCHANGED requestVars

\* Neither is: Plaid no longer knows a removed Item, otherwise any error.
FetchFails(w) ==
    /\ worker[w].stage = "loaded" /\ Runs(w, "sync")
    /\ \/ item[ConnOf(w)] = "present" /\ \E e \in Failures : Raise(w, e)
       \/ item[ConnOf(w)] = "removed" /\ Raise(w, "permanent")
    /\ Keep /\ UNCHANGED requestVars

\* gateway.removeItem() answers, also when the Item was removed before.
RemoveItem(w) ==
    /\ worker[w].stage = "loaded" /\ Runs(w, "revoke")
    /\ item' = [item EXCEPT ![ConnOf(w)] = "removed"]
    /\ Move(w, "removed")
    /\ UNCHANGED <<connectionVars, requestVars, jobs, feed, applied>>

\* Mutant: any answer of removeItem() counts as a removal.
RemoveItemFailsQuietly(w) ==
    /\ worker[w].stage = "loaded" /\ Runs(w, "revoke")
    /\ Move(w, "removed")
    /\ UNCHANGED <<connectionVars, requestVars, jobs, providerVars, applied>>

\* removeItem() fails, or takes effect at Plaid and the answer is lost.
RemoveItemFails(w) ==
    /\ worker[w].stage = "loaded" /\ Runs(w, "revoke")
    /\ item' \in {item, [item EXCEPT ![ConnOf(w)] = "removed"]}
    /\ \E e \in Failures : Raise(w, e)
    /\ UNCHANGED <<connectionVars, requestVars, jobs, feed, applied>>

------------------------------------------------------------------------------
(* resolveDuplicatePlaidItem.                                              *)

\* Other live connections to the same accounts; asked by a first sync only.
Duplicates(c) ==
    {d \in Connections \ {c} :
        /\ cursor[c] = 0 /\ ~initial[c]
        /\ Bank[d] = Bank[c]
        /\ status[d] \in {"syncing", "healthy"}
        /\ account[d] \in {"excluded", "included"}}

\* Mutant: the connection that syncs stays.
RetiredOthers(c) == Duplicates(c)

\* The oldest of them stays; with no duplicate nothing is retired.
Retired(c) ==
    {d \in Duplicates(c) \cup {c} :
        \E k \in Duplicates(c) \cup {c} : k < d}

\* The update of a retired connection matches a syncing or healthy one only, and
\* an update that matches no row is not an error; the rest happens all the same.
StatusOfRetired(d) ==
    IF status[d] \in {"syncing", "healthy"} THEN "revocation_pending" ELSE status[d]

\* Mutants: a sync yields to a revocation only until it is final; the cursor is
\* not compared.
SupersededByPending(w) == status[ConnOf(w)] = "revocation_pending"
CursorMovedNever(w) == FALSE

\* What the transaction of a sync finds before it applies anything.
Superseded(w) == Ending(ConnOf(w))
CursorMoved(w) == cursor[ConnOf(w)] # worker[w].from

RejectSync(w) ==
    \/ Superseded(w) /\ Raise(w, "permanent")
    \/ ~Superseded(w) /\ CursorMoved(w) /\ Raise(w, "retryable")

Accepts(w) == ~Superseded(w) /\ ~CursorMoved(w)

\* The connection itself is the duplicate: the sync succeeds with nothing applied.
RetireSelf(w) ==
    LET gone == Retired(ConnOf(w)) IN
    /\ Accepts(w) /\ ConnOf(w) \in gone
    /\ status' = [d \in Connections |->
                      IF d \in gone THEN StatusOfRetired(d) ELSE status[d]]
    /\ account' = Exclude(gone)
    /\ jobs' = Enqueue(gone, "revoke")
    /\ Move(w, "done")
    /\ UNCHANGED <<token, cursor, initial, applied>>

\* Duplicates found are retired, the accounts of c are recorded, and c itself
\* gets its next status.  New accounts start out excluded.
KeepSelf(w, next) ==
    LET c == ConnOf(w)
        gone == Retired(c)
    IN
    /\ Accepts(w) /\ c \notin gone
    /\ status' = [d \in Connections |->
                      IF d = c THEN next
                      ELSE IF d \in gone THEN StatusOfRetired(d) ELSE status[d]]
    /\ account' = [Exclude(gone) EXCEPT ![c] =
                       IF @ \in {"none", "archived"} THEN "excluded" ELSE @]
    /\ jobs' = Enqueue(gone, "revoke")
    /\ UNCHANGED token

------------------------------------------------------------------------------
(* The transactions that end a job.                                        *)

\* processSync(): the pages and the cursor commit together.  Plaid tells
\* whether the initial update is complete, and never takes that back.
CommitSync(w) ==
    /\ worker[w].stage = "fetched"
    /\ \/ RejectSync(w)
          /\ UNCHANGED <<connectionVars, jobs, applied>>
       \/ RetireSelf(w)
       \/ \E ready \in BOOLEAN :
             LET c == ConnOf(w) IN
             /\ initial[c] => ready
             /\ KeepSelf(w, IF ready THEN "healthy" ELSE "syncing")
             /\ initial' = [initial EXCEPT ![c] = ready]
             /\ cursor' = [cursor EXCEPT ![c] = worker[w].to]
             /\ applied' = [applied EXCEPT ![c] = @ + (worker[w].to - worker[w].from)]
             /\ Move(w, "done")
    /\ UNCHANGED <<requestVars, providerVars>>

\* persistAccountsWhileTransactionsWait(): then the fetch error is raised again.
CommitAccounts(w) ==
    /\ worker[w].stage = "observed"
    /\ \/ RejectSync(w)
          /\ UNCHANGED <<connectionVars, jobs, applied>>
       \/ RetireSelf(w)
       \/ /\ KeepSelf(w, "syncing")
          /\ Move(w, "failing")
          /\ UNCHANGED <<initial, cursor, applied>>
    /\ UNCHANGED <<requestVars, providerVars>>

\* finalizeRevocationInTransaction().
FinalizeRevocation(w) ==
    /\ worker[w].stage = "removed"
    /\ LET c == ConnOf(w) IN
       /\ status' = [status EXCEPT ![c] = "revoked"]
       /\ token' = [token EXCEPT ![c] = FALSE]
       /\ cursor' = [cursor EXCEPT ![c] = 0]
       /\ account' = [account EXCEPT ![c] = IF @ = "none" THEN @ ELSE "archived"]
    /\ Move(w, "done")
    /\ UNCHANGED <<initial, requestVars, jobs, providerVars, applied>>

\* finishJob() writes the row by id, whoever holds its lease by now.
FinishJob(w) ==
    /\ worker[w].stage = "done"
    /\ jobs' = [jobs EXCEPT ![worker[w].row].state = "succeeded",
                            ![worker[w].row].due = FALSE]
    /\ worker' = [worker EXCEPT ![w] = Idle]
    /\ UNCHANGED <<connectionVars, requestVars, providerVars, applied>>

\* Mutant: the update of the connection has no guard.
StatusAfterFailureUnguarded(w) ==
    IF worker[w].error = "login" THEN "login_required"
    ELSE IF Runs(w, "revoke") THEN "revocation_pending"
    ELSE "error"

\* The status a failed job leaves on its connection.
StatusAfterFailure(w) ==
    LET c == ConnOf(w) IN
    IF status[c] = "revoked"
       \/ (Runs(w, "sync") /\ status[c] = "revocation_pending")
    THEN status[c]
    ELSE IF worker[w].error = "login" THEN "login_required"
    ELSE IF Runs(w, "revoke") THEN "revocation_pending"
    ELSE "error"

\* Mutant: nothing keeps a second row of the connection and operation out.
TakenNever(row) == FALSE

\* Another row of the same connection and operation is active.
Taken(row) == \E r \in RowsOf(row.conn, row.op) \ {row} : IsActive(jobs[r])

\* retryOrDeadLetter() writes the row by id too.  When the row had ended and
\* another one is active by now, the unique index refuses to queue it again,
\* and the transaction changes nothing.
RetryOrDeadLetter(w) ==
    LET row == worker[w].row
        dead == \/ worker[w].error # "retryable"
                \/ worker[w].attempts >= MaxAttempts
        refused == ~dead /\ Taken(row)
    IN
    /\ worker[w].stage = "failing"
    /\ worker' = [worker EXCEPT ![w] = Idle]
    /\ IF refused
       THEN UNCHANGED <<status, jobs>>
       ELSE /\ jobs' = [jobs EXCEPT ![row].state = IF dead THEN "dead" ELSE "queued",
                                    ![row].due = FALSE]
            /\ status' = [status EXCEPT ![row.conn] = StatusAfterFailure(w)]
    /\ UNCHANGED <<token, cursor, initial, account, requestVars, providerVars, applied>>

\* A transaction of the job fails for a reason of the database's: executeClaimedJob
\* takes any error that is neither Plaid's nor a conflict for a final one.
StepFails(w) ==
    /\ worker[w].stage \in {"claimed", "fetched", "observed", "removed", "done"}
    /\ Raise(w, "permanent")
    /\ Keep /\ UNCHANGED requestVars

\* The process is lost; its row stays running until the lease has passed.
Crash(w) ==
    /\ worker[w].stage # "idle"
    /\ worker' = [worker EXCEPT ![w] = Idle]
    /\ Keep /\ UNCHANGED requestVars

\* Plaid has one more update for an Item.
Grow(c) ==
    /\ item[c] = "present"
    /\ feed[c] < MaxFeed
    /\ feed' = [feed EXCEPT ![c] = @ + 1]
    /\ UNCHANGED <<connectionVars, requestVars, jobs, worker, item, applied>>

------------------------------------------------------------------------------

Request ==
    \/ \E c \in Connections :
          \/ Link(c) \/ RequestSync(c) \/ Disconnect(c) \/ SetInclusion(c)
          \/ StartUpdate(c) \/ StoreUpdateSession(c) \/ CompleteUpdate(c)
          \/ ExpireUpdate(c)
    \/ RequestDeletion

Environment ==
    \/ \E p \in Payload : Webhook(p)
    \/ \E lapsed, old \in SUBSET Connections : Maintain(lapsed, old)
    \/ \E r \in Row : TimePasses(r)
    \/ \E c \in Connections : Grow(c)

\* What Plaid answers to a worker that waits for it.
Answer(w) ==
    Fetch(w) \/ FetchAccountsOnly(w) \/ FetchFails(w)
    \/ RemoveItem(w) \/ RemoveItemFails(w)

\* The transaction that stores the answer.
Commit(w) == CommitSync(w) \/ CommitAccounts(w) \/ FinalizeRevocation(w)

\* The transaction that writes the row.
Close(w) == FinishJob(w) \/ RetryOrDeadLetter(w)

Advance(w) == Load(w) \/ Answer(w) \/ Commit(w) \/ Close(w)

Work(w) == (\E r \in Row : Claim(w, r)) \/ Advance(w) \/ StepFails(w) \/ Crash(w)

Next == Request \/ Environment \/ \E w \in Workers : Work(w)

Spec == Init /\ [][Next]_vars

\* Time passes, the scheduled maintenance job runs for every lapsed connection,
\* a worker finishes what it awaits, the queue serves due rows in order, and
\* hosts are not lost for ever.  Users, webhooks and database errors are not fair.
Fairness ==
    /\ \A r \in Row : WF_vars(TimePasses(r))
    /\ \A c \in Connections :
          WF_vars(\E lapsed, old \in SUBSET Connections :
                      c \in lapsed /\ Maintain(lapsed, old))
    /\ \A c \in Connections, op \in Operations :
          SF_vars(\E w \in Workers, r \in RowsOf(c, op) : Claim(w, r))
    /\ \A w \in Workers : WF_vars(Advance(w))
    /\ <>[][\A w \in Workers : ~Crash(w)]_vars

FairSpec == Spec /\ Fairness

------------------------------------------------------------------------------
(* Safety.                                                                 *)

\* The unique index holds against every writer of the queue, a worker that
\* lost its lease and puts back a row that had ended included: at most one
\* row per connection and operation is queued or running.
OneActiveRow ==
    \A r, s \in Row :
        /\ r.conn = s.conn /\ r.op = s.op
        /\ IsActive(jobs[r]) /\ IsActive(jobs[s])
        => r = s

\* Every update up to the committed cursor is in the ledger exactly once, also
\* when two workers fetched the same pages: the cursor check of processSync.
CursorIsLedger ==
    \A c \in Connections : token[c] => applied[c] = cursor[c]

\* The access token is erased only after Plaid removed the Item
\* (docs/PRODUCT_ARCHITECTURE.md, "Source ingestion").
ErasedAfterRemoval ==
    \A c \in Connections :
        status[c] # "unlinked" /\ ~token[c] => item[c] = "removed"

\* The accounts of a revoked connection are out of the plan, whatever
\* inclusion requests and late syncs raced with the revocation.
RevokedIsExcluded ==
    \A c \in Connections : status[c] = "revoked" => account[c] # "included"

\* A pending revocation always has a queued or running job, or a dead letter
\* an operator can see: no interleaving drops it from the queue silently.
RevocationHasJob ==
    \A c \in Connections :
        status[c] = "revocation_pending" =>
            \E r \in RowsOf(c, "revoke") :
                IsActive(jobs[r]) \/ jobs[r].state = "dead"

\* Both: a revocation is neither lost on its way nor undone at its end by an
\* inclusion, a webhook or a late sync.
RevocationStands == RevokedIsExcluded /\ RevocationHasJob

\* A connection whose token is gone never becomes anything else: no webhook,
\* update session, late sync or failed job brings it back.
RevokedIsFinal ==
    [][\A c \in Connections : status[c] = "revoked" => status'[c] = "revoked"]_vars

\* Of several links to the same accounts the oldest always stays, whichever of
\* them syncs first and however their syncs interleave: they never retire each
\* other.  (For instances where nothing else ends a connection.)
OldestLinkSurvives ==
    \A c \in Connections : Ending(c) =>
        \E d \in Connections :
            d < c /\ Bank[d] = Bank[c] /\ status[d] # "unlinked" /\ ~Ending(d)

\* The connections implement the replica: access ends in order, the ledger
\* holds a growing prefix of the feed and is frozen once the token is erased.
AccessTo ==
    [c \in Connections |->
        IF item[c] = "removed" /\ ~token[c] THEN "erased"
        ELSE IF item[c] = "present" THEN "granted" ELSE item[c]]

Replica == INSTANCE LedgerReplica WITH folded <- applied, access <- AccessTo

ReplicaSpec == Replica!Spec

------------------------------------------------------------------------------
(* The inductive invariant behind the safety properties.                   *)

\* Only connections that were linked have jobs.
JobsLinked == \A r \in Row : jobs[r].state # "none" => item[r.conn] # "none"

\* What a worker holds in each stage of its job.
WorkerInv(w) ==
    LET h == worker[w] IN
    /\ h.stage # "idle" => h.row \in Row /\ item[h.row.conn] # "none"
    /\ h.stage \in {"loaded", "fetched"} => h.from <= feed[h.row.conn]
    /\ h.stage = "fetched" => h.from <= h.to /\ h.to <= feed[h.row.conn]
    /\ h.stage = "removed" => item[h.row.conn] = "removed"

\* The token, the status, the cursor and the Item of a connection agree.
ConnectionInv(c) ==
    /\ status[c] = "unlinked" <=> item[c] = "none"
    /\ token[c] <=> status[c] \notin {"unlinked", "revoked"}
    /\ status[c] = "revoked" => item[c] = "removed"
    /\ status[c] = "unlinked" => cursor[c] = 0 /\ applied[c] = 0
    /\ cursor[c] <= feed[c] /\ applied[c] <= feed[c]
    /\ status[c] # "revoked" => applied[c] = cursor[c]

IInv ==
    /\ TypeOK
    /\ JobsLinked
    /\ \A w \in Workers : WorkerInv(w)
    /\ \A c \in Connections : ConnectionInv(c)

\* What a worker did to its connection in the course of its job.
JobInv(w) ==
    LET h == worker[w] IN
    /\ h.stage \in {"fetched", "observed"} => h.row.op = "sync"
    /\ h.stage = "done" /\ h.row.op = "revoke" => status[h.row.conn] = "revoked"

\* The accounts of a revoked connection have left for good.
RevokedIsArchived ==
    \A c \in Connections : status[c] = "revoked" => account[c] \in {"none", "archived"}

QueueInv ==
    /\ OneActiveRow
    /\ RevocationHasJob
    /\ RevokedIsArchived
    /\ \A w \in Workers : JobInv(w)

------------------------------------------------------------------------------
(* Liveness, under FairSpec.                                               *)

\* A row of the queue ends, whatever failures, retries, lost workers and
\* passed leases come in between.
JobsEnd == \A r \in Row : IsActive(jobs[r]) ~> ~IsActive(jobs[r])

\* A connection that is being disconnected ends revoked or leaves a dead letter.
RevocationConverges ==
    \A c \in Connections :
        status[c] = "revocation_pending" ~>
            \/ status[c] = "revoked"
            \/ \E r \in RowsOf(c, "revoke") : jobs[r].state = "dead"

\* A refresh that joins the row of a worker which has committed its pages is
\* lost: the connection shows "syncing" and nothing is going to end that.
\* (Before the initial update is complete, syncing means that Plaid's next
\* webhook is awaited.)
RefreshLost(c) == status[c] = "syncing" /\ initial[c] /\ ~ActiveRow(c, "sync")

\* Maintenance alone brings a healthy or stale connection of an active
\* household up to date with everything Plaid had for it, unless the connection
\* comes to report a failure, is revoked, or loses a refresh.  "Updating
\* accounts" is no excuse while a row of the queue is behind it.
CatchesUp ==
    \A c \in Connections, n \in 1 .. MaxFeed :
        (status[c] \in {"healthy", "stale"} /\ feed[c] >= n) ~>
            \/ applied[c] >= n
            \/ status[c] \in {"login_required", "error", "revocation_pending", "revoked"}
            \/ RefreshLost(c)

------------------------------------------------------------------------------
(* What the repository says of the program and the code does not keep.     *)

\* A connection that shows "Updating accounts" has a row in the queue that
\* will end it: "Requests enqueue durable work and return a visible pending
\* state" (docs/PRODUCT_ARCHITECTURE.md:25).
SyncRequestsHaveWork == \A c \in Connections : ~RefreshLost(c)

\* CatchesUp with no exception for a lost refresh: maintenance passes over a
\* connection that is neither healthy nor stale (021_beta_completion.sql:58).
MaintenanceCatchesUp ==
    \A c \in Connections, n \in 1 .. MaxFeed :
        (status[c] \in {"healthy", "stale"} /\ feed[c] >= n) ~>
            \/ applied[c] >= n
            \/ status[c] \in {"login_required", "error", "revocation_pending", "revoked"}

\* "Disconnect [...] durably queues Plaid /item/remove, erases the access-token
\* envelope after confirmation" (README.md:7): it gets there in the end.
DisconnectErases ==
    \A c \in Connections : status[c] = "revocation_pending" ~> ~token[c]

\* "Plaid Item revocation superseded this synchronization"
\* (plaid.service.ts:882): with a revocation in the queue no sync commits.
RevocationSupersedesSync ==
    [][\A c \in Connections :
          ActiveRow(c, "revoke") => applied'[c] = applied[c]]_vars

\* "Accounts excluded - disconnecting" is what the connection's card says while
\* the revocation is pending (src/pages/connections.tsx:709).
ExcludedWhileRevoking ==
    \A c \in Connections :
        status[c] = "revocation_pending" => account[c] # "included"

==============================================================================
