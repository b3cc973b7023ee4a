--------------------------- MODULE PlaidSyncProofs ---------------------------
(***************************************************************************)
(* Proofs about PlaidSync, for any set of connections, workers, rows and   *)
(* webhooks and any bounds: the ledger and the token of a connection, the  *)
(* refinement of LedgerReplica, the rows of the queue, and, of the         *)
(* histories of PlaidHistories, links to the same accounts.                *)
(***************************************************************************)
EXTENDS PlaidHistories, WellFoundedInduction, TLAPS

------------------------------------------------------------------------------
(* The queue.                                                              *)

\* An enqueue keeps every row a row.
LEMMA EnqueueType ==
    ASSUME TypeOK, NEW cs, NEW op
    PROVE  Enqueue(cs, op) \in [Row -> Job]
<1>1. Queued \in Job
  BY BoundsAssumption DEF Queued, Job, JobStates
<1>2. jobs \in [Row -> Job]
  BY DEF TypeOK
<1> QED
  BY <1>1, <1>2 DEF Enqueue

\* An enqueue for linked connections leaves no row to an unlinked one.
LEMMA EnqueueLinked ==
    ASSUME JobsLinked, NEW cs, NEW op, \A c \in cs : item[c] # "none"
    PROVE  \A r \in Row : Enqueue(cs, op)[r].state # "none" => item[r.conn] # "none"
BY DEF Enqueue, JobsLinked

\* Recovering leases keeps every row a row, and of the same connection.
LEMMA RecoveredType ==
    ASSUME TypeOK
    PROVE  /\ Recovered \in [Row -> Job]
           /\ \A r \in Row : Recovered[r].state # "none" <=> jobs[r].state # "none"
<1>1. jobs \in [Row -> Job]
  BY DEF TypeOK
<1>2. \A r \in Row : [jobs[r] EXCEPT !.state = "queued"] \in Job
  BY <1>1 DEF Job, JobStates
<1> QED
  BY <1>1, <1>2 DEF Recovered, Job

\* A row belongs to a connection.
LEMMA RowConn ==
    ASSUME NEW r \in Row
    PROVE  r.conn \in Connections /\ r.op \in Operations
BY DEF Row

------------------------------------------------------------------------------
(* Steps of the household, Plaid and time.                                 *)

LEMMA LinkStep ==
    ASSUME IInv, NEW c \in Connections, Link(c)
    PROVE  IInv'
<1> USE DEF IInv
<1>1. jobs' \in [Row -> Job] /\ JobsLinked'
  <2>1. item' = [item EXCEPT ![c] = "present"] /\ jobs' = Enqueue({c}, "sync")
    BY DEF Link
  <2>2. jobs' \in [Row -> Job]
    BY <2>1, EnqueueType
  <2>3. \A r \in Row : jobs'[r].state # "none" => r.conn = c \/ jobs[r].state # "none"
    BY <2>1 DEF Enqueue
  <2>4. item \in [Connections -> {"none", "present", "removed"}]
    BY DEF TypeOK
  <2> QED
    BY <2>1, <2>2, <2>3, <2>4, RowConn DEF JobsLinked
<1>2. TypeOK'
  BY <1>1 DEF TypeOK, Link, Statuses, requestVars
<1>3. item[c] = "none"
  BY DEF Link, ConnectionInv
<1>4. \A w \in Workers : WorkerInv(w)'
  BY <1>3, RowConn DEF TypeOK, Link, WorkerInv
<1>5. \A d \in Connections : ConnectionInv(d)'
  BY <1>3 DEF TypeOK, Link, ConnectionInv, Statuses
<1> QED
  BY <1>1, <1>2, <1>4, <1>5

\* The steps that change statuses and rows of the queue, and nothing else that
\* the invariant speaks of: a status changes between those of a linked
\* connection that still has its token.
LEMMA StatusAndQueueStep ==
    ASSUME IInv,
           TypeOK', JobsLinked',
           UNCHANGED <<token, cursor, item, feed, applied>>,
           \A c \in Connections :
               \/ status'[c] = status[c]
               \/ {status[c], status'[c]} \cap {"unlinked", "revoked"} = {},
           \A w \in Workers : WorkerInv(w)'
    PROVE  IInv'
<1> SUFFICES \A c \in Connections : ConnectionInv(c)'
  BY DEF IInv
<1> QED
  BY DEF IInv, ConnectionInv, TypeOK

\* What the invariant says of workers rests on nothing but worker, item and feed.
LEMMA SameWorkers ==
    ASSUME IInv, UNCHANGED <<worker, item, feed>>
    PROVE  \A w \in Workers : WorkerInv(w)'
BY DEF IInv, WorkerInv

LEMMA RequestSyncStep ==
    ASSUME IInv, NEW c \in Connections, RequestSync(c)
    PROVE  IInv'
<1> DEFINE queue == Enqueue({c}, "sync")
<1>1. item[c] # "none"
  BY DEF IInv, ConnectionInv, RequestSync
<1>2. queue \in [Row -> Job]
  BY EnqueueType DEF IInv
<1>3. \A r \in Row : queue[r].state # "none" => item[r.conn] # "none"
  BY <1>1, EnqueueLinked DEF IInv
<1>4. \A r \in Row : [queue[r] EXCEPT !.due = TRUE] \in Job
                     /\ [queue[r] EXCEPT !.due = TRUE].state = queue[r].state
  BY <1>2 DEF Job
<1>5. jobs' = [r \in Row |-> IF r \in RowsOf(c, "sync") /\ queue[r].state = "queued"
                             THEN [queue[r] EXCEPT !.due = TRUE] ELSE queue[r]]
  BY DEF RequestSync
<1> HIDE DEF queue
<1>6. jobs' \in [Row -> Job] /\ \A r \in Row : jobs'[r].state = queue[r].state
  BY <1>2, <1>4, <1>5
<1>7. TypeOK'
  BY <1>6 DEF IInv, TypeOK, RequestSync, Statuses, requestVars, providerVars
<1>8. JobsLinked'
  BY <1>3, <1>6 DEF JobsLinked, RequestSync, providerVars
<1>9. \A d \in Connections :
          \/ status'[d] = status[d]
          \/ {status[d], status'[d]} \cap {"unlinked", "revoked"} = {}
  BY DEF IInv, TypeOK, RequestSync, Ending
<1> QED
  BY <1>7, <1>8, <1>9, SameWorkers, StatusAndQueueStep DEF RequestSync, providerVars

LEMMA DisconnectStep ==
    ASSUME IInv, NEW c \in Connections, Disconnect(c)
    PROVE  IInv'
<1>1. item[c] # "none"
  BY DEF IInv, ConnectionInv, Disconnect
<1>2. jobs' \in [Row -> Job]
  BY EnqueueType DEF IInv, Disconnect
<1>3. JobsLinked'
  BY <1>1, EnqueueLinked DEF IInv, JobsLinked, Disconnect, providerVars
<1>4. TypeOK'
  BY <1>2 DEF IInv, TypeOK, Disconnect, Exclude, Statuses, requestVars, providerVars
<1>5. \A d \in Connections :
          \/ status'[d] = status[d]
          \/ {status[d], status'[d]} \cap {"unlinked", "revoked"} = {}
  BY DEF IInv, TypeOK, ConnectionInv, Disconnect
<1> QED
  BY <1>3, <1>4, <1>5, SameWorkers, StatusAndQueueStep DEF Disconnect, providerVars

\* Requests that touch neither connections nor jobs nor workers.
LEMMA QuietStep ==
    ASSUME IInv, TypeOK', UNCHANGED <<status, token, cursor, jobs, worker,
                                      providerVars, applied>>
    PROVE  IInv'
BY DEF IInv, JobsLinked, WorkerInv, ConnectionInv, providerVars

LEMMA SessionAndInclusionSteps ==
    ASSUME IInv, NEW c \in Connections,
           StartUpdate(c) \/ StoreUpdateSession(c) \/ ExpireUpdate(c) \/ SetInclusion(c)
    PROVE  IInv'
<1>1. CASE StartUpdate(c)
  BY <1>1, QuietStep DEF IInv, TypeOK, StartUpdate, connectionVars, providerVars
<1>2. CASE StoreUpdateSession(c)
  BY <1>2, QuietStep DEF IInv, TypeOK, StoreUpdateSession, connectionVars, providerVars
<1>3. CASE ExpireUpdate(c)
  BY <1>3, QuietStep DEF IInv, TypeOK, ExpireUpdate, connectionVars, providerVars
<1>4. CASE SetInclusion(c)
  BY <1>4, QuietStep DEF IInv, TypeOK, SetInclusion, requestVars, providerVars
<1> QED
  BY <1>1, <1>2, <1>3, <1>4

LEMMA CompleteUpdateStep ==
    ASSUME IInv, NEW c \in Connections, CompleteUpdate(c)
    PROVE  IInv'
<1>1. item[c] # "none"
  BY DEF IInv, ConnectionInv, CompleteUpdate
<1>2. jobs' \in [Row -> Job]
  BY EnqueueType DEF IInv, CompleteUpdate
<1>3. JobsLinked'
  BY <1>1, EnqueueLinked DEF IInv, JobsLinked, CompleteUpdate, providerVars
<1>4. TypeOK'
  BY <1>2 DEF IInv, TypeOK, CompleteUpdate, Statuses, providerVars
<1>5. \A d \in Connections :
          \/ status'[d] = status[d]
          \/ {status[d], status'[d]} \cap {"unlinked", "revoked"} = {}
  BY DEF IInv, TypeOK, ConnectionInv, CompleteUpdate
<1> QED
  BY <1>3, <1>4, <1>5, SameWorkers, StatusAndQueueStep DEF CompleteUpdate, providerVars

LEMMA RequestDeletionStep ==
    ASSUME IInv, RequestDeletion
    PROVE  IInv'
<1> DEFINE open == {c \in Connections : status[c] # "unlinked" /\ ~Ending(c)}
<1>1. \A c \in open : item[c] # "none"
  BY DEF IInv, ConnectionInv
<1>2. jobs' = Enqueue(open, "revoke")
  BY DEF RequestDeletion
<1>3. status' = [c \in Connections |->
                     IF c \in open THEN "revocation_pending" ELSE status[c]]
  BY DEF RequestDeletion
<1>4. \A c \in open : status[c] \notin {"unlinked", "revoked"}
  BY DEF Ending
<1> HIDE DEF open
<1>5. jobs' \in [Row -> Job]
  BY <1>2, EnqueueType DEF IInv
<1>6. JobsLinked'
  BY <1>1, <1>2, EnqueueLinked DEF IInv, JobsLinked, RequestDeletion, providerVars
<1>7. TypeOK'
  BY <1>3, <1>5 DEF IInv, TypeOK, RequestDeletion, Statuses, providerVars
<1>8. \A d \in Connections :
          \/ status'[d] = status[d]
          \/ {status[d], status'[d]} \cap {"unlinked", "revoked"} = {}
  BY <1>3, <1>4
<1> QED
  BY <1>6, <1>7, <1>8, SameWorkers, StatusAndQueueStep DEF RequestDeletion, providerVars

LEMMA WebhookStep ==
    ASSUME IInv, NEW p \in Payload, Webhook(p)
    PROVE  IInv'
<1> DEFINE c == p.conn
<1>1. c \in Connections /\ item[c] # "none" /\ status[c] \notin {"unlinked", "revoked"}
  BY PayloadAssumption DEF IInv, ConnectionInv, Webhook
<1>2. \/ jobs' = jobs
      \/ \E op \in Operations : jobs' = Enqueue({c}, op)
  BY DEF Webhook, PermissionRevoked, NeedsAttention, SyncUpdates, Operations
<1>3. jobs' \in [Row -> Job]
  BY <1>2, EnqueueType DEF IInv, TypeOK
<1>4. UNCHANGED <<token, cursor, initial, household, session, worker, item, feed, applied>>
  BY DEF Webhook, providerVars
<1>5. JobsLinked'
  BY <1>1, <1>2, <1>4, EnqueueLinked DEF IInv, JobsLinked
<1>6. /\ account' \in [Connections -> {"none", "excluded", "included", "archived"}]
      /\ receipts' \subseteq Payload
  BY DEF IInv, TypeOK, Webhook, PermissionRevoked, NeedsAttention, SyncUpdates, Exclude
<1>7. \E s \in Statuses \ {"unlinked", "revoked"} : status' = [status EXCEPT ![c] = s]
  <2>1. status[c] \in Statuses \ {"unlinked", "revoked"}
    BY <1>1 DEF IInv, TypeOK
  <2> QED
    BY <2>1 DEF Webhook, PermissionRevoked, NeedsAttention, SyncUpdates, Statuses
<1> HIDE DEF c
<1>8. TypeOK'
  BY <1>1, <1>3, <1>4, <1>6, <1>7 DEF IInv, TypeOK
<1>9. \A d \in Connections :
          \/ status'[d] = status[d]
          \/ {status[d], status'[d]} \cap {"unlinked", "revoked"} = {}
  BY <1>1, <1>7 DEF IInv, TypeOK
<1> QED
  BY <1>4, <1>5, <1>8, <1>9, SameWorkers, StatusAndQueueStep

LEMMA MaintainStep ==
    ASSUME IInv, NEW lapsed, NEW old, Maintain(lapsed, old)
    PROVE  IInv'
<1> DEFINE behind == {c \in lapsed : status[c] \in {"healthy", "stale"}}
<1>1. \A c \in behind : item[c] # "none"
  BY DEF IInv, ConnectionInv, Maintain
<1>2. jobs' = IF household = "active" THEN Enqueue(behind, "sync") ELSE jobs
  BY DEF Maintain
<1> HIDE DEF behind
<1>3. jobs' \in [Row -> Job]
  BY <1>2, EnqueueType DEF IInv, TypeOK
<1>4. JobsLinked'
  BY <1>1, <1>2, EnqueueLinked DEF IInv, JobsLinked, Maintain, providerVars
<1>5. TypeOK'
  BY <1>3 DEF IInv, TypeOK, Maintain, Statuses, requestVars, providerVars
<1>6. \A d \in Connections :
          \/ status'[d] = status[d]
          \/ {status[d], status'[d]} \cap {"unlinked", "revoked"} = {}
  BY DEF Maintain
<1> QED
  BY <1>4, <1>5, <1>6, SameWorkers, StatusAndQueueStep DEF Maintain, providerVars

LEMMA TimePassesStep ==
    ASSUME IInv, NEW r \in Row, TimePasses(r)
    PROVE  IInv'
<1>1. jobs' \in [Row -> Job] /\ \A s \in Row : jobs'[s].state = jobs[s].state
  BY DEF IInv, TypeOK, TimePasses, Job
<1>2. TypeOK' /\ JobsLinked'
  BY <1>1 DEF IInv, TypeOK, JobsLinked, TimePasses, connectionVars, requestVars,
              providerVars
<1>3. \A w \in Workers : WorkerInv(w)'
  BY SameWorkers DEF TimePasses, providerVars
<1> QED
  BY <1>2, <1>3, StatusAndQueueStep DEF TimePasses, connectionVars, providerVars

LEMMA GrowStep ==
    ASSUME IInv, NEW c \in Connections, Grow(c)
    PROVE  IInv'
<1>1. /\ feed' \in [Connections -> Nat]
      /\ \A d \in Connections : feed[d] <= feed'[d]
  BY DEF IInv, TypeOK, Grow
<1>2. TypeOK' /\ JobsLinked'
  BY <1>1 DEF IInv, TypeOK, JobsLinked, Grow, connectionVars, requestVars
<1>3. \A w \in Workers : WorkerInv(w)'
  <2> SUFFICES ASSUME NEW w \in Workers
               PROVE  WorkerInv(w)'
    OBVIOUS
  <2>1. WorkerInv(w) /\ worker' = worker /\ item' = item
    BY DEF IInv, Grow
  <2>2. worker[w] \in WorkerState
    BY DEF IInv, TypeOK
  <2>3. CASE worker[w].stage = "idle"
    BY <2>1, <2>3 DEF WorkerInv
  <2>4. CASE worker[w].stage # "idle"
    <3>1. worker[w].row.conn \in Connections
      BY <2>1, <2>4, RowConn DEF WorkerInv
    <3>2. feed[worker[w].row.conn] <= feed'[worker[w].row.conn]
      BY <1>1, <3>1
    <3>3. /\ feed[worker[w].row.conn] \in Nat /\ feed'[worker[w].row.conn] \in Nat
          /\ worker[w].from \in Nat /\ worker[w].to \in Nat
      BY <1>1, <2>2, <3>1 DEF IInv, TypeOK, WorkerState
    <3> QED
      BY <2>1, <2>4, <3>2, <3>3 DEF WorkerInv
  <2> QED
    BY <2>3, <2>4
<1>4. \A d \in Connections : ConnectionInv(d)'
  BY <1>1 DEF IInv, TypeOK, ConnectionInv, Grow, connectionVars
<1> QED
  BY <1>2, <1>3, <1>4 DEF IInv

------------------------------------------------------------------------------
(* Steps of the workers.                                                   *)

\* A step of one worker leaves the others as they were: their part of the
\* invariant stays, unless an Item or a feed they rest on shrinks.
LEMMA OtherWorkers ==
    ASSUME IInv, NEW w \in Workers, NEW v \in Workers \ {w},
           worker'[v] = worker[v], feed' = feed,
           \A c \in Connections : item'[c] = item[c] \/ item'[c] = "removed"
    PROVE  WorkerInv(v)'
<1>1. WorkerInv(v)
  BY DEF IInv
<1>2. CASE worker[v].stage = "idle"
  BY <1>2 DEF WorkerInv
<1>3. CASE worker[v].stage # "idle"
  <2>1. worker[v].row.conn \in Connections
    BY <1>1, <1>3, RowConn DEF WorkerInv
  <2> QED
    BY <1>1, <1>3, <2>1 DEF WorkerInv
<1> QED
  BY <1>2, <1>3

\* A worker that changes nothing but what it holds in memory.
LEMMA MemoryStep ==
    ASSUME IInv, NEW w \in Workers, NEW h \in WorkerState,
           worker' = [worker EXCEPT ![w] = h], Keep, UNCHANGED requestVars,
           WorkerInv(w)'
    PROVE  IInv'
<1>1. TypeOK' /\ JobsLinked'
  BY DEF IInv, TypeOK, JobsLinked, Keep, connectionVars, requestVars, providerVars
<1>2. \A v \in Workers : WorkerInv(v)'
  BY OtherWorkers DEF IInv, TypeOK, Keep, providerVars
<1>3. \A c \in Connections : ConnectionInv(c)'
  BY DEF IInv, ConnectionInv, Keep, connectionVars, providerVars
<1> QED
  BY <1>1, <1>2, <1>3 DEF IInv

\* The record a worker has after Move.
LEMMA MoveType ==
    ASSUME IInv, NEW w \in Workers, NEW stage \in {"done", "removed", "failing"},
           Move(w, stage)
    PROVE  \E h \in WorkerState :
               /\ h.stage = stage /\ h.row = worker[w].row
               /\ worker' = [worker EXCEPT ![w] = h]
<1> DEFINE h == [worker[w] EXCEPT !.stage = stage, !.from = 0, !.to = 0]
<1>1. worker \in [Workers -> WorkerState] /\ worker[w] \in WorkerState
  BY DEF IInv, TypeOK
<1>2. h \in WorkerState /\ h.stage = stage /\ h.row = worker[w].row
  BY <1>1 DEF WorkerState, Stages
<1>3. worker' = [worker EXCEPT ![w] = h]
  BY <1>1 DEF Move
<1> QED
  BY <1>2, <1>3

LEMMA RaiseStep ==
    ASSUME IInv, NEW w \in Workers, worker[w].stage # "idle", NEW e \in Errors,
           Raise(w, e), Keep, UNCHANGED requestVars
    PROVE  IInv'
<1> DEFINE h == [worker[w] EXCEPT !.stage = "failing", !.error = e,
                                  !.from = 0, !.to = 0]
<1>1. worker[w] \in WorkerState /\ worker \in [Workers -> WorkerState]
  BY DEF IInv, TypeOK
<1>2. h \in WorkerState
  BY <1>1 DEF WorkerState, Stages
<1>3. worker' = [worker EXCEPT ![w] = h]
  BY <1>1 DEF Raise
<1>4. h.stage = "failing" /\ h.row = worker[w].row
  BY <1>1 DEF WorkerState
<1>5. worker'[w] = h
  BY <1>1, <1>3
<1>6. WorkerInv(w)'
  BY <1>4, <1>5 DEF IInv, WorkerInv, Keep, providerVars
<1> QED
  BY <1>2, <1>3, <1>6, MemoryStep

LEMMA ClaimStep ==
    ASSUME IInv, NEW w \in Workers, NEW r \in Row, Claim(w, r)
    PROVE  IInv'
<1> DEFINE attempts == IF jobs[r].attempts < MaxAttempts
                       THEN jobs[r].attempts + 1 ELSE MaxAttempts
           job == [state |-> "running", due |-> FALSE, attempts |-> attempts]
           h == [Idle EXCEPT !.stage = "claimed", !.row = r, !.attempts = attempts]
<1>1. jobs \in [Row -> Job] /\ jobs[r] \in Job
  BY DEF IInv, TypeOK
<1>2. attempts \in 0 .. MaxAttempts
  BY <1>1, BoundsAssumption DEF Job
<1>3. jobs' = [Recovered EXCEPT ![r] = job] /\ worker' = [worker EXCEPT ![w] = h]
  BY DEF Claim
<1>4. Recovered[r].state = "queued"
  BY DEF Claim
<1> HIDE DEF attempts
<1>5. job \in Job
  BY <1>2 DEF Job, JobStates
<1>6. h \in WorkerState /\ h.stage = "claimed" /\ h.row = r
  BY <1>2 DEF WorkerState, Stages, Idle, Errors
<1> HIDE DEF job, h
<1>7. jobs' \in [Row -> Job]
  BY <1>3, <1>5, RecoveredType DEF IInv
<1>8. \A s \in Row : jobs'[s].state # "none" => jobs[s].state # "none"
  BY <1>3, <1>4, RecoveredType DEF IInv
<1>9. UNCHANGED <<connectionVars, requestVars, providerVars, applied>>
  BY DEF Claim
<1>10. TypeOK'
  BY <1>3, <1>6, <1>7, <1>9 DEF IInv, TypeOK, connectionVars, requestVars, providerVars
<1>11. JobsLinked'
  BY <1>8, <1>9 DEF IInv, JobsLinked, providerVars
<1>12. item[r.conn] # "none"
  BY <1>4, RecoveredType DEF IInv, JobsLinked
<1>13. worker'[w] = h /\ \A v \in Workers \ {w} : worker'[v] = worker[v]
  BY <1>3 DEF IInv, TypeOK
<1>14. WorkerInv(w)'
  BY <1>6, <1>9, <1>12, <1>13 DEF WorkerInv, providerVars
<1>15. \A v \in Workers : WorkerInv(v)'
  BY <1>9, <1>13, <1>14, OtherWorkers DEF providerVars
<1> QED
  BY <1>9, <1>10, <1>11, <1>15, StatusAndQueueStep DEF connectionVars, providerVars

LEMMA LoadStep ==
    ASSUME IInv, NEW w \in Workers, Load(w)
    PROVE  IInv'
<1>1. worker[w] \in WorkerState /\ worker \in [Workers -> WorkerState]
  BY DEF IInv, TypeOK
<1>2. worker[w].stage = "claimed"
  BY DEF Load
<1>3. worker[w].row \in Row /\ ConnOf(w) \in Connections /\ item[ConnOf(w)] # "none"
  BY <1>2, RowConn DEF IInv, WorkerInv, ConnOf
<1>4. Keep /\ UNCHANGED requestVars
  BY DEF Load
<1>5. CASE Raise(w, "permanent")
  BY <1>2, <1>4, <1>5, RaiseStep DEF Errors
<1>6. CASE ~Raise(w, "permanent")
  <2> DEFINE from == IF worker[w].row.op = "sync" THEN cursor[ConnOf(w)] ELSE 0
             h == [worker[w] EXCEPT !.stage = "loaded", !.from = from]
  <2>1. worker' = [worker EXCEPT ![w] = h]
    BY <1>1, <1>6 DEF Load
  <2>2. from \in Nat /\ feed[ConnOf(w)] \in Nat /\ from <= feed[ConnOf(w)]
    BY <1>3 DEF IInv, TypeOK, ConnectionInv
  <2> HIDE DEF from
  <2>3. /\ h \in WorkerState /\ h.stage = "loaded" /\ h.from = from
        /\ h.row = worker[w].row
    BY <1>1, <2>2 DEF WorkerState, Stages
  <2> HIDE DEF h
  <2>4. worker'[w] = h
    BY <1>1, <2>1
  <2>5. WorkerInv(w)'
    BY <1>3, <1>4, <2>2, <2>3, <2>4 DEF WorkerInv, ConnOf, Keep, providerVars
  <2> QED
    BY <1>4, <2>1, <2>3, <2>5, MemoryStep
<1> QED
  BY <1>5, <1>6

LEMMA FetchStep ==
    ASSUME IInv, NEW w \in Workers, Fetch(w)
    PROVE  IInv'
<1> DEFINE h == [worker[w] EXCEPT !.stage = "fetched", !.to = feed[ConnOf(w)]]
<1>1. worker[w] \in WorkerState /\ worker \in [Workers -> WorkerState]
  BY DEF IInv, TypeOK
<1>2. /\ worker[w].row \in Row /\ ConnOf(w) \in Connections /\ item[ConnOf(w)] # "none"
      /\ worker[w].from <= feed[ConnOf(w)]
  BY RowConn DEF IInv, WorkerInv, ConnOf, Fetch
<1>3. feed[ConnOf(w)] \in Nat /\ worker[w].from \in Nat
  BY <1>1, <1>2 DEF IInv, TypeOK, WorkerState
<1>4. worker' = [worker EXCEPT ![w] = h] /\ Keep /\ UNCHANGED requestVars
  BY <1>1 DEF Fetch
<1>5. /\ h \in WorkerState /\ h.stage = "fetched" /\ h.row = worker[w].row
      /\ h.from = worker[w].from /\ h.to = feed[ConnOf(w)]
  BY <1>1, <1>3 DEF WorkerState, Stages
<1> HIDE DEF h
<1>6. worker'[w] = h
  BY <1>1, <1>4
<1>7. WorkerInv(w)'
  BY <1>2, <1>3, <1>4, <1>5, <1>6 DEF WorkerInv, ConnOf, Keep, providerVars
<1> QED
  BY <1>4, <1>5, <1>7, MemoryStep

LEMMA FetchAccountsOnlyStep ==
    ASSUME IInv, NEW w \in Workers, FetchAccountsOnly(w)
    PROVE  IInv'
<1>1. worker[w] \in WorkerState /\ worker \in [Workers -> WorkerState]
  BY DEF IInv, TypeOK
<1>2. PICK e \in Failures :
          worker' = [worker EXCEPT ![w].stage = "observed", ![w].error = e]
  BY DEF FetchAccountsOnly
<1> DEFINE h == [worker[w] EXCEPT !.stage = "observed", !.error = e]
<1>3. worker' = [worker EXCEPT ![w] = h] /\ Keep /\ UNCHANGED requestVars
  BY <1>1, <1>2 DEF FetchAccountsOnly
<1>4. h \in WorkerState /\ h.stage = "observed" /\ h.row = worker[w].row
  BY <1>1, FailuresAssumption DEF WorkerState, Stages, Errors
<1> HIDE DEF h
<1>5. worker'[w] = h
  BY <1>1, <1>3
<1>6. WorkerInv(w)'
  BY <1>3, <1>4, <1>5 DEF IInv, WorkerInv, FetchAccountsOnly, Keep, providerVars
<1> QED
  BY <1>3, <1>4, <1>6, MemoryStep

LEMMA FetchFailsStep ==
    ASSUME IInv, NEW w \in Workers, FetchFails(w)
    PROVE  IInv'
<1>1. \E e \in Errors : Raise(w, e)
  BY FailuresAssumption DEF FetchFails, Errors
<1> QED
  BY <1>1, RaiseStep DEF FetchFails

LEMMA StepFailsStep ==
    ASSUME IInv, NEW w \in Workers, StepFails(w)
    PROVE  IInv'
BY RaiseStep DEF StepFails, Errors

LEMMA CrashStep ==
    ASSUME IInv, NEW w \in Workers, Crash(w)
    PROVE  IInv'
<1>1. Idle \in WorkerState /\ Idle.stage = "idle"
  BY BoundsAssumption DEF Idle, WorkerState, Stages, Errors
<1>2. worker' = [worker EXCEPT ![w] = Idle] /\ worker'[w] = Idle
  BY DEF Crash, IInv, TypeOK
<1>3. WorkerInv(w)'
  BY <1>1, <1>2 DEF WorkerInv
<1> QED
  BY <1>1, <1>2, <1>3, MemoryStep DEF Crash

\* A worker that goes on with its row, or gives it up, keeps every worker's part
\* of the invariant while Items are only removed.
LEMMA MovedWorkers ==
    ASSUME IInv, NEW w \in Workers, NEW h \in WorkerState,
           worker' = [worker EXCEPT ![w] = h],
           feed' = feed,
           \A c \in Connections :
               item'[c] = item[c] \/ (item[c] # "none" /\ item'[c] = "removed"),
           \/ h.stage = "idle"
           \/ /\ worker[w].stage # "idle" /\ h.row = worker[w].row
              /\ \/ h.stage \in {"done", "failing"}
                 \/ h.stage = "removed" /\ item'[h.row.conn] = "removed"
    PROVE  \A v \in Workers : WorkerInv(v)'
<1>1. worker'[w] = h /\ \A v \in Workers \ {w} : worker'[v] = worker[v]
  BY DEF IInv, TypeOK
<1>2. CASE h.stage = "idle"
  BY <1>1, <1>2, OtherWorkers DEF WorkerInv
<1>3. CASE h.stage # "idle"
  <2>1. worker[w].row \in Row /\ item[worker[w].row.conn] # "none"
    BY <1>3 DEF IInv, WorkerInv
  <2>2. worker[w].row.conn \in Connections
    BY <2>1, RowConn
  <2>3. WorkerInv(w)'
    BY <1>1, <1>3, <2>1, <2>2 DEF WorkerInv
  <2> QED
    BY <1>1, <2>3, OtherWorkers
<1> QED
  BY <1>2, <1>3

\* The connection of a worker that has a row is linked.
LEMMA WorkerConn ==
    ASSUME IInv, NEW w \in Workers, worker[w].stage # "idle"
    PROVE  /\ worker[w].row \in Row /\ ConnOf(w) \in Connections
           /\ item[ConnOf(w)] # "none" /\ status[ConnOf(w)] # "unlinked"
BY RowConn DEF IInv, WorkerInv, ConnectionInv, ConnOf

LEMMA RemoveItemStep ==
    ASSUME IInv, NEW w \in Workers, RemoveItem(w)
    PROVE  IInv'
<1>1. ConnOf(w) \in Connections /\ item[ConnOf(w)] # "none"
  BY WorkerConn DEF RemoveItem
<1>2. PICK h \in WorkerState :
          h.stage = "removed" /\ h.row = worker[w].row /\ worker' = [worker EXCEPT ![w] = h]
  BY MoveType DEF RemoveItem
<1>3. item' = [item EXCEPT ![ConnOf(w)] = "removed"]
  BY DEF RemoveItem
<1>4. TypeOK'
  BY <1>2, <1>3 DEF IInv, TypeOK, RemoveItem, connectionVars, requestVars
<1>5. \A c \in Connections :
          item'[c] = item[c] \/ (item[c] # "none" /\ item'[c] = "removed")
  BY <1>1, <1>3 DEF IInv, TypeOK
<1>6. item'[ConnOf(w)] = "removed"
  BY <1>1, <1>3 DEF IInv, TypeOK
<1>7. \A v \in Workers : WorkerInv(v)'
  BY <1>2, <1>5, <1>6, MovedWorkers DEF RemoveItem, ConnOf
<1>8. JobsLinked'
  BY <1>5, RowConn DEF IInv, JobsLinked, RemoveItem
<1>9. \A c \in Connections : ConnectionInv(c)'
  BY <1>5 DEF IInv, ConnectionInv, RemoveItem, connectionVars
<1> QED
  BY <1>4, <1>7, <1>8, <1>9 DEF IInv

LEMMA RemoveItemFailsStep ==
    ASSUME IInv, NEW w \in Workers, RemoveItemFails(w)
    PROVE  IInv'
<1>1. ConnOf(w) \in Connections /\ item[ConnOf(w)] # "none"
  BY WorkerConn DEF RemoveItemFails
<1>2. worker[w] \in WorkerState /\ worker \in [Workers -> WorkerState]
  BY DEF IInv, TypeOK
<1>3. PICK e \in Errors : Raise(w, e)
  BY FailuresAssumption DEF RemoveItemFails, Errors
<1> DEFINE h == [worker[w] EXCEPT !.stage = "failing", !.error = e,
                                  !.from = 0, !.to = 0]
<1>4. h \in WorkerState /\ h.stage = "failing" /\ h.row = worker[w].row
  BY <1>2 DEF WorkerState, Stages
<1>5. worker' = [worker EXCEPT ![w] = h]
  BY <1>2, <1>3 DEF Raise
<1> HIDE DEF h
<1>6. /\ item' \in [Connections -> {"none", "present", "removed"}]
      /\ \A c \in Connections :
            item'[c] = item[c] \/ (item[c] # "none" /\ item'[c] = "removed")
  BY <1>1 DEF IInv, TypeOK, RemoveItemFails
<1>7. TypeOK'
  BY <1>4, <1>5, <1>6 DEF IInv, TypeOK, RemoveItemFails, connectionVars, requestVars
<1>8. \A v \in Workers : WorkerInv(v)'
  BY <1>4, <1>5, <1>6, MovedWorkers DEF RemoveItemFails
<1>9. JobsLinked'
  BY <1>6, RowConn DEF IInv, JobsLinked, RemoveItemFails
<1>10. \A c \in Connections : ConnectionInv(c)'
  BY <1>6 DEF IInv, ConnectionInv, RemoveItemFails, connectionVars
<1> QED
  BY <1>7, <1>8, <1>9, <1>10 DEF IInv

LEMMA FinalizeRevocationStep ==
    ASSUME IInv, NEW w \in Workers, FinalizeRevocation(w)
    PROVE  IInv'
<1> DEFINE c == ConnOf(w)
<1>1. c \in Connections /\ item[c] = "removed" /\ status[c] # "unlinked"
  BY WorkerConn DEF IInv, WorkerInv, FinalizeRevocation, ConnOf
<1>2. PICK h \in WorkerState :
          h.stage = "done" /\ h.row = worker[w].row /\ worker' = [worker EXCEPT ![w] = h]
  BY MoveType DEF FinalizeRevocation
<1>3. /\ status' = [status EXCEPT ![c] = "revoked"]
      /\ token' = [token EXCEPT ![c] = FALSE]
      /\ cursor' = [cursor EXCEPT ![c] = 0]
      /\ account' = [account EXCEPT ![c] = IF @ = "none" THEN @ ELSE "archived"]
      /\ UNCHANGED <<initial, requestVars, jobs, item, feed, applied>>
  BY DEF FinalizeRevocation, providerVars
<1> HIDE DEF c
<1>4. TypeOK'
  BY <1>1, <1>2, <1>3 DEF IInv, TypeOK, Statuses, requestVars
<1>5. JobsLinked'
  BY <1>3 DEF IInv, JobsLinked
<1>6. \A v \in Workers : WorkerInv(v)'
  BY <1>2, <1>3, MovedWorkers DEF FinalizeRevocation
<1>7. \A d \in Connections : ConnectionInv(d)'
  BY <1>1, <1>3 DEF IInv, TypeOK, ConnectionInv
<1> QED
  BY <1>4, <1>5, <1>6, <1>7 DEF IInv

LEMMA IdleType ==
    /\ Idle \in WorkerState /\ Idle.stage = "idle"
BY BoundsAssumption DEF Idle, WorkerState, Stages, Errors

LEMMA FinishJobStep ==
    ASSUME IInv, NEW w \in Workers, FinishJob(w)
    PROVE  IInv'
<1>1. worker[w].row \in Row /\ item[worker[w].row.conn] # "none"
  BY WorkerConn DEF FinishJob, ConnOf
<1> DEFINE job == [jobs[worker[w].row] EXCEPT !.state = "succeeded", !.due = FALSE]
<1>2. jobs \in [Row -> Job]
  BY DEF IInv, TypeOK
<1>3. job \in Job
  BY <1>1, <1>2 DEF Job, JobStates
<1>4. jobs' = [jobs EXCEPT ![worker[w].row] = job]
  BY <1>1, <1>2 DEF FinishJob
<1> HIDE DEF job
<1>5. TypeOK'
  BY <1>3, <1>4, IdleType DEF IInv, TypeOK, FinishJob, connectionVars, requestVars,
                              providerVars
<1>6. JobsLinked'
  BY <1>1, <1>4 DEF IInv, TypeOK, JobsLinked, FinishJob, providerVars
<1>7. \A v \in Workers : WorkerInv(v)'
  BY IdleType, MovedWorkers DEF FinishJob, providerVars
<1> QED
  BY <1>5, <1>6, <1>7, StatusAndQueueStep DEF FinishJob, connectionVars, providerVars

LEMMA RetryOrDeadLetterStep ==
    ASSUME IInv, NEW w \in Workers, RetryOrDeadLetter(w)
    PROVE  IInv'
<1> DEFINE row == worker[w].row
           dead == \/ worker[w].error # "retryable"
                   \/ worker[w].attempts >= MaxAttempts
           job == [jobs[row] EXCEPT !.state = IF dead THEN "dead" ELSE "queued",
                                    !.due = FALSE]
<1>1. row \in Row /\ row.conn \in Connections /\ item[row.conn] # "none"
      /\ status[row.conn] # "unlinked"
  BY WorkerConn DEF RetryOrDeadLetter, ConnOf
<1>2. jobs \in [Row -> Job] /\ status \in [Connections -> Statuses]
  BY DEF IInv, TypeOK
<1>3. job \in Job
  BY <1>1, <1>2 DEF Job, JobStates
<1>4. \/ status' = status /\ jobs' = jobs
      \/ /\ status' = [status EXCEPT ![row.conn] = StatusAfterFailure(w)]
         /\ jobs' = [jobs EXCEPT ![row] = job]
  BY <1>1, <1>2 DEF RetryOrDeadLetter
<1>5. /\ StatusAfterFailure(w) \in Statuses \ {"unlinked"}
      /\ StatusAfterFailure(w) = "revoked" <=> status[row.conn] = "revoked"
  BY <1>1, <1>2 DEF StatusAfterFailure, Statuses, ConnOf
<1>6. worker' = [worker EXCEPT ![w] = Idle]
  BY DEF RetryOrDeadLetter
<1>7. UNCHANGED <<token, cursor, initial, account, requestVars, item, feed, applied>>
  BY DEF RetryOrDeadLetter, providerVars
<1>8. \A d \in Connections :
          \/ status'[d] = status[d]
          \/ {status[d], status'[d]} \cap {"unlinked", "revoked"} = {}
  BY <1>1, <1>2, <1>4, <1>5
<1> HIDE DEF row, job
<1>9. TypeOK'
  BY <1>2, <1>3, <1>4, <1>5, <1>6, <1>7, IdleType DEF IInv, TypeOK, requestVars
<1>10. JobsLinked'
  BY <1>1, <1>2, <1>4, <1>7 DEF IInv, JobsLinked
<1>11. \A v \in Workers : WorkerInv(v)'
  BY <1>6, <1>7, IdleType, MovedWorkers
<1> QED
  BY <1>7, <1>8, <1>9, <1>10, <1>11, StatusAndQueueStep

\* Whatever a sync retires is linked and not final.
LEMMA RetiredLinked ==
    ASSUME IInv, NEW w \in Workers, worker[w].stage # "idle", Accepts(w)
    PROVE  /\ Retired(ConnOf(w)) \subseteq Connections
           /\ \A d \in Retired(ConnOf(w)) \cup {ConnOf(w)} :
                 /\ status[d] \notin {"unlinked", "revoked", "revocation_pending"}
                 /\ item[d] # "none"
<1>1. /\ ConnOf(w) \in Connections
      /\ status[ConnOf(w)] \notin {"unlinked", "revoked", "revocation_pending"}
  BY WorkerConn DEF Accepts, Superseded, Ending
<1>2. \A d \in Duplicates(ConnOf(w)) :
          d \in Connections /\ status[d] \in {"syncing", "healthy"}
  BY DEF Duplicates
<1> QED
  BY <1>1, <1>2 DEF Retired, IInv, ConnectionInv

\* The queue and the accounts after a sync retired some connections.
LEMMA RetireQueue ==
    ASSUME IInv, NEW w \in Workers, worker[w].stage # "idle", Accepts(w),
           jobs' = Enqueue(Retired(ConnOf(w)), "revoke"), item' = item
    PROVE  jobs' \in [Row -> Job] /\ JobsLinked'
<1>1. \A d \in Retired(ConnOf(w)) : item[d] # "none"
  BY RetiredLinked
<1>2. jobs' \in [Row -> Job]
  BY EnqueueType DEF IInv
<1> QED
  BY <1>1, <1>2, EnqueueLinked DEF IInv, JobsLinked

LEMMA RejectStep ==
    ASSUME IInv, NEW w \in Workers, worker[w].stage # "idle", RejectSync(w),
           UNCHANGED <<connectionVars, jobs, applied, requestVars, providerVars>>
    PROVE  IInv'
BY RaiseStep DEF RejectSync, Keep, Errors

LEMMA RetireSelfStep ==
    ASSUME IInv, NEW w \in Workers, worker[w].stage # "idle", RetireSelf(w),
           UNCHANGED <<requestVars, providerVars>>
    PROVE  IInv'
<1> DEFINE gone == Retired(ConnOf(w))
<1>1. Accepts(w) /\ Move(w, "done") /\ jobs' = Enqueue(gone, "revoke")
  BY DEF RetireSelf
<1>2. /\ status' = [d \in Connections |->
                      IF d \in gone THEN StatusOfRetired(d) ELSE status[d]]
      /\ account' = Exclude(gone)
      /\ UNCHANGED <<token, cursor, initial, applied>>
  BY DEF RetireSelf
<1>3. jobs' \in [Row -> Job] /\ JobsLinked'
  BY <1>1, RetireQueue DEF providerVars
<1>4. PICK h \in WorkerState :
          h.stage = "done" /\ h.row = worker[w].row /\ worker' = [worker EXCEPT ![w] = h]
  BY <1>1, MoveType
<1>5. \A d \in gone : status[d] \notin {"unlinked", "revoked"}
  BY <1>1, RetiredLinked
<1> HIDE DEF gone
<1>6. TypeOK'
  BY <1>2, <1>3, <1>4 DEF IInv, TypeOK, StatusOfRetired, Statuses, Exclude,
                          requestVars, providerVars
<1>7. \A v \in Workers : WorkerInv(v)'
  BY <1>4, MovedWorkers DEF providerVars
<1>8. \A d \in Connections :
          \/ status'[d] = status[d]
          \/ {status[d], status'[d]} \cap {"unlinked", "revoked"} = {}
  BY <1>2, <1>5 DEF StatusOfRetired
<1> QED
  BY <1>2, <1>3, <1>6, <1>7, <1>8, StatusAndQueueStep DEF providerVars

\* What KeepSelf does to types, rows and statuses.
LEMMA KeepSelfEffect ==
    ASSUME IInv, NEW w \in Workers, worker[w].stage # "idle",
           NEW next \in {"healthy", "syncing"}, KeepSelf(w, next), item' = item
    PROVE  /\ jobs' \in [Row -> Job] /\ JobsLinked'
           /\ status' \in [Connections -> Statuses]
           /\ account' \in [Connections -> {"none", "excluded", "included", "archived"}]
           /\ token' = token
           /\ \A d \in Connections :
                 \/ status'[d] = status[d]
                 \/ {status[d], status'[d]} \cap {"unlinked", "revoked"} = {}
           /\ {status[ConnOf(w)], status'[ConnOf(w)]} \cap {"unlinked", "revoked"} = {}
<1> DEFINE c == ConnOf(w)
           gone == Retired(c)
<1>1. /\ Accepts(w) /\ jobs' = Enqueue(gone, "revoke") /\ token' = token
      /\ status' = [d \in Connections |->
                      IF d = c THEN next
                      ELSE IF d \in gone THEN StatusOfRetired(d) ELSE status[d]]
      /\ account' = [Exclude(gone) EXCEPT ![c] =
                       IF @ \in {"none", "archived"} THEN "excluded" ELSE @]
  BY DEF KeepSelf
<1>2. jobs' \in [Row -> Job] /\ JobsLinked'
  BY <1>1, RetireQueue
<1>3. c \in Connections
  BY WorkerConn
<1>4. \A d \in gone \cup {c} : status[d] \notin {"unlinked", "revoked"}
  BY <1>1, RetiredLinked
<1> HIDE DEF c, gone
<1>5. Exclude(gone) \in [Connections -> {"none", "excluded", "included", "archived"}]
  BY DEF IInv, TypeOK, Exclude
<1>6. /\ status' \in [Connections -> Statuses]
      /\ account' \in [Connections -> {"none", "excluded", "included", "archived"}]
  BY <1>1, <1>3, <1>5 DEF IInv, TypeOK, StatusOfRetired, Statuses
<1>7. /\ \A d \in Connections :
            \/ status'[d] = status[d]
            \/ {status[d], status'[d]} \cap {"unlinked", "revoked"} = {}
      /\ {status[c], status'[c]} \cap {"unlinked", "revoked"} = {}
  BY <1>1, <1>3, <1>4 DEF StatusOfRetired
<1> QED
  BY <1>1, <1>2, <1>6, <1>7 DEF c

LEMMA CommitSyncStep ==
    ASSUME IInv, NEW w \in Workers, CommitSync(w)
    PROVE  IInv'
<1> DEFINE c == ConnOf(w)
<1>1. worker[w].stage = "fetched" /\ worker[w] \in WorkerState
  BY DEF IInv, TypeOK, CommitSync
<1>2. UNCHANGED <<requestVars, providerVars>>
  BY DEF CommitSync
<1>3. CASE RejectSync(w) /\ UNCHANGED <<connectionVars, jobs, applied>>
  BY <1>1, <1>2, <1>3, RejectStep
<1>4. CASE RetireSelf(w)
  BY <1>1, <1>2, <1>4, RetireSelfStep
<1>5. ASSUME NEW ready \in BOOLEAN,
             KeepSelf(w, IF ready THEN "healthy" ELSE "syncing"),
             initial' = [initial EXCEPT ![c] = ready],
             cursor' = [cursor EXCEPT ![c] = worker[w].to],
             applied' = [applied EXCEPT ![c] = @ + (worker[w].to - worker[w].from)],
             Move(w, "done")
      PROVE  IInv'
  <2>1. c \in Connections
    BY <1>1, WorkerConn
  <2>2. /\ worker[w].from \in Nat /\ worker[w].to \in Nat /\ feed[c] \in Nat
        /\ worker[w].from <= worker[w].to /\ worker[w].to <= feed[c]
    BY <1>1, <2>1 DEF IInv, TypeOK, WorkerState, WorkerInv, ConnOf
  <2>3. cursor[c] = worker[w].from /\ applied[c] = cursor[c]
    <3>1. ~Superseded(w) /\ ~CursorMoved(w)
      BY <1>5 DEF KeepSelf, Accepts
    <3> QED
      BY <2>1, <3>1 DEF Superseded, Ending, CursorMoved, IInv, ConnectionInv
  <2>4. applied' = [applied EXCEPT ![c] = worker[w].to]
    <3>1. applied[c] + (worker[w].to - worker[w].from) = worker[w].to
      BY <2>2, <2>3
    <3> QED
      BY <1>5, <3>1
  <2>5. PICK h \in WorkerState :
            h.stage = "done" /\ h.row = worker[w].row /\ worker' = [worker EXCEPT ![w] = h]
    BY <1>5, MoveType
  <2>6. item' = item /\ feed' = feed
    BY <1>2 DEF providerVars
  <2>7. /\ jobs' \in [Row -> Job] /\ JobsLinked'
        /\ status' \in [Connections -> Statuses]
        /\ account' \in [Connections -> {"none", "excluded", "included", "archived"}]
        /\ token' = token
        /\ \A d \in Connections :
              \/ status'[d] = status[d]
              \/ {status[d], status'[d]} \cap {"unlinked", "revoked"} = {}
        /\ {status[c], status'[c]} \cap {"unlinked", "revoked"} = {}
    BY <1>1, <1>5, <2>6, KeepSelfEffect
  <2> HIDE DEF c
  <2>8. TypeOK'
    BY <1>2, <1>5, <2>2, <2>4, <2>5, <2>7 DEF IInv, TypeOK, requestVars, providerVars
  <2>9. \A v \in Workers : WorkerInv(v)'
    BY <1>1, <2>5, <2>6, MovedWorkers
  <2>10. \A d \in Connections : ConnectionInv(d)'
    <3> SUFFICES ASSUME NEW d \in Connections
                 PROVE  ConnectionInv(d)'
      OBVIOUS
    <3>1. ConnectionInv(d)
      BY DEF IInv
    <3>2. CASE d # c
      BY <1>5, <2>4, <2>6, <2>7, <3>1, <3>2 DEF ConnectionInv, IInv, TypeOK
    <3>3. CASE d = c
      <4>1. cursor'[c] = worker[w].to /\ applied'[c] = worker[w].to
        BY <1>5, <2>1, <2>4 DEF IInv, TypeOK
      <4> QED
        BY <2>2, <2>6, <2>7, <3>1, <3>3, <4>1 DEF ConnectionInv
    <3> QED
      BY <3>2, <3>3
  <2> QED
    BY <2>7, <2>8, <2>9, <2>10 DEF IInv
<1> QED
  BY <1>3, <1>4, <1>5 DEF CommitSync

LEMMA CommitAccountsStep ==
    ASSUME IInv, NEW w \in Workers, CommitAccounts(w)
    PROVE  IInv'
<1>1. worker[w].stage # "idle"
  BY DEF CommitAccounts
<1>2. UNCHANGED <<requestVars, providerVars>>
  BY DEF CommitAccounts
<1>3. CASE RejectSync(w) /\ UNCHANGED <<connectionVars, jobs, applied>>
  BY <1>1, <1>2, <1>3, RejectStep
<1>4. CASE RetireSelf(w)
  BY <1>1, <1>2, <1>4, RetireSelfStep
<1>5. CASE KeepSelf(w, "syncing") /\ Move(w, "failing")
           /\ UNCHANGED <<initial, cursor, applied>>
  <2>1. PICK h \in WorkerState :
            h.stage = "failing" /\ h.row = worker[w].row /\ worker' = [worker EXCEPT ![w] = h]
    BY <1>5, MoveType
  <2>2. item' = item /\ feed' = feed
    BY <1>2 DEF providerVars
  <2>3. /\ jobs' \in [Row -> Job] /\ JobsLinked'
        /\ status' \in [Connections -> Statuses]
        /\ account' \in [Connections -> {"none", "excluded", "included", "archived"}]
        /\ token' = token
        /\ \A d \in Connections :
              \/ status'[d] = status[d]
              \/ {status[d], status'[d]} \cap {"unlinked", "revoked"} = {}
    BY <1>1, <1>5, <2>2, KeepSelfEffect
  <2>4. TypeOK'
    BY <1>2, <1>5, <2>1, <2>3 DEF IInv, TypeOK, requestVars, providerVars
  <2>5. \A v \in Workers : WorkerInv(v)'
    BY <1>1, <2>1, <2>2, MovedWorkers
  <2> QED
    BY <1>5, <2>2, <2>3, <2>4, <2>5, StatusAndQueueStep
<1> QED
  BY <1>3, <1>4, <1>5 DEF CommitAccounts

------------------------------------------------------------------------------
(* The theorems.                                                           *)

LEMMA InitInv == Init => IInv
<1> SUFFICES ASSUME Init
             PROVE  IInv
  OBVIOUS
<1>1. TypeOK
  BY IdleType, BoundsAssumption DEF Init, TypeOK, Statuses, Job, JobStates
<1>2. JobsLinked
  BY DEF Init, JobsLinked
<1>3. \A w \in Workers : WorkerInv(w)
  BY IdleType DEF Init, WorkerInv
<1>4. \A c \in Connections : ConnectionInv(c)
  BY DEF Init, ConnectionInv
<1> QED
  BY <1>1, <1>2, <1>3, <1>4 DEF IInv

LEMMA NextInv == IInv /\ [Next]_vars => IInv'
<1> SUFFICES ASSUME IInv, [Next]_vars
             PROVE  IInv'
  OBVIOUS
<1>1. CASE UNCHANGED vars
  BY <1>1 DEF IInv, TypeOK, JobsLinked, WorkerInv, ConnectionInv, vars,
              connectionVars, requestVars, providerVars
<1>2. CASE Request
  BY <1>2, LinkStep, RequestSyncStep, DisconnectStep, SessionAndInclusionSteps,
     CompleteUpdateStep, RequestDeletionStep DEF Request
<1>3. CASE Environment
  BY <1>3, WebhookStep, MaintainStep, TimePassesStep, GrowStep DEF Environment
<1>4. ASSUME NEW w \in Workers, Work(w)
      PROVE  IInv'
  <2>1. CASE \E r \in Row : Claim(w, r)
    BY <2>1, ClaimStep
  <2>2. CASE Load(w)
    BY <2>2, LoadStep
  <2>3. CASE Answer(w)
    BY <2>3, FetchStep, FetchAccountsOnlyStep, FetchFailsStep, RemoveItemStep,
       RemoveItemFailsStep DEF Answer
  <2>4. CASE Commit(w)
    BY <2>4, CommitSyncStep, CommitAccountsStep, FinalizeRevocationStep DEF Commit
  <2>5. CASE Close(w)
    BY <2>5, FinishJobStep, RetryOrDeadLetterStep DEF Close
  <2>6. CASE StepFails(w) \/ Crash(w)
    BY <2>6, StepFailsStep, CrashStep
  <2> QED
    BY <1>4, <2>1, <2>2, <2>3, <2>4, <2>5, <2>6 DEF Work, Advance
<1> QED
  BY <1>1, <1>2, <1>3, <1>4 DEF Next

\* The token, the Item, the cursor and what the workers hold agree in every
\* reachable state.
THEOREM Invariant == Spec => []IInv
BY InitInv, NextInv, PTL DEF Spec

\* Every variable keeps its type; that a sync never counts backwards is part of it.
THEOREM TypeCorrect == Spec => []TypeOK
<1>1. IInv => TypeOK
  BY DEF IInv
<1> QED
  BY <1>1, Invariant, PTL

\* The ledger of a connection holds every update up to its cursor exactly once.
THEOREM LedgerMatchesCursor == Spec => []CursorIsLedger
<1>1. IInv => CursorIsLedger
  BY DEF IInv, ConnectionInv, CursorIsLedger
<1> QED
  BY <1>1, Invariant, PTL

\* The token of a connection is erased after Plaid removed the Item, never before.
THEOREM TokenOutlivesItem == Spec => []ErasedAfterRemoval
<1>1. IInv => ErasedAfterRemoval
  BY DEF IInv, ConnectionInv, ErasedAfterRemoval
<1> QED
  BY <1>1, Invariant, PTL

\* The steps that a revoked connection could not survive are all excluded.
LEMMA RevokedStays ==
    ASSUME IInv, [Next]_vars, NEW c \in Connections, status[c] = "revoked"
    PROVE  status'[c] = "revoked"
<1>1. status \in [Connections -> Statuses] /\ ~token[c]
  BY DEF IInv, TypeOK, ConnectionInv
<1>2. CASE UNCHANGED vars
  BY <1>2 DEF vars, connectionVars
<1>3. CASE Request
  BY <1>1, <1>3 DEF Request, Link, RequestSync, Disconnect, SetInclusion, StartUpdate,
     StoreUpdateSession, CompleteUpdate, ExpireUpdate, RequestDeletion, Ending,
     connectionVars
<1>4. CASE Environment
  BY <1>1, <1>4, PayloadAssumption DEF Environment, Webhook, PermissionRevoked,
     NeedsAttention, SyncUpdates, Maintain, TimePasses, Grow, connectionVars
<1>5. ASSUME NEW w \in Workers, Work(w)
      PROVE  status'[c] = "revoked"
  <2>1. CASE \/ \E r \in Row : Claim(w, r)
             \/ Load(w) \/ Answer(w) \/ StepFails(w) \/ Crash(w) \/ FinishJob(w)
    BY <2>1 DEF Claim, Load, Answer, Fetch, FetchAccountsOnly, FetchFails, RemoveItem,
       RemoveItemFails, StepFails, Crash, FinishJob, Keep, connectionVars
  <2>2. CASE FinalizeRevocation(w)
    BY <1>1, <2>2 DEF FinalizeRevocation
  <2>3. CASE RetryOrDeadLetter(w)
    BY <1>1, <2>3 DEF RetryOrDeadLetter, StatusAfterFailure, ConnOf
  <2>4. CASE CommitSync(w) \/ CommitAccounts(w)
    <3>1. worker[w].stage # "idle"
      BY <2>4 DEF CommitSync, CommitAccounts
    <3>2. CASE UNCHANGED connectionVars
      BY <3>2 DEF connectionVars
    <3>3. CASE RetireSelf(w)
      BY <1>1, <3>3 DEF RetireSelf, StatusOfRetired
    <3>4. ASSUME NEW next, KeepSelf(w, next)
          PROVE  status'[c] = "revoked"
      <4>1. c # ConnOf(w)
        BY <3>1, <3>4, RetiredLinked DEF KeepSelf
      <4> QED
        BY <3>4, <4>1 DEF KeepSelf, StatusOfRetired
    <3> QED
      BY <2>4, <3>2, <3>3, <3>4 DEF CommitSync, CommitAccounts
  <2> QED
    BY <1>5, <2>1, <2>2, <2>3, <2>4 DEF Work, Advance, Commit, Close
<1> QED
  BY <1>2, <1>3, <1>4, <1>5 DEF Next

\* A revoked connection stays revoked, whatever webhook, update session, late
\* sync or failed job comes after.
THEOREM RevocationIsFinal == Spec => RevokedIsFinal
<1>1. IInv /\ [Next]_vars =>
          [\A c \in Connections : status[c] = "revoked" => status'[c] = "revoked"]_vars
  BY RevokedStays
<1> QED
  BY <1>1, Invariant, PTL DEF Spec, RevokedIsFinal

------------------------------------------------------------------------------
(* The connections implement LedgerReplica.                                *)

\* Steps the replica does not see.
LEMMA Unseen ==
    ASSUME UNCHANGED <<token, item, feed, applied>>
    PROVE  UNCHANGED Replica!vars
BY DEF Replica!vars, AccessTo

\* A step that changes the access to one connection and nothing else of it.
LEMMA AccessStep ==
    ASSUME NEW c \in Connections, NEW x,
           AccessTo'[c] = x,
           \A d \in Connections \ {c} : item'[d] = item[d] /\ (token'[d] <=> token[d])
    PROVE  AccessTo' = [AccessTo EXCEPT ![c] = x]
BY DEF AccessTo

LEMMA LinkRefines ==
    ASSUME IInv, NEW c \in Connections, Link(c)
    PROVE  Replica!Grant(c)
<1>1. item[c] = "none" /\ ~token[c]
  BY DEF IInv, ConnectionInv, Link
<1>2. item'[c] = "present"
  BY DEF IInv, TypeOK, Link
<1>3. \A d \in Connections \ {c} : item'[d] = item[d] /\ (token'[d] <=> token[d])
  BY DEF IInv, TypeOK, Link
<1>4. AccessTo[c] = "none" /\ AccessTo'[c] = "granted"
  BY <1>1, <1>2 DEF AccessTo
<1> QED
  BY <1>3, <1>4, AccessStep DEF Replica!Grant, Link

LEMMA GrowRefines ==
    ASSUME IInv, NEW c \in Connections, Grow(c)
    PROVE  Replica!Append(c)
<1>1. AccessTo[c] = "granted" /\ AccessTo' = AccessTo
  BY DEF AccessTo, Grow, connectionVars
<1> QED
  BY <1>1 DEF Replica!Append, Grow

LEMMA RemovalRefines ==
    ASSUME IInv, NEW w \in Workers, worker[w].stage # "idle",
           item' = [item EXCEPT ![ConnOf(w)] = "removed"],
           UNCHANGED <<token, feed, applied>>
    PROVE  Replica!Remove(ConnOf(w)) \/ UNCHANGED Replica!vars
<1> DEFINE c == ConnOf(w)
<1>1. c \in Connections /\ item[c] \in {"present", "removed"}
  BY WorkerConn DEF IInv, TypeOK
<1>2. CASE item[c] = "removed"
  <2>1. item' = item
    BY <1>1, <1>2 DEF IInv, TypeOK
  <2> QED
    BY <2>1, Unseen
<1>3. CASE item[c] = "present"
  <2>1. token[c]
    BY <1>1, <1>3 DEF IInv, ConnectionInv
  <2>2. item'[c] = "removed" /\ \A d \in Connections \ {c} : item'[d] = item[d]
    BY <1>1 DEF IInv, TypeOK
  <2>3. AccessTo[c] = "granted" /\ AccessTo'[c] = "removed"
    BY <1>1, <1>3, <2>1, <2>2 DEF AccessTo
  <2> HIDE DEF c
  <2>4. AccessTo' = [AccessTo EXCEPT ![c] = "removed"]
    BY <1>1, <2>2, <2>3, AccessStep
  <2> QED
    BY <2>3, <2>4 DEF Replica!Remove, c
<1> QED
  BY <1>1, <1>2, <1>3

LEMMA ErasureRefines ==
    ASSUME IInv, NEW w \in Workers, FinalizeRevocation(w)
    PROVE  Replica!Erase(ConnOf(w)) \/ UNCHANGED Replica!vars
<1> DEFINE c == ConnOf(w)
<1>1. c \in Connections /\ item[c] = "removed"
  BY WorkerConn DEF IInv, WorkerInv, FinalizeRevocation, ConnOf
<1>2. /\ token' = [token EXCEPT ![c] = FALSE]
      /\ UNCHANGED <<item, feed, applied>>
  BY DEF FinalizeRevocation, providerVars
<1> HIDE DEF c
<1>3. CASE ~token[c]
  <2>1. token' = token
    BY <1>1, <1>2, <1>3 DEF IInv, TypeOK
  <2> QED
    BY <1>2, <2>1, Unseen
<1>4. CASE token[c]
  <2>1. ~token'[c] /\ \A d \in Connections \ {c} : token'[d] = token[d]
    BY <1>1, <1>2 DEF IInv, TypeOK
  <2>2. AccessTo[c] = "removed" /\ AccessTo'[c] = "erased"
    BY <1>1, <1>2, <1>4, <2>1 DEF AccessTo
  <2>3. AccessTo' = [AccessTo EXCEPT ![c] = "erased"]
    BY <1>1, <1>2, <2>1, <2>2, AccessStep
  <2> QED
    BY <1>2, <2>2, <2>3 DEF Replica!Erase, c
<1> QED
  BY <1>3, <1>4

LEMMA CommitRefines ==
    ASSUME IInv, NEW w \in Workers, CommitSync(w)
    PROVE  Replica!Fold(ConnOf(w)) \/ UNCHANGED Replica!vars
<1> DEFINE c == ConnOf(w)
<1>1. worker[w].stage = "fetched" /\ c \in Connections /\ worker[w] \in WorkerState
  BY WorkerConn DEF CommitSync, IInv, TypeOK
<1>2. item' = item /\ feed' = feed
  BY DEF CommitSync, providerVars
<1>3. CASE UNCHANGED <<token, applied>>
  BY <1>2, <1>3, Unseen
<1>4. ASSUME NEW next, KeepSelf(w, next),
             applied' = [applied EXCEPT ![c] = @ + (worker[w].to - worker[w].from)]
      PROVE  Replica!Fold(c)
  <2>1. /\ worker[w].from \in Nat /\ worker[w].to \in Nat /\ feed[c] \in Nat
        /\ worker[w].from <= worker[w].to /\ worker[w].to <= feed[c]
    BY <1>1 DEF IInv, TypeOK, WorkerState, WorkerInv, ConnOf
  <2>2. ~Superseded(w) /\ ~CursorMoved(w) /\ token' = token
    BY <1>4 DEF KeepSelf, Accepts
  <2>3. applied[c] = worker[w].from
    BY <1>1, <2>2 DEF Superseded, Ending, CursorMoved, IInv, ConnectionInv
  <2>4. token[c] /\ item[c] \in {"present", "removed"}
    BY <1>1, <2>2, WorkerConn DEF Superseded, Ending, IInv, TypeOK, ConnectionInv
  <2> HIDE DEF c
  <2>5. AccessTo[c] \in {"granted", "removed"} /\ AccessTo' = AccessTo
    BY <1>1, <1>2, <2>2, <2>4 DEF AccessTo
  <2>6. applied[c] + (worker[w].to - worker[w].from) = worker[w].to
    BY <2>1, <2>3
  <2>7. applied' = [applied EXCEPT ![c] = worker[w].to]
    BY <1>4, <2>6
  <2>8. worker[w].to \in applied[c] .. feed[c]
    BY <2>1, <2>3
  <2> QED
    BY <1>2, <2>5, <2>7, <2>8 DEF Replica!Fold
<1> QED
  BY <1>3, <1>4 DEF CommitSync, RetireSelf, connectionVars

\* Every step of the connections is a step of the replica, or one it cannot see.
LEMMA StepRefines ==
    ASSUME IInv, [Next]_vars
    PROVE  [Replica!Next]_(Replica!vars)
<1>1. CASE UNCHANGED vars
  BY <1>1, Unseen DEF vars, connectionVars, providerVars
<1>2. CASE Request
  <2>1. CASE \E c \in Connections : Link(c)
    BY <2>1, LinkRefines DEF Replica!Next
  <2>2. CASE ~\E c \in Connections : Link(c)
    BY <1>2, <2>2, Unseen DEF Request, RequestSync, Disconnect, SetInclusion,
       StartUpdate, StoreUpdateSession, CompleteUpdate, ExpireUpdate,
       RequestDeletion, connectionVars, providerVars
  <2> QED
    BY <2>1, <2>2
<1>3. CASE Environment
  <2>1. CASE \E c \in Connections : Grow(c)
    BY <2>1, GrowRefines DEF Replica!Next
  <2>2. CASE ~\E c \in Connections : Grow(c)
    BY <1>3, <2>2, Unseen DEF Environment, Webhook, Maintain, TimePasses,
       connectionVars, providerVars
  <2> QED
    BY <2>1, <2>2
<1>4. ASSUME NEW w \in Workers, Work(w)
      PROVE  [Replica!Next]_(Replica!vars)
  <2>1. CASE \/ \E r \in Row : Claim(w, r)
             \/ Load(w) \/ Fetch(w) \/ FetchAccountsOnly(w) \/ FetchFails(w)
             \/ Close(w) \/ StepFails(w) \/ Crash(w)
    BY <2>1, Unseen DEF Claim, Load, Fetch, FetchAccountsOnly, FetchFails, Close,
       FinishJob, RetryOrDeadLetter, StepFails, Crash, Keep, connectionVars, providerVars
  <2>2. CASE RemoveItem(w) \/ RemoveItemFails(w)
    <3>1. CASE item' = item
      BY <2>2, <3>1, Unseen DEF RemoveItem, RemoveItemFails, connectionVars
    <3>2. CASE item' = [item EXCEPT ![ConnOf(w)] = "removed"]
      <4>1. worker[w].stage # "idle" /\ UNCHANGED <<token, feed, applied>>
        BY <2>2 DEF RemoveItem, RemoveItemFails, connectionVars
      <4> QED
        BY <3>2, <4>1, RemovalRefines, WorkerConn DEF Replica!Next
    <3> QED
      BY <2>2, <3>1, <3>2 DEF RemoveItem, RemoveItemFails
  <2>3. CASE CommitSync(w)
    <3>1. worker[w].stage # "idle"
      BY <2>3 DEF CommitSync
    <3> QED
      BY <2>3, <3>1, CommitRefines, WorkerConn DEF Replica!Next
  <2>4. CASE CommitAccounts(w)
    BY <2>4, Unseen DEF CommitAccounts, RetireSelf, KeepSelf, connectionVars, providerVars
  <2>5. CASE FinalizeRevocation(w)
    <3>1. worker[w].stage # "idle"
      BY <2>5 DEF FinalizeRevocation
    <3> QED
      BY <2>5, <3>1, ErasureRefines, WorkerConn DEF Replica!Next
  <2> QED
    BY <1>4, <2>1, <2>2, <2>3, <2>4, <2>5 DEF Work, Advance, Answer, Commit
<1> QED
  BY <1>1, <1>2, <1>3, <1>4 DEF Next

\* Jobs, leases, workers, webhooks and statuses taken together implement the
\* replica: a growing prefix of the feed, removal before erasure, frozen after.
THEOREM ImplementsReplica == Spec => ReplicaSpec
<1>1. Init => Replica!Init
  BY DEF Init, Replica!Init, AccessTo
<1>2. IInv /\ [Next]_vars => [Replica!Next]_(Replica!vars)
  BY StepRefines
<1> QED
  BY <1>1, <1>2, Invariant, PTL DEF Spec, ReplicaSpec, Replica!Spec

------------------------------------------------------------------------------
(* The rows of the queue: the unique index of active rows holds, and a     *)
(* revocation neither loses its row nor is undone.                         *)

\* A row that someone will still run, or that an operator can see.
Remains(job) == IsActive(job) \/ job.state = "dead"

------------------------------------------------------------------------------
(* An enqueue.                                                             *)

\* The slots outnumber the workers, so a new row finds one that nobody holds.
LEMMA FreeRow ==
    ASSUME NEW c \in Connections, NEW op \in Operations, ~ActiveRow(c, op)
    PROVE  NewRow(c, op) \in RowsOf(c, op) /\ ~IsActive(jobs[NewRow(c, op)])
<1> DEFINE any == CHOOSE s \in Slots : TRUE
           held == [w \in Workers |-> IF worker[w].row \in RowsOf(c, op)
                                      THEN worker[w].row.slot ELSE any]
<1>1. any \in Slots
  BY SlotsAssumption
<1>2. \A r \in RowsOf(c, op) : r \in Row /\ r.slot \in Slots
  BY DEF RowsOf, Row
<1>3. held \in [Workers -> Slots]
  BY <1>1, <1>2
<1> HIDE DEF any
<1>4. PICK s \in Slots : \A w \in Workers : held[w] # s
  BY <1>3, SlotsAssumption
<1> DEFINE r == [conn |-> c, op |-> op, slot |-> s]
<1>5. r \in RowsOf(c, op) /\ r.slot = s
  BY <1>4 DEF RowsOf, Row
<1>6. ~Held(r)
  BY <1>4, <1>5 DEF Held
<1>7. ~IsActive(jobs[r])
  BY <1>5 DEF ActiveRow
<1> QED
  BY <1>5, <1>6, <1>7 DEF NewRow

\* It leaves the rows alone that wait or are visible, or queues them again.
LEMMA EnqueueKeeps ==
    ASSUME TypeOK, NEW cs, NEW op, NEW r \in Row
    PROVE  /\ IsActive(jobs[r]) => Enqueue(cs, op)[r] = jobs[r]
           /\ Remains(jobs[r]) => Remains(Enqueue(cs, op)[r])
           /\ r.op # op => Enqueue(cs, op)[r] = jobs[r]
<1>1. IsActive(jobs[r]) => ActiveRow(r.conn, r.op)
  BY DEF ActiveRow, RowsOf
<1> QED
  BY <1>1 DEF Enqueue, Remains, IsActive, Queued

\* Afterwards every connection it is for has an active row.
LEMMA EnqueueActive ==
    ASSUME TypeOK, NEW cs, NEW op \in Operations, NEW c \in Connections, c \in cs
    PROVE  \E r \in RowsOf(c, op) : IsActive(Enqueue(cs, op)[r])
<1>1. CASE ActiveRow(c, op)
  <2>1. PICK r \in RowsOf(c, op) : IsActive(jobs[r])
    BY <1>1 DEF ActiveRow
  <2>2. r \in Row
    BY DEF RowsOf
  <2> QED
    BY <2>1, <2>2, EnqueueKeeps
<1>2. CASE ~ActiveRow(c, op)
  <2> DEFINE r == NewRow(c, op)
  <2>1. r \in RowsOf(c, op)
    BY <1>2, FreeRow
  <2>2. r \in Row /\ r.conn = c /\ r.op = op
    BY <2>1 DEF RowsOf
  <2>3. Enqueue(cs, op)[r] = Queued
    BY <1>2, <2>2 DEF Enqueue
  <2> QED
    BY <2>1, <2>3 DEF Queued, IsActive
<1> QED
  BY <1>1, <1>2

\* It adds no second active row.
LEMMA EnqueueOne ==
    ASSUME TypeOK, OneActiveRow, NEW cs, NEW op,
           \A r \in Row : jobs'[r].state = Enqueue(cs, op)[r].state
    PROVE  OneActiveRow'
<1> SUFFICES ASSUME NEW r \in Row, NEW s \in Row, r.conn = s.conn, r.op = s.op,
                    IsActive(jobs'[r]), IsActive(jobs'[s])
             PROVE  r = s
  BY DEF OneActiveRow
<1>1. \A t \in Row : IsActive(jobs'[t]) =>
          \/ IsActive(jobs[t])
          \/ ~ActiveRow(t.conn, t.op) /\ t = NewRow(t.conn, t.op)
  BY DEF IsActive, Enqueue
<1>2. \A t \in Row : IsActive(jobs[t]) => ActiveRow(t.conn, t.op)
  BY DEF ActiveRow, RowsOf
<1> QED
  BY <1>1, <1>2 DEF OneActiveRow

------------------------------------------------------------------------------
(* One active row per connection and operation.                            *)

\* A step after which no further row is active keeps it.
LEMMA OneStays ==
    ASSUME OneActiveRow, \A r \in Row : IsActive(jobs'[r]) => IsActive(jobs[r])
    PROVE  OneActiveRow'
BY DEF OneActiveRow

LEMMA OneRowAfterRequest ==
    ASSUME IInv, OneActiveRow, Request
    PROVE  OneActiveRow'
<1>1. ASSUME NEW c \in Connections, RequestSync(c)
      PROVE  OneActiveRow'
  <2>1. \A r \in Row : jobs'[r].state = Enqueue({c}, "sync")[r].state
    <3>1. \A r \in Row : Enqueue({c}, "sync")[r] \in Job
      BY EnqueueType DEF IInv
    <3> QED
      BY <1>1, <3>1 DEF RequestSync, Job
  <2> QED
    BY <2>1, EnqueueOne DEF IInv
<1>2. ASSUME NEW c \in Connections, \/ Link(c) \/ Disconnect(c) \/ CompleteUpdate(c)
      PROVE  OneActiveRow'
  BY <1>2, EnqueueOne DEF IInv, Link, Disconnect, CompleteUpdate
<1>3. ASSUME NEW c \in Connections,
             \/ SetInclusion(c) \/ StartUpdate(c) \/ StoreUpdateSession(c) \/ ExpireUpdate(c)
      PROVE  OneActiveRow'
  BY <1>3, OneStays DEF SetInclusion, StartUpdate, StoreUpdateSession, ExpireUpdate
<1>4. CASE RequestDeletion
  BY <1>4, EnqueueOne DEF IInv, RequestDeletion
<1> QED
  BY <1>1, <1>2, <1>3, <1>4 DEF Request

LEMMA OneRowAfterEnvironment ==
    ASSUME IInv, OneActiveRow, Environment
    PROVE  OneActiveRow'
<1>1. ASSUME NEW p \in Payload, Webhook(p)
      PROVE  OneActiveRow'
  <2>1. \/ jobs' = jobs
        \/ jobs' = Enqueue({p.conn}, "revoke") \/ jobs' = Enqueue({p.conn}, "sync")
    BY <1>1 DEF Webhook, PermissionRevoked, NeedsAttention, SyncUpdates
  <2> QED
    BY <2>1, EnqueueOne, OneStays DEF IInv
<1>2. ASSUME NEW lapsed, NEW old, Maintain(lapsed, old)
      PROVE  OneActiveRow'
  BY <1>2, EnqueueOne, OneStays DEF IInv, Maintain
<1>3. ASSUME NEW r \in Row, TimePasses(r)
      PROVE  OneActiveRow'
  BY <1>3, OneStays DEF IInv, TypeOK, TimePasses, IsActive, Job
<1>4. ASSUME NEW c \in Connections, Grow(c)
      PROVE  OneActiveRow'
  BY <1>4, OneStays DEF Grow
<1> QED
  BY <1>1, <1>2, <1>3, <1>4 DEF Environment

\* A row that had ended is queued again only if no other one is active.
LEMMA OneRowAfterRetry ==
    ASSUME IInv, OneActiveRow, NEW w \in Workers, RetryOrDeadLetter(w)
    PROVE  OneActiveRow'
<1> DEFINE row == worker[w].row
<1>1. row \in Row /\ jobs \in [Row -> Job]
  BY WorkerConn DEF RetryOrDeadLetter, IInv, TypeOK
<1>2. CASE jobs' = jobs
  BY <1>2, OneStays
<1>3. CASE jobs' = [jobs EXCEPT ![row].state = "dead", ![row].due = FALSE]
  <2>1. \A r \in Row : IsActive(jobs'[r]) => IsActive(jobs[r])
    BY <1>1, <1>3 DEF IsActive, Job
  <2> QED
    BY <2>1, OneStays
<1>4. CASE ~Taken(row) /\ jobs' = [jobs EXCEPT ![row].state = "queued", ![row].due = FALSE]
  <2>1. \A r \in Row \ {row} : jobs'[r] = jobs[r]
    BY <1>1, <1>4
  <2>2. \A r \in Row \ {row} : r.conn = row.conn /\ r.op = row.op => ~IsActive(jobs[r])
    BY <1>4 DEF Taken, RowsOf
  <2> QED
    BY <2>1, <2>2 DEF OneActiveRow
<1> QED
  BY <1>2, <1>3, <1>4 DEF RetryOrDeadLetter

LEMMA OneRowAfterWork ==
    ASSUME IInv, OneActiveRow, NEW w \in Workers, Work(w)
    PROVE  OneActiveRow'
<1>1. jobs \in [Row -> Job]
  BY DEF IInv, TypeOK
<1>2. ASSUME NEW r \in Row, Claim(w, r)
      PROVE  OneActiveRow'
  <2>1. \A s \in Row : IsActive(Recovered[s]) <=> IsActive(jobs[s])
    BY <1>1 DEF Recovered, IsActive, Job
  <2>2. Recovered \in [Row -> Job]
    BY RecoveredType DEF IInv
  <2>3. \A s \in Row : IsActive(jobs'[s]) => IsActive(Recovered[s])
    BY <1>2, <2>2 DEF Claim, IsActive
  <2> QED
    BY <2>1, <2>3, OneStays
<1>3. CASE \/ Load(w) \/ StepFails(w) \/ Crash(w) \/ Answer(w) \/ FinalizeRevocation(w)
  BY <1>3, OneStays DEF Load, StepFails, Crash, Keep, Answer, Fetch, FetchAccountsOnly,
     FetchFails, RemoveItem, RemoveItemFails, FinalizeRevocation
<1>4. CASE CommitSync(w) \/ CommitAccounts(w)
  <2>1. jobs' = jobs \/ jobs' = Enqueue(Retired(ConnOf(w)), "revoke")
    BY <1>4 DEF CommitSync, CommitAccounts, RetireSelf, KeepSelf
  <2> QED
    BY <2>1, OneStays, EnqueueOne DEF IInv
<1>5. CASE FinishJob(w)
  <2>1. worker[w].row \in Row
    BY <1>5, WorkerConn DEF FinishJob
  <2>2. \A r \in Row : IsActive(jobs'[r]) => IsActive(jobs[r])
    BY <1>1, <1>5, <2>1 DEF FinishJob, IsActive, Job
  <2> QED
    BY <2>2, OneStays
<1> QED
  BY <1>2, <1>3, <1>4, <1>5, OneRowAfterRetry DEF Work, Advance, Commit, Close

LEMMA OneRowStep ==
    ASSUME IInv, OneActiveRow, [Next]_vars
    PROVE  OneActiveRow'
<1>1. CASE UNCHANGED vars
  BY <1>1, OneStays DEF vars
<1> QED
  BY <1>1, OneRowAfterRequest, OneRowAfterEnvironment, OneRowAfterWork DEF Next

------------------------------------------------------------------------------
(* What a worker did to its connection.                                    *)

\* The fields of a worker that goes on, or gives up, after a step of its own.
LEMMA StageAfterMove ==
    ASSUME IInv, NEW w \in Workers, NEW stage, Move(w, stage)
    PROVE  /\ worker'[w].stage = stage /\ worker'[w].row = worker[w].row
           /\ \A v \in Workers \ {w} : worker'[v] = worker[v]
BY DEF IInv, TypeOK, WorkerState, Move

LEMMA StageAfterRaise ==
    ASSUME IInv, NEW w \in Workers, NEW e, Raise(w, e)
    PROVE  worker'[w].stage = "failing" /\ \A v \in Workers \ {w} : worker'[v] = worker[v]
BY DEF IInv, TypeOK, WorkerState, Raise

\* A worker that does not move keeps its part: revoked connections stay revoked.
LEMMA UnmovedJob ==
    ASSUME IInv, QueueInv, [Next]_vars, NEW v \in Workers, worker'[v] = worker[v]
    PROVE  JobInv(v)'
<1>1. JobInv(v)
  BY DEF QueueInv
<1>2. CASE worker[v].stage = "done" /\ worker[v].row.op = "revoke"
  <2>1. worker[v].row.conn \in Connections
    BY <1>2, WorkerConn DEF ConnOf
  <2>2. status'[worker[v].row.conn] = "revoked"
    BY <1>1, <1>2, <2>1, RevokedStays DEF JobInv
  <2> QED
    BY <1>2, <2>2 DEF JobInv
<1> QED
  BY <1>1, <1>2 DEF JobInv

\* A worker moves to "done" from the transaction of its operation alone.
LEMMA MovedJob ==
    ASSUME IInv, QueueInv, NEW w \in Workers, Work(w)
    PROVE  JobInv(w)' /\ \A v \in Workers \ {w} : worker'[v] = worker[v]
<1>1. JobInv(w) /\ worker \in [Workers -> WorkerState] /\ worker[w] \in WorkerState
  BY DEF IInv, TypeOK, QueueInv
<1>2. ASSUME NEW r \in Row, Claim(w, r)
      PROVE  worker'[w].stage = "claimed" /\ \A v \in Workers \ {w} : worker'[v] = worker[v]
  BY <1>1, <1>2 DEF Claim, Idle
<1>3. CASE Load(w)
  <2>1. CASE \E e \in Errors : Raise(w, e)
    BY <2>1, StageAfterRaise DEF JobInv
  <2>2. CASE worker' = [worker EXCEPT ![w].stage = "loaded",
                            ![w].from = IF worker[w].row.op = "sync"
                                        THEN cursor[ConnOf(w)] ELSE 0]
    BY <1>1, <2>2 DEF JobInv, WorkerState
  <2> QED
    BY <1>3, <2>1, <2>2 DEF Load, Errors
<1>4. CASE Fetch(w)
  <2>1. worker'[w].row.op = "sync" /\ worker'[w].stage = "fetched"
        /\ \A v \in Workers \ {w} : worker'[v] = worker[v]
    BY <1>1, <1>4 DEF Fetch, Runs, WorkerState
  <2> QED
    BY <2>1 DEF JobInv
<1>5. CASE FetchAccountsOnly(w)
  <2>1. worker'[w].row.op = "sync" /\ worker'[w].stage = "observed"
        /\ \A v \in Workers \ {w} : worker'[v] = worker[v]
    BY <1>1, <1>5 DEF FetchAccountsOnly, Runs, WorkerState
  <2> QED
    BY <2>1 DEF JobInv
<1>6. CASE FetchFails(w) \/ RemoveItemFails(w) \/ StepFails(w)
  <2>1. PICK e : Raise(w, e)
    BY <1>6 DEF FetchFails, RemoveItemFails, StepFails
  <2> QED
    BY <2>1, StageAfterRaise DEF JobInv
<1>7. CASE RemoveItem(w)
  BY <1>7, StageAfterMove DEF RemoveItem, JobInv
<1>8. CASE CommitSync(w) \/ CommitAccounts(w)
  <2>1. worker[w].row.op = "sync"
    BY <1>1, <1>8 DEF CommitSync, CommitAccounts, JobInv
  <2>2. \/ \E e : Raise(w, e)
        \/ Move(w, "done") \/ Move(w, "failing")
    BY <1>8 DEF CommitSync, CommitAccounts, RejectSync, RetireSelf
  <2>3. CASE \E e : Raise(w, e)
    BY <2>3, StageAfterRaise DEF JobInv
  <2>4. CASE Move(w, "done") \/ Move(w, "failing")
    BY <2>1, <2>4, StageAfterMove DEF JobInv
  <2> QED
    BY <2>2, <2>3, <2>4
<1>9. CASE FinalizeRevocation(w)
  <2>1. ConnOf(w) \in Connections
    BY <1>9, WorkerConn DEF FinalizeRevocation
  <2>2. status'[ConnOf(w)] = "revoked"
    BY <1>9, <2>1 DEF FinalizeRevocation, IInv, TypeOK
  <2> QED
    BY <1>9, <2>2, StageAfterMove DEF FinalizeRevocation, JobInv, ConnOf
<1>10. CASE FinishJob(w) \/ RetryOrDeadLetter(w) \/ Crash(w)
  BY <1>1, <1>10 DEF FinishJob, RetryOrDeadLetter, Crash, Idle, JobInv
<1> QED
  BY <1>2, <1>3, <1>4, <1>5, <1>6, <1>7, <1>8, <1>9, <1>10
  DEF Work, Advance, Answer, Commit, Close, JobInv

LEMMA JobsStep ==
    ASSUME IInv, QueueInv, [Next]_vars
    PROVE  \A v \in Workers : JobInv(v)'
<1>1. CASE worker' = worker
  BY <1>1, UnmovedJob
<1>2. CASE \E w \in Workers : Work(w)
  <2>1. PICK w \in Workers : Work(w)
    BY <1>2
  <2> QED
    BY <2>1, MovedJob, UnmovedJob
<1>3. Request => worker' = worker
  BY DEF Request, Link, RequestSync, Disconnect, SetInclusion, StartUpdate,
     StoreUpdateSession, CompleteUpdate, ExpireUpdate, RequestDeletion
<1>4. Environment => worker' = worker
  BY DEF Environment, Webhook, Maintain, TimePasses, Grow
<1> QED
  BY <1>1, <1>2, <1>3, <1>4 DEF Next, vars

------------------------------------------------------------------------------
(* The accounts of a revoked connection.                                   *)

\* A connection whose accounts change is not revoked, or is revoked by this
\* step; the exclusion of accounts that left changes nothing.
LEMMA ArchivedStep ==
    ASSUME IInv, RevokedIsArchived, [Next]_vars
    PROVE  RevokedIsArchived'
<1> SUFFICES ASSUME NEW c \in Connections, status'[c] = "revoked"
             PROVE  account'[c] \in {"none", "archived"}
  BY DEF RevokedIsArchived
<1>1. /\ account \in [Connections -> {"none", "excluded", "included", "archived"}]
      /\ status \in [Connections -> Statuses]
      /\ status[c] = "revoked" => account[c] \in {"none", "archived"} /\ ~token[c]
  BY DEF IInv, TypeOK, ConnectionInv, RevokedIsArchived
<1>2. CASE UNCHANGED vars
  BY <1>1, <1>2 DEF vars, connectionVars
<1>3. CASE Request
  BY <1>1, <1>3 DEF Request, Link, RequestSync, Disconnect, SetInclusion, StartUpdate,
     StoreUpdateSession, CompleteUpdate, ExpireUpdate, RequestDeletion, Exclude,
     connectionVars
<1>4. CASE Environment
  BY <1>1, <1>4, PayloadAssumption DEF Environment, Webhook, PermissionRevoked,
     NeedsAttention, SyncUpdates, Maintain, TimePasses, Grow, Exclude, connectionVars
<1>5. ASSUME NEW w \in Workers, Work(w)
      PROVE  account'[c] \in {"none", "archived"}
  <2>1. CASE \/ \E r \in Row : Claim(w, r)
             \/ Load(w) \/ Answer(w) \/ StepFails(w) \/ Crash(w) \/ FinishJob(w)
    BY <1>1, <2>1 DEF Claim, Load, Answer, Fetch, FetchAccountsOnly, FetchFails,
       RemoveItem, RemoveItemFails, StepFails, Crash, FinishJob, Keep, connectionVars
  <2>2. CASE FinalizeRevocation(w)
    <3>1. ConnOf(w) \in Connections
      BY <2>2, WorkerConn DEF FinalizeRevocation
    <3> QED
      BY <1>1, <2>2, <3>1 DEF FinalizeRevocation
  <2>3. CASE RetryOrDeadLetter(w)
    <3>1. worker[w].row.conn \in Connections
      BY <2>3, WorkerConn DEF RetryOrDeadLetter, ConnOf
    <3> QED
      BY <1>1, <2>3, <3>1 DEF RetryOrDeadLetter, StatusAfterFailure, ConnOf
  <2>4. CASE CommitSync(w) \/ CommitAccounts(w)
    <3>1. worker[w].stage # "idle"
      BY <2>4 DEF CommitSync, CommitAccounts
    <3>2. CASE UNCHANGED connectionVars
      BY <1>1, <3>2 DEF connectionVars
    <3>3. CASE RetireSelf(w)
      BY <1>1, <3>3 DEF RetireSelf, StatusOfRetired, Exclude
    <3>4. ASSUME NEW next \in {"healthy", "syncing"}, KeepSelf(w, next)
          PROVE  account'[c] \in {"none", "archived"}
      <4>1. c # ConnOf(w)
        BY <3>4 DEF KeepSelf
      <4> QED
        BY <1>1, <3>4, <4>1 DEF KeepSelf, StatusOfRetired, Exclude
    <3> QED
      BY <2>4, <3>2, <3>3, <3>4 DEF CommitSync, CommitAccounts
  <2> QED
    BY <1>5, <2>1, <2>2, <2>3, <2>4 DEF Work, Advance, Commit, Close
<1> QED
  BY <1>2, <1>3, <1>4, <1>5 DEF Next

------------------------------------------------------------------------------
(* A pending revocation has a row.                                         *)

\* A step that loses no row of a revocation, and leaves a row to every
\* connection whose revocation becomes pending.
LEMMA HasJobStays ==
    ASSUME RevocationHasJob,
           \A r \in Row : r.op = "revoke" /\ Remains(jobs[r]) => Remains(jobs'[r]),
           \A c \in Connections : status'[c] = "revocation_pending" =>
               \/ status[c] = "revocation_pending"
               \/ \E r \in RowsOf(c, "revoke") : Remains(jobs'[r])
    PROVE  RevocationHasJob'
BY DEF RevocationHasJob, Remains, RowsOf

\* Revocations that become pending with an enqueue for them.
LEMMA HasJobEnqueued ==
    ASSUME TypeOK, RevocationHasJob, NEW cs, jobs' = Enqueue(cs, "revoke"),
           \A c \in Connections : status'[c] = "revocation_pending" =>
               status[c] = "revocation_pending" \/ c \in cs
    PROVE  RevocationHasJob'
<1>1. \A r \in Row : Remains(jobs[r]) => Remains(jobs'[r])
  BY EnqueueKeeps
<1>2. \A c \in Connections : c \in cs =>
          \E r \in RowsOf(c, "revoke") : Remains(jobs'[r])
  BY EnqueueActive DEF Remains, Operations
<1> QED
  BY <1>1, <1>2, HasJobStays

\* An enqueue of syncs is nothing to a revocation.
LEMMA HasJobSyncs ==
    ASSUME TypeOK, RevocationHasJob, NEW cs,
           jobs' = Enqueue(cs, "sync") \/ jobs' = jobs,
           \A c \in Connections :
               status'[c] = "revocation_pending" => status[c] = "revocation_pending"
    PROVE  RevocationHasJob'
<1>1. \A r \in Row : r.op = "revoke" => jobs'[r] = jobs[r]
  BY EnqueueKeeps
<1> QED
  BY <1>1, HasJobStays

LEMMA HasJobAfterRequest ==
    ASSUME IInv, RevocationHasJob, Request
    PROVE  RevocationHasJob'
<1>1. TypeOK /\ status \in [Connections -> Statuses]
  BY DEF IInv, TypeOK
<1>2. ASSUME NEW c \in Connections, RequestSync(c)
      PROVE  RevocationHasJob'
  <2>1. \A r \in Row : r.op = "revoke" => jobs'[r] = jobs[r]
    BY <1>1, <1>2, EnqueueKeeps DEF RequestSync, RowsOf
  <2> QED
    BY <1>1, <1>2, <2>1, HasJobStays DEF RequestSync
<1>3. ASSUME NEW c \in Connections, Link(c) \/ CompleteUpdate(c)
      PROVE  RevocationHasJob'
  BY <1>1, <1>3, HasJobSyncs DEF Link, CompleteUpdate
<1>4. ASSUME NEW c \in Connections, Disconnect(c)
      PROVE  RevocationHasJob'
  <2>1. \A d \in Connections : status'[d] = "revocation_pending" =>
            status[d] = "revocation_pending" \/ d \in {c}
    BY <1>1, <1>4 DEF Disconnect
  <2> QED
    BY <1>1, <1>4, <2>1, HasJobEnqueued DEF Disconnect
<1>5. ASSUME NEW c \in Connections,
             \/ SetInclusion(c) \/ StartUpdate(c) \/ StoreUpdateSession(c) \/ ExpireUpdate(c)
      PROVE  RevocationHasJob'
  BY <1>5, HasJobStays DEF SetInclusion, StartUpdate, StoreUpdateSession, ExpireUpdate,
     connectionVars
<1>6. CASE RequestDeletion
  <2> DEFINE open == {c \in Connections : status[c] # "unlinked" /\ ~Ending(c)}
  <2>1. /\ jobs' = Enqueue(open, "revoke")
        /\ status' = [c \in Connections |->
                       IF c \in open THEN "revocation_pending" ELSE status[c]]
    BY <1>6 DEF RequestDeletion
  <2> HIDE DEF open
  <2> QED
    BY <1>1, <2>1, HasJobEnqueued
<1> QED
  BY <1>2, <1>3, <1>4, <1>5, <1>6 DEF Request

LEMMA HasJobAfterEnvironment ==
    ASSUME IInv, RevocationHasJob, Environment
    PROVE  RevocationHasJob'
<1>1. TypeOK /\ status \in [Connections -> Statuses] /\ jobs \in [Row -> Job]
  BY DEF IInv, TypeOK
<1>2. ASSUME NEW p \in Payload, Webhook(p)
      PROVE  RevocationHasJob'
  <2>1. p.conn \in Connections
    BY PayloadAssumption
  <2>2. CASE PermissionRevoked(p.conn)
    <3>1. \A d \in Connections : status'[d] = "revocation_pending" =>
              status[d] = "revocation_pending" \/ d \in {p.conn}
      BY <1>1, <2>1, <2>2 DEF PermissionRevoked
    <3> QED
      BY <1>1, <2>2, <3>1, HasJobEnqueued DEF PermissionRevoked
  <2>3. CASE \E next \in {"login_required", "error"} : NeedsAttention(p.conn, next)
    BY <1>1, <2>1, <2>3, HasJobSyncs DEF NeedsAttention
  <2>4. CASE SyncUpdates(p.conn)
    BY <1>1, <2>1, <2>4, HasJobSyncs DEF SyncUpdates
  <2> QED
    BY <1>2, <2>2, <2>3, <2>4 DEF Webhook
<1>3. ASSUME NEW lapsed, NEW old, Maintain(lapsed, old)
      PROVE  RevocationHasJob'
  BY <1>1, <1>3, HasJobSyncs DEF Maintain
<1>4. ASSUME NEW r \in Row, TimePasses(r)
      PROVE  RevocationHasJob'
  BY <1>1, <1>4, HasJobStays DEF TimePasses, Remains, IsActive, Job, connectionVars
<1>5. ASSUME NEW c \in Connections, Grow(c)
      PROVE  RevocationHasJob'
  BY <1>5, HasJobStays DEF Grow, connectionVars
<1> QED
  BY <1>2, <1>3, <1>4, <1>5 DEF Environment

\* The row of a revocation ends successfully after the token is erased only.
LEMMA HasJobAfterFinish ==
    ASSUME IInv, QueueInv, NEW w \in Workers, FinishJob(w)
    PROVE  RevocationHasJob'
<1> DEFINE row == worker[w].row
<1>1. row \in Row /\ row.conn \in Connections /\ jobs \in [Row -> Job]
  BY WorkerConn DEF FinishJob, IInv, TypeOK, ConnOf
<1>2. row.op = "revoke" => status[row.conn] = "revoked"
  BY DEF QueueInv, JobInv, FinishJob
<1>3. \A r \in Row \ {row} : jobs'[r] = jobs[r]
  BY <1>1 DEF FinishJob
<1>4. status' = status
  BY DEF FinishJob, connectionVars
<1> HIDE DEF row
<1> SUFFICES ASSUME NEW c \in Connections, status[c] = "revocation_pending"
             PROVE  \E r \in RowsOf(c, "revoke") : Remains(jobs'[r])
  BY <1>4 DEF RevocationHasJob, Remains
<1>5. PICK r \in RowsOf(c, "revoke") : Remains(jobs[r])
  BY DEF QueueInv, RevocationHasJob, Remains
<1>6. r \in Row /\ r # row
  BY <1>2 DEF RowsOf
<1> QED
  BY <1>3, <1>5, <1>6

LEMMA HasJobAfterRetry ==
    ASSUME IInv, RevocationHasJob, NEW w \in Workers, RetryOrDeadLetter(w)
    PROVE  RevocationHasJob'
<1> DEFINE row == worker[w].row
<1>1. row \in Row /\ row.conn \in Connections /\ jobs \in [Row -> Job]
      /\ row.op \in Operations /\ status \in [Connections -> Statuses]
  BY WorkerConn, RowConn DEF RetryOrDeadLetter, IInv, TypeOK, ConnOf
<1>2. CASE UNCHANGED <<status, jobs>>
  BY <1>2, HasJobStays
<1>3. CASE /\ status' = [status EXCEPT ![row.conn] = StatusAfterFailure(w)]
           /\ \E s \in {"dead", "queued"} :
                 jobs' = [jobs EXCEPT ![row].state = s, ![row].due = FALSE]
  <2>1. Remains(jobs'[row]) /\ \A r \in Row \ {row} : jobs'[r] = jobs[r]
    BY <1>1, <1>3 DEF Remains, IsActive, Job
  <2>2. \A r \in Row : Remains(jobs[r]) => Remains(jobs'[r])
    BY <2>1
  <2>3. StatusAfterFailure(w) = "revocation_pending" =>
            status[row.conn] = "revocation_pending" \/ row.op = "revoke"
    BY DEF StatusAfterFailure, ConnOf, Runs
  <2>4. row.op = "revoke" => row \in RowsOf(row.conn, "revoke")
    BY <1>1 DEF RowsOf
  <2> HIDE DEF row
  <2> QED
    BY <1>1, <1>3, <2>1, <2>2, <2>3, <2>4, HasJobStays
<1> QED
  BY <1>2, <1>3 DEF RetryOrDeadLetter

LEMMA HasJobAfterWork ==
    ASSUME IInv, QueueInv, NEW w \in Workers, Work(w)
    PROVE  RevocationHasJob'
<1>1. /\ TypeOK /\ status \in [Connections -> Statuses] /\ jobs \in [Row -> Job]
      /\ RevocationHasJob
  BY DEF IInv, TypeOK, QueueInv
<1>2. ASSUME NEW r \in Row, Claim(w, r)
      PROVE  RevocationHasJob'
  <2>1. \A s \in Row : Remains(jobs[s]) => Remains(Recovered[s])
    BY <1>1 DEF Recovered, Remains, IsActive, Job
  <2>2. Recovered \in [Row -> Job]
    BY <1>1, RecoveredType
  <2>3. \A s \in Row : Remains(Recovered[s]) => Remains(jobs'[s])
    BY <1>2, <2>2 DEF Claim, Remains, IsActive
  <2> QED
    BY <1>1, <1>2, <2>1, <2>3, HasJobStays DEF Claim, connectionVars
<1>3. CASE Load(w) \/ StepFails(w) \/ Crash(w) \/ Answer(w)
  BY <1>1, <1>3, HasJobStays DEF Load, StepFails, Crash, Keep, Answer, Fetch,
     FetchAccountsOnly, FetchFails, RemoveItem, RemoveItemFails, connectionVars
<1>4. CASE FinalizeRevocation(w)
  BY <1>1, <1>4, HasJobStays DEF FinalizeRevocation
<1>5. CASE CommitSync(w) \/ CommitAccounts(w)
  <2>1. CASE UNCHANGED <<connectionVars, jobs>>
    BY <1>1, <2>1, HasJobStays DEF connectionVars
  <2>2. CASE RetireSelf(w)
    BY <1>1, <2>2, HasJobEnqueued DEF RetireSelf
  <2>3. ASSUME NEW next \in {"healthy", "syncing"}, KeepSelf(w, next)
        PROVE  RevocationHasJob'
    BY <1>1, <2>3, HasJobEnqueued DEF KeepSelf
  <2> QED
    BY <1>5, <2>1, <2>2, <2>3 DEF CommitSync, CommitAccounts
<1> QED
  BY <1>1, <1>2, <1>3, <1>4, <1>5, HasJobAfterFinish, HasJobAfterRetry
  DEF Work, Advance, Commit, Close

LEMMA HasJobStep ==
    ASSUME IInv, QueueInv, [Next]_vars
    PROVE  RevocationHasJob'
<1>1. CASE UNCHANGED vars
  BY <1>1, HasJobStays DEF QueueInv, vars, connectionVars
<1> QED
  BY <1>1, HasJobAfterRequest, HasJobAfterEnvironment, HasJobAfterWork DEF Next, QueueInv

------------------------------------------------------------------------------
(* The theorems.                                                           *)

LEMMA QueueInit == Init => QueueInv
<1> SUFFICES ASSUME Init
             PROVE  QueueInv
  OBVIOUS
<1>1. OneActiveRow
  BY DEF Init, OneActiveRow, IsActive
<1>2. RevocationHasJob /\ RevokedIsArchived
  BY DEF Init, RevocationHasJob, RevokedIsArchived
<1>3. \A w \in Workers : JobInv(w)
  BY DEF Init, JobInv, Idle
<1> QED
  BY <1>1, <1>2, <1>3 DEF QueueInv

LEMMA QueueStep == IInv /\ QueueInv /\ [Next]_vars => QueueInv'
BY OneRowStep, HasJobStep, ArchivedStep, JobsStep DEF QueueInv

\* The rows, the workers and the accounts keep what QueueInv says of them.
THEOREM QueueInvariant == Spec => []QueueInv
BY QueueInit, QueueStep, Invariant, PTL DEF Spec

\* At most one row of a connection and operation is queued or running, whoever
\* enqueues, recovers a lease or puts a row back that had ended
\* (plaid_sync_jobs_one_active_per_connection, plaid.service.ts:1234-1301).
THEOREM ActiveRowsAreUnique == Spec => []OneActiveRow
<1>1. QueueInv => OneActiveRow
  BY DEF QueueInv
<1> QED
  BY <1>1, QueueInvariant, PTL

\* A pending revocation always has a row that will be run or a dead letter, and
\* the accounts of a revoked connection stay out of the plan.
THEOREM RevocationsStand == Spec => []RevocationStands
<1>1. QueueInv => RevocationStands
  BY DEF QueueInv, RevocationStands, RevokedIsExcluded, RevokedIsArchived
<1> QED
  BY <1>1, QueueInvariant, PTL

------------------------------------------------------------------------------
(* Links to the same accounts.                                             *)

\* A set of numbers has a least element.
LEMMA LeastNumber ==
    ASSUME NEW S \in SUBSET Nat, S # {}
    PROVE  \E m \in S : \A n \in S : m <= n
<1> DEFINE R == {p \in Nat \X Nat : p[1] < p[2]}
<1>1. IsWellFoundedOn(R, Nat)
  BY NatLessThanWellFounded DEF OpToRel
<1>2. PICK m \in S : \A n \in S : ~(<<n, m>> \in R)
  BY <1>1, WFMin
<1>3. \A n \in S : ~(n < m)
  BY <1>2
<1> QED
  BY <1>3

\* An Item comes with its link, and then stays known.
LEMMA ItemStep ==
    ASSUME IInv, [Next]_vars, NEW c \in Connections
    PROVE  /\ item[c] # "none" => item'[c] # "none"
           /\ item[c] = "none" /\ item'[c] # "none" => Link(c)
<1>1. item \in [Connections -> {"none", "present", "removed"}]
  BY DEF IInv, TypeOK
<1>2. CASE UNCHANGED vars
  BY <1>2 DEF vars, providerVars
<1>3. CASE Request
  <2>1. ASSUME NEW d \in Connections, Link(d)
        PROVE  /\ item[c] # "none" => item'[c] # "none"
               /\ item[c] = "none" /\ item'[c] # "none" => Link(c)
    <3>1. item' = [item EXCEPT ![d] = "present"]
      BY <2>1 DEF Link
    <3> QED
      BY <1>1, <2>1, <3>1
  <2>2. item' = item \/ \E d \in Connections : Link(d)
    BY <1>3 DEF Request, RequestSync, Disconnect, SetInclusion, StartUpdate,
       StoreUpdateSession, CompleteUpdate, ExpireUpdate, RequestDeletion, providerVars
  <2> QED
    BY <2>1, <2>2
<1>4. CASE Environment
  BY <1>4 DEF Environment, Webhook, Maintain, TimePasses, Grow, providerVars
<1>5. ASSUME NEW w \in Workers, Work(w)
      PROVE  item[c] # "none" <=> item'[c] # "none"
  <2>1. CASE RemoveItem(w) \/ RemoveItemFails(w)
    <3>1. item' \in {item, [item EXCEPT ![ConnOf(w)] = "removed"]}
      BY <2>1 DEF RemoveItem, RemoveItemFails
    <3>2. worker[w].stage # "idle"
      BY <2>1 DEF RemoveItem, RemoveItemFails
    <3>3. item[ConnOf(w)] # "none"
      BY <3>2, WorkerConn
    <3> QED
      BY <1>1, <3>1, <3>3
  <2>2. item' = item \/ RemoveItem(w) \/ RemoveItemFails(w)
    BY <1>5 DEF Work, Advance, Answer, Commit, Close, Claim, Load, Fetch, FetchAccountsOnly,
       FetchFails, CommitSync, CommitAccounts, FinalizeRevocation, FinishJob,
       RetryOrDeadLetter, StepFails, Crash, Keep, providerVars
  <2> QED
    BY <2>1, <2>2
<1> QED
  BY <1>2, <1>3, <1>4, <1>5 DEF Next

LEMMA OrderStep ==
    ASSUME IInv, LinkedInOrder, [Next]_vars
    PROVE  LinkedInOrder'
<1>1. IInv'
  BY NextInv
<1>2. \A c \in Connections : /\ status[c] = "unlinked" <=> item[c] = "none"
                             /\ status'[c] = "unlinked" <=> item'[c] = "none"
  BY <1>1 DEF IInv, ConnectionInv
<1> SUFFICES ASSUME NEW c \in Connections, NEW d \in Connections, d < c,
                    status'[c] # "unlinked"
             PROVE  status'[d] # "unlinked"
  BY DEF LinkedInOrder
<1>3. status[d] # "unlinked"
  <2>1. CASE status[c] # "unlinked"
    BY <2>1 DEF LinkedInOrder
  <2>2. CASE status[c] = "unlinked"
    <3>1. Link(c)
      BY <1>2, <2>2, ItemStep
    <3> QED
      BY <3>1 DEF Link
  <2> QED
    BY <2>1, <2>2
<1> QED
  BY <1>2, <1>3, ItemStep

\* The rows workers hold: their own, or one that was claimed.
LEMMA HeldStep ==
    ASSUME IInv, NEW w \in Workers, Work(w)
    PROVE  /\ \A v \in Workers \ {w} : worker'[v] = worker[v]
           /\ \/ worker'[w].row \in {worker[w].row, NoRow}
              \/ \E r \in Row : Claim(w, r) /\ worker'[w].row = r
           /\ worker'[w].stage = "removed" =>
                 worker'[w].row = worker[w].row /\ worker[w].row.op = "revoke"
<1>1. worker \in [Workers -> WorkerState] /\ worker[w] \in WorkerState
  BY DEF IInv, TypeOK
<1> DEFINE Same == \A v \in Workers \ {w} : worker'[v] = worker[v]
           Stays == worker'[w].row = worker[w].row /\ worker'[w].stage # "removed"
<1>2. ASSUME NEW r \in Row, Claim(w, r)
      PROVE  Same /\ worker'[w].row = r /\ worker'[w].stage = "claimed"
  BY <1>1, <1>2 DEF Claim, Idle
<1>3. CASE \E e : Raise(w, e)
  <2>1. Same /\ Stays
    BY <1>1, <1>3 DEF Raise, WorkerState
  <2> QED
    BY <2>1
<1>4. CASE Load(w) \/ Fetch(w) \/ FetchAccountsOnly(w)
  <2>1. Same /\ Stays
    BY <1>1, <1>4 DEF Load, Fetch, FetchAccountsOnly, Raise, WorkerState
  <2> QED
    BY <2>1
<1>5. CASE RemoveItem(w)
  BY <1>5, StageAfterMove DEF RemoveItem, Runs
<1>6. CASE Move(w, "done") \/ Move(w, "failing")
  BY <1>6, StageAfterMove
<1>7. CASE worker' = [worker EXCEPT ![w] = Idle]
  BY <1>1, <1>7 DEF Idle
<1>8. \/ \E r \in Row : Claim(w, r)
      \/ \E e : Raise(w, e)
      \/ Load(w) \/ Fetch(w) \/ FetchAccountsOnly(w) \/ RemoveItem(w)
      \/ Move(w, "done") \/ Move(w, "failing")
      \/ worker' = [worker EXCEPT ![w] = Idle]
  BY DEF Work, Advance, Answer, Commit, Close, FetchFails, RemoveItemFails, CommitSync,
     CommitAccounts, RejectSync, RetireSelf, FinalizeRevocation, FinishJob,
     RetryOrDeadLetter, StepFails, Crash
<1> QED
  BY <1>2, <1>3, <1>4, <1>5, <1>6, <1>7, <1>8

LEMMA NoWorkerMoves ==
    ASSUME Request \/ Environment
    PROVE  worker' = worker
BY DEF Request, Environment, Link, RequestSync, Disconnect, SetInclusion, StartUpdate,
   StoreUpdateSession, CompleteUpdate, ExpireUpdate, RequestDeletion, Webhook, Maintain,
   TimePasses, Grow

LEMMA RemovedStep ==
    ASSUME IInv, [Next]_vars,
           \A w \in Workers : worker[w].stage = "removed" => worker[w].row.op = "revoke"
    PROVE  \A w \in Workers : worker'[w].stage = "removed" => worker'[w].row.op = "revoke"
<1>1. CASE worker' = worker
  BY <1>1
<1>2. ASSUME NEW w \in Workers, Work(w)
      PROVE  \A v \in Workers : worker'[v].stage = "removed" => worker'[v].row.op = "revoke"
  BY <1>2, HeldStep
<1> QED
  BY <1>1, <1>2, NoWorkerMoves DEF Next, vars

\* A step that leaves a connection in use, and no row of a revocation to it.
LEMMA SparedStays ==
    ASSUME NEW c \in Connections, Spared(c), status'[c] \notin {"revocation_pending", "revoked"},
           \A r \in RowsOf(c, "revoke") : jobs[r].state = "none" => jobs'[r].state = "none",
           \A w \in Workers : worker'[w].row \notin RowsOf(c, "revoke") \/ worker'[w].row = worker[w].row
    PROVE  Spared(c)'
<1>1. \A r \in RowsOf(c, "revoke") : jobs'[r].state = "none"
  BY DEF Spared
<1>2. ASSUME NEW r \in RowsOf(c, "revoke"), NEW w \in Workers, worker'[w].row = r
      PROVE  FALSE
  BY <1>2 DEF Spared, Held
<1>3. RowsOf(c, "revoke")' = RowsOf(c, "revoke")
  BY DEF RowsOf
<1> QED
  BY <1>1, <1>2, <1>3 DEF Spared, Ending, Held

\* What enqueues a sync leaves the rows of revocations alone, and so do
\* revocations of others.
LEMMA EnqueueSpares ==
    ASSUME NEW c \in Connections, NEW cs, NEW op, op # "revoke" \/ c \notin cs,
           NEW r \in RowsOf(c, "revoke")
    PROVE  Enqueue(cs, op)[r] = jobs[r]
BY DEF Enqueue, RowsOf

\* A sync that looks for duplicates never retires the first connection.
LEMMA FirstNotRetired ==
    ASSUME NEW c \in Connections, First(c), NEW d \in Connections
    PROVE  c \notin Retired(d)
<1> SUFFICES ASSUME c \in Retired(d)
             PROVE  FALSE
  OBVIOUS
<1>1. \A k \in Duplicates(d) \cup {d} : k \in Connections /\ Bank[k] = Bank[d]
  BY DEF Duplicates
<1>2. PICK k \in Duplicates(d) \cup {d} : k < c
  BY DEF Retired
<1>3. c \in Duplicates(d) \cup {d}
  BY DEF Retired
<1> QED
  BY <1>1, <1>2, <1>3 DEF First

LEMMA SparedByRequest ==
    ASSUME IInv, NEW c \in Connections, Spared(c), NEW d \in Connections,
           \/ Link(d) \/ RequestSync(d) \/ SetInclusion(d) \/ StartUpdate(d)
           \/ StoreUpdateSession(d) \/ CompleteUpdate(d) \/ ExpireUpdate(d)
    PROVE  Spared(c)'
<1>1. worker' = worker
  BY DEF Link, RequestSync, SetInclusion, StartUpdate, StoreUpdateSession, CompleteUpdate,
     ExpireUpdate
<1>2. status' \in {status, [status EXCEPT ![d] = "syncing"]}
  BY DEF Link, RequestSync, SetInclusion, StartUpdate, StoreUpdateSession, CompleteUpdate,
     ExpireUpdate, connectionVars
<1>3. status'[c] \notin {"revocation_pending", "revoked"}
  BY <1>2 DEF Spared, Ending, IInv, TypeOK
<1>4. \A r \in RowsOf(c, "revoke") : jobs'[r] = jobs[r]
  <2>1. CASE RequestSync(d)
    <3>1. \A r \in Row : r \notin RowsOf(d, "sync") => jobs'[r] = Enqueue({d}, "sync")[r]
      BY <2>1 DEF RequestSync
    <3>2. \A r \in RowsOf(c, "revoke") : r \in Row /\ r \notin RowsOf(d, "sync")
      BY DEF RowsOf
    <3> QED
      BY <3>1, <3>2, EnqueueSpares
  <2>2. CASE jobs' = jobs \/ jobs' = Enqueue({d}, "sync")
    BY <2>2, EnqueueSpares
  <2> QED
    BY <2>1, <2>2 DEF Link, SetInclusion, StartUpdate, StoreUpdateSession, CompleteUpdate,
       ExpireUpdate
<1> QED
  BY <1>1, <1>3, <1>4, SparedStays

LEMMA SparedByEnvironment ==
    ASSUME IInv, NEW c \in Connections, Spared(c),
           \/ \E p \in Payload : p.kind # "permission_revoked" /\ Webhook(p)
           \/ \E lapsed, old \in SUBSET Connections : Maintain(lapsed, old)
           \/ \E r \in Row : TimePasses(r)
           \/ \E d \in Connections : Grow(d)
    PROVE  Spared(c)'
<1>1. worker' = worker
  BY DEF Webhook, Maintain, TimePasses, Grow
<1>2. status \in [Connections -> Statuses] /\ jobs \in [Row -> Job]
  BY DEF IInv, TypeOK
<1>3. ~Ending(c)
  BY DEF Spared
<1>4. ASSUME NEW p \in Payload, p.kind # "permission_revoked", Webhook(p)
      PROVE  Spared(c)'
  <2>1. p.conn \in Connections
    BY PayloadAssumption
  <2>2. \/ status' = [status EXCEPT ![p.conn] = "login_required"] /\ jobs' = jobs
        \/ status' = [status EXCEPT ![p.conn] = "error"] /\ jobs' = jobs
        \/ /\ status' = [status EXCEPT ![p.conn] = IF Ending(p.conn) THEN @ ELSE "syncing"]
           /\ jobs' = Enqueue({p.conn}, "sync")
    BY <1>4 DEF Webhook, NeedsAttention, SyncUpdates
  <2>3. status'[c] \notin {"revocation_pending", "revoked"}
    BY <1>2, <1>3, <2>1, <2>2 DEF Ending
  <2>4. \A r \in RowsOf(c, "revoke") : jobs'[r] = jobs[r]
    BY <2>2, EnqueueSpares
  <2> QED
    BY <1>1, <2>3, <2>4, SparedStays
<1>5. ASSUME NEW lapsed, NEW old, Maintain(lapsed, old)
      PROVE  Spared(c)'
  <2>1. status'[c] \in {status[c], "stale"}
    BY <1>5 DEF Maintain
  <2>2. jobs' = jobs \/ \E cs : jobs' = Enqueue(cs, "sync")
    BY <1>5 DEF Maintain
  <2>3. \A r \in RowsOf(c, "revoke") : jobs'[r] = jobs[r]
    BY <2>2, EnqueueSpares
  <2> QED
    BY <1>1, <1>3, <2>1, <2>3, SparedStays DEF Ending
<1>6. ASSUME NEW r \in Row, TimePasses(r)
      PROVE  Spared(c)'
  <2>1. status' = status /\ jobs' = [jobs EXCEPT ![r].due = TRUE]
    BY <1>6 DEF TimePasses, connectionVars
  <2>2. \A s \in Row : jobs'[s].state = jobs[s].state
    BY <1>2, <2>1 DEF Job
  <2> QED
    BY <1>1, <1>3, <2>1, <2>2, SparedStays DEF Ending, RowsOf
<1>7. ASSUME NEW d \in Connections, Grow(d)
      PROVE  Spared(c)'
  BY <1>1, <1>3, <1>7, SparedStays DEF Grow, connectionVars, Ending
<1> QED
  BY <1>4, <1>5, <1>6, <1>7

LEMMA SparedByWork ==
    ASSUME IInv, NEW c \in Connections, First(c), Spared(c), NEW w \in Workers, Work(w),
           worker[w].stage = "removed" => worker[w].row.op = "revoke"
    PROVE  Spared(c)'
<1>1. /\ status \in [Connections -> Statuses] /\ jobs \in [Row -> Job]
      /\ worker[w] \in WorkerState
  BY DEF IInv, TypeOK
<1>2. ~Ending(c) /\ \A r \in RowsOf(c, "revoke") : jobs[r].state = "none"
  BY DEF Spared
<1>3. worker[w].row \notin RowsOf(c, "revoke")
  BY DEF Spared, Held
<1>4. \A r \in RowsOf(c, "revoke") : r \in Row
  BY DEF RowsOf
<1>5. NoRow \notin RowsOf(c, "revoke")
  BY <1>4, NoRowAssumption
<1>6. ASSUME NEW r \in Row, Claim(w, r)
      PROVE  r \notin RowsOf(c, "revoke")
  <2>1. jobs[r].state # "none"
    BY <1>6, RecoveredType DEF Claim, IInv
  <2> QED
    BY <1>2, <2>1
<1>7. \A v \in Workers : worker'[v].row \notin RowsOf(c, "revoke") \/ worker'[v].row = worker[v].row
  BY <1>5, <1>6, HeldStep
<1>8. ASSUME NEW r \in Row, Claim(w, r)
      PROVE  Spared(c)'
  <2>1. status' = status /\ \A s \in Row : s # r => jobs'[s] = Recovered[s]
    BY <1>8, RecoveredType DEF Claim, connectionVars, IInv
  <2>2. \A s \in RowsOf(c, "revoke") : jobs[s].state = "none" => jobs'[s].state = "none"
    BY <1>4, <1>6, <1>8, <2>1, RecoveredType DEF IInv
  <2> QED
    BY <1>2, <1>7, <2>1, <2>2, SparedStays DEF Ending
<1>9. CASE status' = status /\ jobs' = jobs
  BY <1>2, <1>7, <1>9, SparedStays DEF Ending
<1>10. ASSUME worker[w].stage # "idle",
              RetireSelf(w) \/ (\E next \in {"healthy", "syncing"} : KeepSelf(w, next))
       PROVE  Spared(c)'
  <2>1. ConnOf(w) \in Connections
    BY <1>10, WorkerConn
  <2>2. c \notin Retired(ConnOf(w))
    BY <2>1, FirstNotRetired
  <2>3. status'[c] \in {status[c], "healthy", "syncing"}
    BY <1>10, <2>2 DEF RetireSelf, KeepSelf
  <2>4. jobs' = Enqueue(Retired(ConnOf(w)), "revoke")
    BY <1>10 DEF RetireSelf, KeepSelf
  <2>5. \A r \in RowsOf(c, "revoke") : jobs'[r] = jobs[r]
    BY <2>2, <2>4, EnqueueSpares
  <2> QED
    BY <1>2, <1>7, <2>3, <2>5, SparedStays DEF Ending
<1>11. CASE FinalizeRevocation(w)
  <2>1. worker[w].stage = "removed" /\ worker[w].row.op = "revoke"
    BY <1>11 DEF FinalizeRevocation
  <2>2. worker[w].row \in Row
    BY <2>1, WorkerConn
  <2>3. ConnOf(w) # c
    BY <1>3, <2>1, <2>2 DEF RowsOf, ConnOf
  <2>4. status'[c] = status[c] /\ jobs' = jobs
    BY <1>1, <1>11, <2>3 DEF FinalizeRevocation
  <2> QED
    BY <1>2, <1>7, <2>4, SparedStays DEF Ending
<1>12. CASE FinishJob(w)
  <2>1. status' = status /\ \A r \in Row : r # worker[w].row => jobs'[r] = jobs[r]
    BY <1>1, <1>12 DEF FinishJob, connectionVars
  <2>2. \A r \in RowsOf(c, "revoke") : jobs'[r] = jobs[r]
    BY <1>3, <1>4, <2>1
  <2> QED
    BY <1>2, <1>7, <2>1, <2>2, SparedStays DEF Ending
<1>13. CASE RetryOrDeadLetter(w)
  <2>1. worker[w].row \in Row
    BY <1>13, WorkerConn DEF RetryOrDeadLetter
  <2>2. \A r \in Row : r # worker[w].row => jobs'[r] = jobs[r]
    BY <1>1, <1>13 DEF RetryOrDeadLetter
  <2>3. \A r \in RowsOf(c, "revoke") : jobs'[r] = jobs[r]
    BY <1>3, <1>4, <2>2
  <2>4. \/ status'[c] = status[c]
        \/ worker[w].row.conn = c /\ status'[c] = StatusAfterFailure(w)
    BY <1>1, <1>13 DEF RetryOrDeadLetter
  <2>5. worker[w].row.conn = c => ~Runs(w, "revoke")
    BY <1>3, <2>1 DEF RowsOf, Runs
  <2>6. status'[c] \notin {"revocation_pending", "revoked"}
    BY <1>2, <2>4, <2>5 DEF StatusAfterFailure, ConnOf, Ending
  <2> QED
    BY <1>7, <2>3, <2>6, SparedStays
<1>14. \/ \E r \in Row : Claim(w, r)
       \/ status' = status /\ jobs' = jobs
       \/ /\ worker[w].stage # "idle"
          /\ RetireSelf(w) \/ (\E next \in {"healthy", "syncing"} : KeepSelf(w, next))
       \/ FinalizeRevocation(w) \/ FinishJob(w) \/ RetryOrDeadLetter(w)
  <2>1. CASE Load(w) \/ Answer(w) \/ StepFails(w) \/ Crash(w)
    BY <2>1 DEF Load, Answer, Fetch, FetchAccountsOnly, FetchFails, RemoveItem,
       RemoveItemFails, StepFails, Crash, Keep, connectionVars
  <2>2. CASE CommitSync(w)
    BY <2>2 DEF CommitSync, connectionVars
  <2>3. CASE CommitAccounts(w)
    BY <2>3 DEF CommitAccounts, connectionVars
  <2> QED
    BY <2>1, <2>2, <2>3 DEF Work, Advance, Commit, Close
<1> QED
  BY <1>8, <1>9, <1>10, <1>11, <1>12, <1>13, <1>14

LEMMA HistoryStart == HistoryInit => HistoryInv
<1> SUFFICES ASSUME Init
             PROVE  HistoryInv
  BY DEF HistoryInit
<1>1. LinkedInOrder
  BY DEF Init, LinkedInOrder
<1>2. \A w \in Workers : worker[w] = Idle
  BY DEF Init
<1>3. \A c \in Connections : Spared(c)
  <2> SUFFICES ASSUME NEW c \in Connections
               PROVE  Spared(c)
    OBVIOUS
  <2>1. \A r \in RowsOf(c, "revoke") : r \in Row /\ jobs[r].state = "none"
    BY DEF Init, RowsOf
  <2>2. ~Ending(c)
    BY DEF Init, Ending
  <2> QED
    BY <1>2, <2>1, <2>2, NoRowAssumption DEF Spared, Held, Idle
<1> QED
  BY <1>1, <1>2, <1>3 DEF HistoryInv, Idle

LEMMA UndisturbedIsNext == Undisturbed => Next
BY DEF Undisturbed, Next, Request, Environment

LEMMA HistoryStep ==
    IInv /\ HistoryInv /\ [HistoryNext]_<<vars, history>> => HistoryInv'
<1> SUFFICES ASSUME IInv, HistoryInv, [HistoryNext]_<<vars, history>>
             PROVE  HistoryInv'
  OBVIOUS
<1>1. [Next]_vars /\ history' = history
  BY UndisturbedIsNext DEF HistoryNext
<1>2. LinkedInOrder'
  BY <1>1, OrderStep DEF HistoryInv
<1>3. \A w \in Workers : worker'[w].stage = "removed" => worker'[w].row.op = "revoke"
  BY <1>1, RemovedStep DEF HistoryInv
<1>4. ASSUME history = "undisturbed", NEW c \in Connections, First(c)
      PROVE  Spared(c)'
  <2>1. Spared(c)
    BY <1>4 DEF HistoryInv
  <2>2. CASE UNCHANGED vars
    BY <2>1, <2>2 DEF Spared, Ending, Held, RowsOf, vars, connectionVars
  <2>3. CASE Undisturbed
    <3>1. ASSUME NEW w \in Workers, Work(w)
          PROVE  Spared(c)'
      BY <1>4, <2>1, <3>1, SparedByWork DEF HistoryInv
    <3> QED
      BY <2>1, <2>3, <3>1, SparedByRequest, SparedByEnvironment DEF Undisturbed
  <2> QED
    BY <1>4, <2>2, <2>3 DEF HistoryNext
<1>5. \A c \in Connections : First(c)' => First(c)
  BY DEF First
<1> QED
  BY <1>1, <1>2, <1>3, <1>4, <1>5 DEF HistoryInv

\* The first of the connections to the same accounts is not ending, and was
\* linked before the others.
LEMMA FirstStays == HistoryInv => LinksSurvive
<1> SUFFICES ASSUME HistoryInv, history = "undisturbed", NEW c \in Connections, Ending(c)
             PROVE  \E d \in Connections :
                       d < c /\ Bank[d] = Bank[c] /\ status[d] # "unlinked" /\ ~Ending(d)
  BY DEF LinksSurvive, OldestLinkSurvives
<1> DEFINE Links == {d \in Connections : Bank[d] = Bank[c]}
<1>1. Links \subseteq Nat /\ c \in Links
  BY ConnectionsAssumption
<1>2. PICK d \in Links : \A e \in Links : d <= e
  BY <1>1, LeastNumber
<1>3. \A e \in Connections : e \in Nat
  BY ConnectionsAssumption
<1>4. First(d)
  BY <1>2, <1>3 DEF First
<1>5. ~Ending(d)
  BY <1>4 DEF HistoryInv, Spared
<1>6. d < c
  BY <1>1, <1>2, <1>3, <1>5
<1>7. status[d] # "unlinked"
  BY <1>6 DEF HistoryInv, LinkedInOrder, Ending
<1> QED
  BY <1>5, <1>6, <1>7

\* Households that link the same accounts several times keep a link to them:
\* whichever sync comes first and however the syncs, the retries and the lost
\* workers interleave, what ends is retired for an older link that stays
\* (resolveDuplicatePlaidItem, plaid.service.ts:1585-1640).
THEOREM LinksOutliveTheirTwins == HistorySpec => []LinksSurvive
<1>1. HistoryInit => IInv /\ HistoryInv
  BY InitInv, HistoryStart DEF HistoryInit
<1>2. [HistoryNext]_<<vars, history>> => [Next]_vars
  BY UndisturbedIsNext DEF HistoryNext
<1>3. IInv /\ HistoryInv /\ [HistoryNext]_<<vars, history>> => (IInv /\ HistoryInv)'
  BY <1>2, NextInv, HistoryStep
<1>4. IInv /\ HistoryInv => LinksSurvive
  BY FirstStays
<1> QED
  BY <1>1, <1>3, <1>4, PTL DEF HistorySpec
=============================================================================
