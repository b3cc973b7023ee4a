----------------------------- MODULE Workspace -----------------------------
(***************************************************************************)
(* The workspace a person sees (src/state/app-state.tsx and the drafts of  *)
(* src/components/plan-calibration.tsx and src/pages/onboarding.tsx), the  *)
(* requests it sends (src/lib/api.ts) and what the API does with them      *)
(* (apps/api/src/core/core.service.ts and idempotency.ts).                 *)
(*                                                                         *)
(* A bootstrap is the household's data_revision with the rows that were    *)
(* read after it.  Rows are modelled by their versions: the plan, one      *)
(* savings goal, and bills in the order they were created, Gone when they  *)
(* have been removed.  A command is a transaction of its own; the answer   *)
(* to it is a separate read, which takes the revision first and the rows   *)
(* in later statements.  The client queues its commands, and reads for     *)
(* three reasons at once: a reload, a poll after a bank command, and the   *)
(* command at the head of the queue.                                       *)
(*                                                                         *)
(* "Elsewhere" is every other session of the household and the worker.     *)
(* Requests and answers may be lost; a request the client has given up     *)
(* may still be executed, and one may arrive twice.                        *)
(***************************************************************************)
EXTENDS Integers, Sequences, FiniteSets

CONSTANTS
  Worlds,     \* what one history has: see WorkspaceAssumption
  MaxRequests \* bound on the commands given here

Gone == 99
Kinds == {"plan", "goal", "add", "calibrate", "sync"}
Slots == {"reload", "poll", "queue"}
Request == 1 .. MaxRequests
Forms == {"plan", "setup"}

\* native: the native shell, which keeps an encrypted copy; clicks: commands
\* given here; forms: the forms over the plan that are used, "setup" being
\* onboarding's, which is stored; edits: changes made elsewhere; links: a bank
\* is connected, too, with a request of its own for a token.  The others
\* are bounds: of the revisions of the household, of the commands given, of
\* the requests that arrive twice and of the times the client starts again.
ASSUME WorkspaceAssumption ==
  /\ MaxRequests \in Nat
  /\ \A w \in Worlds :
       /\ {w.native, w.links} \subseteq BOOLEAN /\ w.clicks \subseteq Kinds /\ w.forms \subseteq Forms
       /\ w.edits \subseteq {"plan", "goal", "add", "bill", "remove"}
       /\ w.revisions \in 1 .. Gone - 1 /\ w.requests \in 0 .. MaxRequests
       /\ {w.copies, w.restarts} \subseteq Nat

VARIABLES
  world,    \* what this history has
  store,    \* the household as committed: a revision and its rows
  recorded, \* idempotency records: requests that have committed
  wire,     \* requests the API has yet to execute
  reads,    \* bootstraps being read, one for each reason
  ui,       \* the client; heard: a bootstrap of the API has come since it
            \* started (history); body: the headers of the queue's answer are
            \* there, which ends the time limit, and its body is awaited
  copy,     \* the native shell's last confirmed copy
  stored,   \* the stored draft of onboarding
  bounds,   \* commands, copies and restarts so far
  history   \* history: rows of every revision, what each request did and
            \* what its user was told

vars == <<world, store, recorded, wire, reads, ui, copy, stored, bounds, history>>

(***************************************************************************)
(* Rows and commands                                                       *)
(***************************************************************************)
Blank == [plan |-> 0, goal |-> 0, bills |-> <<>>]
Nothing == [revision |-> 0, rows |-> Blank]
Live(rows) == {b \in DOMAIN rows.bills : rows.bills[b] # Gone}

Added(rows, n) == [rows EXCEPT !.bills = @ \o [i \in 1 .. n |-> 1]]

\* The version checks of updatePlan, updateSavingsGoal and calibratePlan; a
\* new bill is checked against nothing.
Accepts(rows, r) ==
  CASE r.kind = "plan" -> rows.plan = r.plan
    [] r.kind = "goal" -> rows.goal = r.goal
    [] r.kind = "calibrate" ->
         /\ rows.plan = r.plan
         /\ \A k \in r.keep \cup r.remove : k.bill \in Live(rows) /\ rows.bills[k.bill] = k.version
    [] OTHER -> TRUE

\* A kept bill whose content is what the row says is left alone.
Calibrated(rows, r) ==
  [rows EXCEPT !.plan = @ + 1,
     !.bills = [b \in DOMAIN @ |->
                  IF \E k \in r.remove : k.bill = b THEN Gone
                  ELSE IF \E k \in r.keep : k.bill = b /\ k.content # @[b] THEN @[b] + 1
                  ELSE @[b]]]

Changed(rows, r) ==
  CASE r.kind = "plan" -> [rows EXCEPT !.plan = @ + 1]
    [] r.kind = "goal" -> [rows EXCEPT !.goal = @ + 1]
    [] r.kind = "add" -> Added(rows, 1)
    [] r.kind = "calibrate" -> Added(Calibrated(rows, r), r.new)
    [] OTHER -> rows

(***************************************************************************)
(* What the client makes of a bootstrap, of an error and of its own copy   *)
(***************************************************************************)
\* Mutant: an answer replaces the screen whatever its revision.
ShouldAcceptAny(current, incoming) == TRUE

ShouldAcceptBootstrap(current, incoming) == incoming >= current

ApplyBootstrap(u, b, status) ==
  LET v == [u EXCEPT !.heard = @ \/ status = "connected"]
  IN  IF ShouldAcceptBootstrap(u.screen.revision, b.revision)
      THEN [v EXCEPT !.screen = b, !.status = status] ELSE v

ReportError(u) == [u EXCEPT !.status = IF u.screen = Nothing THEN "unavailable" ELSE "cached"]

\* A copy older than the screen is ignored and still counts as loaded: the
\* client stays as it was.
LoadCachedBootstrap(u) ==
  IF copy = Nothing THEN ReportError(u) ELSE ApplyBootstrap(u, copy, "cached")

\* Whenever the client is connected, onboarding stores its draft again,
\* with the revision the screen has by then.
Envelope(u) ==
  IF u.form = "setup" /\ u.status = "connected"
  THEN [revision |-> u.screen.revision, rows |-> u.draft] ELSE stored

Show(u) == ui' = u /\ stored' = Envelope(u)

\* The native shell writes the copy in the background: it may not get there.
ShowConfirmed(u) ==
  /\ Show(u)
  /\ copy' \in IF world.native /\ u.screen # ui.screen THEN {copy, u.screen} ELSE {copy}

Idle == [phase |-> "idle", revision |-> 0, rows |-> Blank]
Asked == [Idle EXCEPT !.phase = "asked"]
Built(slot) == [revision |-> reads[slot].revision, rows |-> reads[slot].rows]

Mounted == [status |-> "loading", screen |-> Nothing, form |-> "none", draft |-> Blank,
            ready |-> FALSE, queue |-> <<>>, phase |-> "rest", heard |-> FALSE, body |-> FALSE]

Closed(u) == [u EXCEPT !.form = "none", !.draft = Blank]

Told(id, what) == [history EXCEPT !.told[id] = what]

(***************************************************************************)
(* Commands: given, sent, answered                                         *)
(***************************************************************************)
Command(kind) ==
  [id |-> bounds.clicks + 1, kind |-> kind, plan |-> ui.screen.rows.plan, goal |-> ui.screen.rows.goal,
   keep |-> {}, remove |-> {}, new |-> 0]

\* mutate() refuses while the screen is the cached copy.
Mutate(command) ==
  /\ ui.screen # Nothing /\ ui.status # "cached"
  /\ bounds.clicks < world.requests /\ bounds' = [bounds EXCEPT !.clicks = @ + 1]
  /\ history' = Told(command.id, "open")
  /\ Show([ui EXCEPT !.queue = Append(@, command)])
  /\ UNCHANGED <<world, store, recorded, wire, reads, copy>>

Click(kind) == kind \in world.clicks \ {"calibrate"} /\ Mutate(Command(kind))

\* The form takes its content from the screen it was opened on.  Onboarding
\* shows its own only while connected, once it has looked for a stored one.
OpenDraft(form) ==
  /\ form \in world.forms /\ ui.form = "none" /\ ui.screen # Nothing
  /\ form = "setup" => ui.ready /\ ui.status = "connected"
  /\ Show([ui EXCEPT !.form = form, !.draft = ui.screen.rows])
  /\ UNCHANGED <<world, store, recorded, wire, reads, copy, bounds, history>>

\* The content is the draft's, the versions are those of the screen at the
\* time of the click; a bill the screen no longer has is sent as a new one,
\* and one the draft does not have is removed.
SavePlanCalibration(kept, edited, new) ==
  LET known == Live(ui.screen.rows)
  IN Mutate([Command("calibrate") EXCEPT
       !.keep = {[bill |-> b, version |-> ui.screen.rows.bills[b],
                  content |-> IF b \in edited THEN 0 ELSE ui.draft.bills[b]] : b \in kept \cap known},
       !.remove = {[bill |-> b, version |-> ui.screen.rows.bills[b]] : b \in known \ kept},
       !.new = new + Cardinality(kept \ known)])

SaveDraft ==
  /\ "calibrate" \in world.clicks /\ ui.form # "none"
  /\ \E kept \in SUBSET Live(ui.draft) : \E edited \in SUBSET kept :
       \E new \in 0 .. 1 : SavePlanCalibration(kept, edited, new)

\* The form is left, or onboarding is complete and its draft removed.
CloseDraft ==
  /\ ui.form # "none"
  /\ ui' = Closed(ui) /\ stored' = IF ui.form = "setup" THEN Nothing ELSE stored
  /\ UNCHANGED <<world, store, recorded, wire, reads, copy, bounds, history>>

Send ==
  /\ ui.phase = "rest" /\ ui.queue # <<>>
  /\ ui' = [ui EXCEPT !.phase = "sent"]
  /\ wire' = wire \cup {[Head(ui.queue) EXCEPT !.plan = ui.screen.rows.plan]}
  /\ UNCHANGED <<world, store, recorded, reads, copy, stored, bounds, history>>

(***************************************************************************)
(* The API                                                                 *)
(***************************************************************************)
Awaited(r) == ui.phase = "sent" /\ Head(ui.queue).id = r.id /\ reads["queue"].phase = "idle"

\* The answer may get lost on its way, and that of a copy arrive instead.
Answer(r, phase) ==
  \/ reads' = reads
  \/ Awaited(r) /\ reads' = [reads EXCEPT !["queue"] = [Idle EXCEPT !.phase = phase]]

Recorded(r) == r.id \in recorded

Done(r, rows) ==
  /\ store' = [revision |-> store.revision + 1, rows |-> rows]
  /\ recorded' = recorded \cup {r.id}
  /\ history' = [history EXCEPT !.rows = Append(@, rows), !.times[r.id] = @ + 1,
                                !.at[r.id] = store.revision + 1]
  /\ Answer(r, "asked")

Unwritten(r, phase) == Answer(r, phase) /\ UNCHANGED <<store, recorded, history>>

\* Mutant: the record of a request that has committed is taken for one that
\* is still being processed.
ReplayedAsConflict(r) == Recorded(r) /\ Unwritten(r, "refused")

Replayed(r) == Recorded(r) /\ Unwritten(r, "asked")

\* A request is executed once, with its record, or answered from the record;
\* a refusal takes the record with it.  The request for a bank sync has no
\* record and changes no row.
Execute(r) ==
  /\ r \in wire
  /\ \/ wire' = wire \ {r} /\ UNCHANGED bounds
     \/ /\ bounds.copies < world.copies /\ bounds' = [bounds EXCEPT !.copies = @ + 1]
        /\ UNCHANGED wire
  /\ \/ r.kind = "sync" /\ Unwritten(r, "asked")
     \/ r.kind # "sync" /\ Replayed(r)
     \/ /\ r.kind # "sync" /\ ~Recorded(r) /\ Accepts(store.rows, r)
        /\ store.revision < world.revisions /\ Done(r, Changed(store.rows, r))
     \/ r.kind # "sync" /\ ~Recorded(r) /\ ~Accepts(store.rows, r) /\ Unwritten(r, "refused")
  /\ UNCHANGED <<world, ui, copy, stored>>

\* A change by another session, made for the rows as they are.
RowsAfter(kind) ==
  CASE kind = "plan" -> {[store.rows EXCEPT !.plan = @ + 1]}
    [] kind = "goal" -> {[store.rows EXCEPT !.goal = @ + 1]}
    [] kind = "add" -> {Added(store.rows, 1)}
    [] kind = "bill" -> {[store.rows EXCEPT !.plan = @ + 1, !.bills[b] = @ + 1] : b \in Live(store.rows)}
    [] OTHER -> {[store.rows EXCEPT !.plan = @ + 1, !.bills[b] = Gone] : b \in Live(store.rows)}

EditElsewhere(kind) ==
  \E rows \in RowsAfter(kind) :
    /\ kind \in world.edits /\ store.revision < world.revisions
    /\ store' = [revision |-> store.revision + 1, rows |-> rows]
    /\ history' = [history EXCEPT !.rows = Append(@, rows)]
    /\ UNCHANGED <<world, recorded, wire, reads, ui, copy, stored, bounds>>

\* buildBootstrap: the revision first, the rows in later statements.
ReadRevision(slot) ==
  /\ reads[slot].phase = "asked"
  /\ reads' = [reads EXCEPT ![slot].phase = "counted", ![slot].revision = store.revision]
  /\ UNCHANGED <<world, store, recorded, wire, ui, copy, stored, bounds, history>>

\* Mutant: the revision is read after the rows.
ReadRowsFirst(slot) ==
  /\ reads[slot].phase = "counted"
  /\ reads' = [reads EXCEPT ![slot].phase = "built", ![slot].revision = store.revision,
                            ![slot].rows = history.rows[reads[slot].revision]]
  /\ UNCHANGED <<world, store, recorded, wire, ui, copy, stored, bounds, history>>

ReadRows(slot) ==
  /\ reads[slot].phase = "counted"
  /\ reads' = [reads EXCEPT ![slot].phase = "built", ![slot].rows = store.rows]
  /\ UNCHANGED <<world, store, recorded, wire, ui, copy, stored, bounds, history>>

(***************************************************************************)
(* The head of the queue                                                   *)
(***************************************************************************)
Finished(u) == [u EXCEPT !.queue = Tail(@), !.phase = "rest", !.body = FALSE]
Reconciling(u) == [u EXCEPT !.phase = "reconciling", !.body = FALSE]
InFlight == Head(ui.queue)

Saved(u) == IF InFlight.kind = "calibrate" /\ u.form = "plan" THEN Closed(u) ELSE u

\* requestParsed() stops its timer when fetch() has the headers; the body is
\* awaited without one.
ReceiveHeaders ==
  /\ ui.phase # "rest" /\ ~ui.body /\ reads["queue"].phase \in {"built", "refused"}
  /\ ui' = [ui EXCEPT !.body = TRUE]
  /\ UNCHANGED <<world, store, recorded, wire, reads, copy, stored, bounds, history>>

\* The command is reported as saved; a bank command starts the poll.
ReceiveAnswer ==
  /\ ui.phase = "sent" /\ ui.body /\ reads["queue"].phase = "built"
  /\ ShowConfirmed(Finished(Saved(ApplyBootstrap(ui, Built("queue"), "connected"))))
  /\ reads' = [reads EXCEPT !["queue"] = Idle,
                            !["poll"] = IF InFlight.kind = "sync" THEN Asked ELSE @]
  /\ history' = Told(InFlight.id, "saved")
  /\ UNCHANGED <<world, store, recorded, wire, bounds>>

Reconcile(u, what) ==
  /\ Show(Reconciling(u))
  /\ reads' = [reads EXCEPT !["queue"] = Asked]
  /\ history' = Told(InFlight.id, what)
  /\ UNCHANGED <<world, store, recorded, wire, copy, bounds>>

ReceiveRefusal ==
  ui.phase = "sent" /\ ui.body /\ reads["queue"].phase = "refused" /\ Reconcile(ui, "refused")

\* No answer within 30 seconds, no network, a server error or a body that is
\* none.
LoseAnswer == ui.phase = "sent" /\ Reconcile([ui EXCEPT !.status = "cached"], "unknown")

\* The screen is connected again whether or not the bootstrap was accepted.
ReceiveReconciliation ==
  /\ ui.phase = "reconciling" /\ ui.body /\ reads["queue"].phase = "built"
  /\ ShowConfirmed(Finished([ApplyBootstrap(ui, Built("queue"), "connected") EXCEPT !.status = "connected"]))
  /\ reads' = [reads EXCEPT !["queue"] = Idle]
  /\ UNCHANGED <<world, store, recorded, wire, bounds, history>>

\* Mutant: an error of the bootstrap after an error is not caught.
LoseReconciliationUncaught == ui.phase = "reconciling" /\ UNCHANGED vars

LoseReconciliation ==
  /\ ui.phase = "reconciling"
  /\ Show(Finished(ReportError(ui)))
  /\ reads' = [reads EXCEPT !["queue"] = Idle]
  /\ UNCHANGED <<world, store, recorded, wire, copy, bounds, history>>

(***************************************************************************)
(* Reloads, polls, the network and the life of the client                  *)
(***************************************************************************)
\* A reload forgets the one before it.
ReloadBackend ==
  /\ reads' = [reads EXCEPT !["reload"] = Asked]
  /\ Show(IF ui.screen = Nothing THEN [ui EXCEPT !.status = "loading"] ELSE ui)
  /\ UNCHANGED <<world, store, recorded, wire, copy, bounds, history>>

ReceiveReload ==
  /\ reads["reload"].phase = "built"
  /\ ShowConfirmed(ApplyBootstrap(ui, Built("reload"), "connected"))
  /\ reads' = [reads EXCEPT !["reload"] = Idle]
  /\ UNCHANGED <<world, store, recorded, wire, bounds, history>>

LoseReload ==
  /\ reads["reload"].phase # "idle"
  /\ Show(LoadCachedBootstrap(ui))
  /\ reads' = [reads EXCEPT !["reload"] = Idle]
  /\ UNCHANGED <<world, store, recorded, wire, copy, bounds, history>>

\* The poll ends when the bank has settled or its three minutes are over;
\* its errors are silent.
ReceivePoll ==
  /\ reads["poll"].phase = "built"
  /\ ShowConfirmed(ApplyBootstrap(ui, Built("poll"), "connected"))
  /\ \E next \in {Idle, Asked} : reads' = [reads EXCEPT !["poll"] = next]
  /\ UNCHANGED <<world, store, recorded, wire, bounds, history>>

LosePoll ==
  /\ reads["poll"].phase # "idle"
  /\ \E next \in {Idle, Asked} : reads' = [reads EXCEPT !["poll"] = next]
  /\ UNCHANGED <<world, store, recorded, wire, ui, copy, stored, bounds, history>>

GoOffline ==
  /\ ui.screen # Nothing /\ Show([ui EXCEPT !.status = "cached"])
  /\ UNCHANGED <<world, store, recorded, wire, reads, copy, bounds, history>>

\* createPlaidLinkToken() fails: whatever is on the screen, the last confirmed
\* copy too, counts as connected.
FailLinkToken ==
  /\ world.links /\ ui.screen # Nothing /\ Show([ui EXCEPT !.status = "connected"])
  /\ UNCHANGED <<world, store, recorded, wire, reads, copy, bounds, history>>

\* Onboarding looks for its stored draft once.  A draft stored at another
\* revision is discarded; one that is taken gains the bills it lacks.
Merged(rows) ==
  [ui.screen.rows EXCEPT !.bills =
     [b \in DOMAIN @ |-> IF b \in Live(rows) THEN rows.bills[b] ELSE @[b]]]

DraftReady == stored # Nothing /\ stored.revision = ui.screen.revision

RestoreDraft ==
  /\ "setup" \in world.forms /\ ui.status = "connected" /\ ~ui.ready /\ ui.form = "none"
  /\ IF DraftReady
     THEN Show([ui EXCEPT !.ready = TRUE, !.form = "setup", !.draft = Merged(stored.rows)])
     ELSE ui' = [ui EXCEPT !.ready = TRUE] /\ stored' = Nothing
  /\ UNCHANGED <<world, store, recorded, wire, reads, copy, bounds, history>>

\* The page is loaded again or the process restarted: what was on its way
\* may still be executed, and nobody hears of it.
Restart ==
  /\ bounds.restarts < world.restarts /\ bounds' = [bounds EXCEPT !.restarts = @ + 1]
  /\ ui' = Mounted
  /\ reads' = [s \in Slots |-> IF s = "reload" THEN Asked ELSE Idle]
  /\ history' = [history EXCEPT !.told = [id \in Request |-> IF @[id] = "open" THEN "unknown" ELSE @[id]]]
  /\ UNCHANGED <<world, store, recorded, wire, copy, stored>>

Init ==
  /\ world \in Worlds
  /\ store = [revision |-> 1, rows |-> [plan |-> 1, goal |-> 1, bills |-> <<1>>]]
  /\ recorded = {} /\ wire = {}
  /\ reads = [s \in Slots |-> IF s = "reload" THEN Asked ELSE Idle]
  /\ ui = Mounted /\ copy = Nothing /\ stored = Nothing
  /\ bounds = [clicks |-> 0, copies |-> 0, restarts |-> 0]
  /\ history = [rows |-> <<store.rows>>, at |-> [id \in Request |-> 0],
                times |-> [id \in Request |-> 0], told |-> [id \in Request |-> "none"]]

Next ==
  \/ \E kind \in world.clicks : Click(kind)
  \/ \E form \in Forms : OpenDraft(form)
  \/ SaveDraft \/ CloseDraft \/ Send
  \/ \E r \in wire : Execute(r)
  \/ \E kind \in world.edits : EditElsewhere(kind)
  \/ \E slot \in Slots : ReadRevision(slot) \/ ReadRows(slot)
  \/ ReceiveHeaders \/ ReceiveAnswer \/ ReceiveRefusal \/ LoseAnswer
  \/ ReceiveReconciliation \/ LoseReconciliation
  \/ ReloadBackend \/ ReceiveReload \/ LoseReload \/ ReceivePoll \/ LosePoll
  \/ GoOffline \/ FailLinkToken \/ RestoreDraft \/ Restart

\* The client sends what it has queued, and a request whose headers do not come
\* ends by its time limit (the token it is sent with is taken to come).  Nothing
\* ends one whose body does not come.
Fairness ==
  /\ WF_vars(Send)
  /\ WF_vars(~ui.body /\ LoseAnswer) /\ WF_vars(~ui.body /\ LoseReconciliation)

Spec == Init /\ [][Next]_vars
FairSpec == Spec /\ Fairness

(***************************************************************************)
(* Properties                                                              *)
(***************************************************************************)
Version == 0 .. world.revisions \cup {Gone}
Rows == [plan : 0 .. world.revisions, goal : 0 .. world.revisions, bills : Seq(Version)]
Bootstrap == [revision : 0 .. world.revisions, rows : Rows]
Read == [phase : {"idle", "asked", "counted", "built", "refused"},
         revision : 0 .. world.revisions, rows : Rows]
Commands ==
  [id : Request, kind : Kinds, plan : Nat, goal : Nat,
   keep : SUBSET [bill : Nat, version : Nat, content : Nat],
   remove : SUBSET [bill : Nat, version : Nat], new : Nat]
Client ==
  [status : {"loading", "connected", "cached", "unavailable"}, screen : Bootstrap,
   form : Forms \cup {"none"}, draft : Rows, ready : BOOLEAN, queue : Seq(Commands),
   phase : {"rest", "sent", "reconciling"}, heard : BOOLEAN, body : BOOLEAN]

\* The state has the types the code gives it.
TypeOK ==
  /\ world \in Worlds
  /\ store \in Bootstrap /\ store.revision > 0
  /\ recorded \subseteq Request /\ wire \subseteq Commands
  /\ reads \in [Slots -> Read]
  /\ ui \in Client /\ (ui.queue = <<>> => ui.phase = "rest")
  /\ copy \in Bootstrap /\ stored \in Bootstrap
  /\ bounds \in [clicks : 0 .. world.requests, copies : 0 .. world.copies, restarts : 0 .. world.restarts]
  /\ history \in [rows : Seq(Rows), at : [Request -> Nat], times : [Request -> Nat],
                  told : [Request -> {"none", "open", "saved", "refused", "unknown"}]]

\* What is shown, and what the native shell keeps, is never older than the
\* revision it names: rows may be newer, because buildBootstrap reads them
\* after the revision, and never the other way round (core 6623-6700,
\* app-state 415-431).
AsNew(rows, old) ==
  /\ rows.plan >= old.plan /\ rows.goal >= old.goal
  /\ Len(rows.bills) >= Len(old.bills)
  /\ \A b \in DOMAIN old.bills : rows.bills[b] >= old.bills[b]

ScreenHasItsRevision ==
  \A b \in {ui.screen, copy} : b # Nothing => AsNew(b.rows, history.rows[b.revision])

\* Once the API has been heard, a command the client has reported as saved, in
\* this life or an earlier one, is on the screen, connected or not, and does not
\* disappear from it again, whichever of the answers of three concurrent reads
\* arrives last (bootstrap-version.ts, app-state 415-431, 650-724).  Before, a
\* client that has been started again may show an older native copy.
ShowsSaved == \A id \in Request : history.told[id] = "saved" => ui.screen.revision >= history.at[id]
SavedEditsStay == ui.heard => ShowsSaved

\* A request takes effect at most once, however often it arrives, also
\* after its client has given it up (idempotency.ts 7-27).
OneEffect == \A id \in Request : history.times[id] <= 1

\* A command reported as refused takes no effect later: its record was
\* rolled back with it, and the versions it names never come back
\* (idempotency.ts 17, core 2638-2646, 3040, 3145).
RefusedNeverApplies == \A id \in Request : history.told[id] = "refused" => history.times[id] = 0

\* Both, with the types: a command does what its client was told.
AppliedAsTold == TypeOK /\ OneEffect /\ RefusedNeverApplies

\* Behind them: WorkspaceInv is inductive.  Versions only grow, and none is
\* greater than the revision it came with.
HistoryGrows ==
  /\ Len(history.rows) = store.revision
  /\ \A i \in DOMAIN history.rows : AsNew(store.rows, history.rows[i])
  /\ store.rows.plan <= store.revision /\ store.rows.goal <= store.revision
  /\ \A b \in DOMAIN store.rows.bills : store.rows.bills[b] \in 0 .. store.revision \cup {Gone}

\* A bootstrap has rows that are as new as the revision it names and no
\* newer than the store's.
Confirmed(b) ==
  /\ b.revision \in DOMAIN history.rows
  /\ AsNew(b.rows, history.rows[b.revision]) /\ AsNew(store.rows, b.rows)

BootstrapsAreConfirmed ==
  /\ \A b \in {ui.screen, copy} : b # Nothing => Confirmed(b)
  /\ \A s \in Slots :
       /\ reads[s].phase = "counted" => reads[s].revision \in DOMAIN history.rows
       /\ reads[s].phase = "built" => Confirmed(Built(s))

\* A command names versions that have existed.
NamesVersions(r) ==
  /\ r.plan <= store.rows.plan /\ r.goal <= store.rows.goal
  /\ \A k \in r.keep \cup r.remove :
       k.bill \in DOMAIN store.rows.bills /\ k.version <= store.rows.bills[k.bill]

CommandsNameVersions ==
  /\ \A r \in wire : NamesVersions(r)
  /\ \A i \in DOMAIN ui.queue : NamesVersions(ui.queue[i])

\* The commands of the queue are those given last; but for the one in flight
\* they have neither been sent nor answered.  A request is one command's.
Waiting(i) == i > 1 \/ ui.phase = "rest"

CommandsAreOrdered ==
  /\ \A i \in DOMAIN ui.queue :
       /\ ui.queue[i].id <= bounds.clicks
       /\ \A j \in DOMAIN ui.queue : i < j => ui.queue[i].id < ui.queue[j].id
       /\ Waiting(i) => /\ ui.queue[i].id \notin recorded /\ history.told[ui.queue[i].id] = "open"
                        /\ \A r \in wire : r.id # ui.queue[i].id
  /\ \A r \in wire : r.id <= bounds.clicks /\ \A q \in wire : q.id = r.id => q = r
  /\ \A id \in recorded : id <= bounds.clicks

RecordsAreKept ==
  \A id \in Request :
    /\ history.times[id] = IF id \in recorded THEN 1 ELSE 0
    /\ history.at[id] <= store.revision

\* A refusal is final, and so is a success.
Refused(id) ==
  /\ id \notin recorded
  /\ \A r \in wire : r.id = id => r.kind # "sync" /\ ~Accepts(store.rows, r)

Settled(id) == id \in recorded \/ \A r \in wire : r.id = id => r.kind = "sync"

Reading(slot) == reads[slot].phase \in {"counted", "built"}

AnswersAreTrue ==
  /\ ui.phase = "rest" => reads["queue"].phase = "idle"
  /\ reads["queue"].phase = "refused" => ui.phase = "sent" /\ Refused(InFlight.id)
  /\ ui.phase = "sent" /\ reads["queue"].phase \in {"asked", "counted", "built"} =>
       /\ Settled(InFlight.id)
       /\ Reading("queue") => reads["queue"].revision >= history.at[InFlight.id]

\* A saved command is on the screen or, after a restart, in every bootstrap
\* that is being read.
ToldIsTrue ==
  \A id \in Request :
    /\ history.told[id] = "refused" => Refused(id)
    /\ history.told[id] = "saved" =>
         /\ Settled(id)
         /\ \/ ui.screen.revision >= history.at[id]
            \/ /\ ~ui.heard
               /\ \A s \in Slots : Reading(s) => reads[s].revision >= history.at[id]

WorkspaceInv ==
  /\ TypeOK /\ HistoryGrows /\ BootstrapsAreConfirmed /\ CommandsNameVersions
  /\ CommandsAreOrdered /\ RecordsAreKept /\ AnswersAreTrue /\ ToldIsTrue

\* Every command is answered unless a body is awaited for ever: one that fails
\* does not hold up the queue, nor does one whose answer is lost (app-state
\* 694-721, api.ts 326-339).
QueueDrains ==
  []<>~ui.body => \A id \in Request : history.told[id] = "open" ~> history.told[id] # "open"

\* docs/PRODUCT_ARCHITECTURE.md:20, "Stale or cross-identity drafts are
\* discarded": a draft onboarding takes back is not older than the revision
\* on the screen, which is the one it was stored with.
StaleDraftsAreDiscarded ==
  [][(~ui.ready /\ ui'.form = "setup") => AsNew(stored.rows, history.rows[ui.screen.revision])]_vars

\* Further definitions that do not hold (see the README).  A connected screen
\* has every command reported as saved.
ConnectedShowsSaved == ui.status = "connected" => ShowsSaved

\* Every command is answered: the 30 seconds are a limit for all of a request.
EveryCommandIsAnswered == \A id \in Request : history.told[id] = "open" ~> history.told[id] # "open"

\* A calibration
\* removes only bills its form has shown.
RemovedByUser ==
  [][Len(ui'.queue) > Len(ui.queue) =>
       {k.bill : k \in ui'.queue[Len(ui'.queue)].remove} \subseteq DOMAIN ui.draft.bills]_vars

\* A calibration writes a bill the user did not edit with the content the
\* row has in the version it names.
UneditedIsUnchanged ==
  [][Len(ui'.queue) > Len(ui.queue) =>
       \A k \in ui'.queue[Len(ui'.queue)].keep : k.content \in {0, k.version}]_vars

\* A change of the plan names the version it was made on.
PlanChangeNamesItsVersion == [][\A r \in wire' \ wire : r.plan = Head(ui.queue).plan]_vars

\* A command is not executed after its client is connected again and has
\* nothing in flight.
NothingComesLate == (ui.status = "connected" /\ ui.queue = <<>>) => {r \in wire : ~Recorded(r)} = {}
=============================================================================
