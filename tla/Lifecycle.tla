----------------------------- MODULE Lifecycle -----------------------------
(***************************************************************************)
(* The first and the last steps of a household's access to a bank: the     *)
(* link sessions and the exchange of a public token (plaid.service.ts, the *)
(* button of plaid-link-button.tsx, the return page plaid-oauth.tsx and    *)
(* the native shell's native-runtime.tsx), and the deletion of accounts    *)
(* (operations.service.ts, the worker's finalizeOne, Clerk's user.deleted  *)
(* webhook and the functions of migrations 019, 020, 023 and 027).         *)
(*                                                                         *)
(* One household.  Its members are numbered in the order they joined.  A   *)
(* public token stands for the Item it is exchanged for; Item 0 was linked *)
(* before.  One client links.  A transaction is one action; the calls to   *)
(* Plaid and to Clerk, and the API or the worker stopping, come between.   *)
(* The revocation of an Item, which PlaidSync has step by step, is here    *)
(* one action that succeeds and one that fails for good.                   *)
(***************************************************************************)
EXTENDS Integers, Sequences, FiniteSets

CONSTANTS
  Worlds,      \* what one history has: see LifecycleAssumption
  Workers,     \* processes of the maintenance worker, numbered
  MaxMembers, MaxSessions, MaxTokens, MaxAttempts \* bounds

Member == 1 .. MaxMembers
Session == 1 .. MaxSessions
Token == 1 .. MaxTokens
Item == 0 .. MaxTokens
Attempt == 1 .. MaxAttempts

\* members: how many there are, the first an owner; leaving: who asks for the
\* deletion of the account; outside: whose identity is removed at Clerk;
\* linked: Item 0 exists; workers: how many run; linker: whose client links;
\* native: it is the native shell.  The others are bounds: of sessions, of public tokens, of
\* stops of the API or the worker, of answers lost by Plaid, and of times
\* the client starts again; expires: sessions may expire; fails: revocations
\* may fail for good.
ASSUME LifecycleAssumption ==
  /\ {MaxMembers, MaxSessions, MaxTokens, MaxAttempts} \subseteq Nat
  /\ \A w \in Worlds :
       /\ w.members \in Member /\ w.leaving \cup w.outside \subseteq 1 .. w.members
       /\ {w.linked, w.native, w.expires, w.fails} \subseteq BOOLEAN /\ w.linker \in 1 .. w.members
       /\ 1 .. w.workers \subseteq Workers
       /\ w.sessions \in 0 .. MaxSessions /\ w.tokens \in 0 .. MaxTokens
       /\ {w.crashes, w.losses, w.restarts} \subseteq Nat

VARIABLES
  world,    \* what this history has
  home,     \* the household, its memberships, deletion requests and receipts
  link,     \* link sessions and connections
  provider, \* Clerk's identities and Plaid's public tokens and Items
  api,      \* requests that exchange a public token
  worker,   \* the deletion each worker has claimed
  client,   \* the client that links
  bounds    \* stops, lost answers and restarts so far

vars == <<world, home, link, provider, api, worker, client, bounds>>

(***************************************************************************)
(* The household                                                           *)
(***************************************************************************)
Active == home.lifecycle = "active"
Others(u) == {v \in Member : home.here[v] /\ v # u}
Pending(u) == home.asked[u] \notin {"none", "completed"}

\* A connection that is not revoked is in use; a revocation of it is queued
\* ("pending"); or the revocation was dead-lettered, and the connection shows
\* revocation_pending ("failed") or, if the bank wants a login, login_required
\* ("locked").
InUse == {"live", "locked"}
Linked == InUse \cup {"pending", "failed"}

Unrevoked == {i \in Item : link.connection[i] \in Linked}
Granted == {i \in Item : link.connection[i] \in InUse}

RevokeAll(l, those) ==
  [l EXCEPT !.connection = [i \in Item |-> IF @[i] \in those THEN "pending" ELSE @[i]]]

Asked(h, u, status) == [h EXCEPT !.asked[u] = status, !.order = Append(@, u)]

\* The other member who joined first becomes an owner, whether or not that
\* member is leaving too.
HandOver(h, u) ==
  [h EXCEPT !.role = [v \in Member |->
     IF v \in Others(u) /\ \A o \in Others(u) : v <= o THEN "owner" ELSE @[v]]]

\* A second request returns the first, after it has handed over again.  A
\* revocation that is pending already is not queued again, dead or not.
RequestDeletion(u) ==
  /\ u \in world.leaving /\ home.here[u] /\ home.role[u] = "owner"
  /\ \/ Pending(u) /\ home' = HandOver(home, u) /\ link' = link
     \/ /\ ~Pending(u) /\ Others(u) # {}
        /\ home' = Asked(HandOver(home, u), u, "ready") /\ link' = link
     \/ /\ ~Pending(u) /\ Others(u) = {} /\ Active
        /\ home' = Asked([home EXCEPT !.lifecycle = "deleting"], u,
                         IF Granted = {} THEN "ready" ELSE "revoking")
        /\ link' = RevokeAll(link, InUse)
  /\ UNCHANGED <<world, provider, api, worker, client, bounds>>

Disconnect(u, i) ==
  /\ u \in world.leaving /\ home.here[u] /\ link.connection[i] \in Linked
  /\ link' = [link EXCEPT !.connection[i] = "pending"]
  /\ UNCHANGED <<world, home, provider, api, worker, client, bounds>>

\* The synchronization worker's revocation; it acts for a member.
Revoke(i) ==
  /\ link.connection[i] = "pending" /\ \E u \in Member : home.here[u]
  /\ link' = [link EXCEPT !.connection[i] = "revoked"]
  /\ provider' = [provider EXCEPT !.item[i] = "removed"]
  /\ UNCHANGED <<world, home, api, worker, client, bounds>>

\* It ends in a dead letter, after a final error or the last attempt.  Plaid
\* may have removed the Item all the same, unless it asked for a login.
\* Nothing but a request, an event or a finalization queues it again.
RevocationFails(i) ==
  /\ world.fails /\ link.connection[i] = "pending" /\ \E u \in Member : home.here[u]
  /\ \/ /\ link' = [link EXCEPT !.connection[i] = "failed"]
        /\ provider' \in {provider, [provider EXCEPT !.item[i] = "removed"]}
     \/ /\ provider.item[i] = "present"
        /\ link' = [link EXCEPT !.connection[i] = "locked"] /\ provider' = provider
  /\ UNCHANGED <<world, home, api, worker, client, bounds>>

(***************************************************************************)
(* Clerk: an identity removed elsewhere, and the event of every removal,   *)
(* delivered until it is received                                          *)
(***************************************************************************)
RemoveIdentity(u) ==
  /\ u \in world.outside /\ provider.identity[u]
  /\ provider' = [provider EXCEPT !.identity[u] = FALSE]
  /\ UNCHANGED <<world, home, link, api, worker, client, bounds>>

Queued(h, u, status) ==
  [(IF Pending(u) THEN h ELSE Asked(h, u, status)) EXCEPT !.receipt[u] = "queued"]

ReceiveUserDeleted(u) ==
  /\ ~provider.identity[u] /\ home.receipt[u] = "none"
  /\ \/ /\ ~home.here[u]
        /\ home' = [home EXCEPT !.receipt[u] = "ignored"] /\ link' = link
     \/ /\ home.here[u] /\ home.role[u] = "owner" /\ Others(u) = {}
        /\ home' = Queued([home EXCEPT !.lifecycle = "deleting"], u,
                          IF Unrevoked = {} THEN "ready" ELSE "revoking")
        /\ link' = RevokeAll(link, Linked)
     \/ /\ home.here[u] /\ home.role[u] = "owner" /\ Others(u) # {}
        /\ home' = Queued(HandOver(home, u), u, "ready") /\ link' = link
     \/ /\ home.here[u] /\ home.role[u] # "owner"
        /\ home' = Queued(home, u, "ready") /\ link' = link
  /\ UNCHANGED <<world, provider, api, worker, client, bounds>>

(***************************************************************************)
(* The worker: claim, delete the identity, finalize                        *)
(***************************************************************************)
NoDeletion == [user |-> 0, step |-> "none"]

\* Mutant: a finalization that did not end is not taken up again.
ClaimableOnce(u) ==
  /\ home.asked[u] \in {"ready", "revoking"}
  /\ Others(u) # {} \/ Unrevoked = {}

\* "overdue" is a request that has been finalizing for five minutes.
Claimable(u) ==
  /\ home.asked[u] \in {"ready", "revoking", "overdue"}
  /\ Others(u) # {} \/ Unrevoked = {}

\* The request that was made first.
Claim(w) ==
  /\ w <= world.workers /\ worker[w] = NoDeletion
  /\ \E i \in DOMAIN home.order :
       LET u == home.order[i]
       IN /\ Claimable(u) /\ \A j \in 1 .. i - 1 : ~Claimable(home.order[j])
          /\ home' = [home EXCEPT !.asked[u] = "finalizing"]
          /\ worker' = [worker EXCEPT ![w] = [user |-> u, step |-> "claimed"]]
  /\ UNCHANGED <<world, link, provider, api, client, bounds>>

DeleteIdentity(w) ==
  /\ worker[w].step = "claimed"
  /\ provider' = [provider EXCEPT !.identity[worker[w].user] = FALSE]
  /\ worker' = [worker EXCEPT ![w].step = "identity deleted"]
  /\ UNCHANGED <<world, home, link, api, client, bounds>>

\* Clerk refuses, or its answer is lost; the request stays finalizing.
DeleteIdentityFails(w) ==
  /\ worker[w].step = "claimed"
  /\ \E gone \in BOOLEAN :
       provider' = [provider EXCEPT !.identity[worker[w].user] = @ /\ ~gone]
  /\ worker' = [worker EXCEPT ![w] = NoDeletion]
  /\ UNCHANGED <<world, home, link, api, client, bounds>>

\* The last member takes the household's data along.
Left(h, u) ==
  [h EXCEPT !.here[u] = FALSE, !.asked[u] = "completed",
            !.receipt[u] = IF @ = "queued" THEN "processed" ELSE @,
            !.lifecycle = IF Others(u) = {} THEN "deleted" ELSE "active"]
Erased(l) ==
  [session |-> [s \in Session |-> [l.session[s] EXCEPT !.status = IF @ = "none" THEN @ ELSE "erased"]],
   connection |-> [i \in Item |-> IF l.connection[i] = "none" THEN "none" ELSE "erased"]]

\* Mutant: the connections are not looked at again.
FinalizeUnrevoked(u) ==
  /\ home' = Left(home, u)
  /\ link' = IF Others(u) = {} THEN Erased(link) ELSE link

FinalizeAccountDeletion(u) ==
  \/ Unrevoked # {} /\ home' = [home EXCEPT !.asked[u] = "revoking"] /\ link' = RevokeAll(link, Linked)
  \/ /\ Unrevoked = {} /\ home' = Left(home, u)
     /\ link' = IF Others(u) = {} THEN Erased(link) ELSE link

Finalize(w) ==
  /\ worker[w].step = "identity deleted"
  /\ worker' = [worker EXCEPT ![w] = NoDeletion]
  /\ IF home.asked[worker[w].user] \in {"finalizing", "overdue"}
     THEN FinalizeAccountDeletion(worker[w].user) ELSE UNCHANGED <<home, link>>
  /\ UNCHANGED <<world, provider, api, client, bounds>>

Stopped == bounds.crashes < world.crashes /\ bounds' = [bounds EXCEPT !.crashes = @ + 1]

WorkerStops(w) ==
  /\ worker[w] # NoDeletion /\ Stopped
  /\ worker' = [worker EXCEPT ![w] = NoDeletion]
  /\ UNCHANGED <<world, home, link, provider, api, client>>

FiveMinutesPass(u) ==
  /\ home.asked[u] = "finalizing"
  /\ home' = [home EXCEPT !.asked[u] = "overdue"]
  /\ UNCHANGED <<world, link, provider, api, worker, client, bounds>>

(***************************************************************************)
(* The client: a button, the page a bank redirects to, or the native shell *)
(* that returns from the browser                                           *)
(***************************************************************************)
Rest == [phase |-> "idle", page |-> FALSE, session |-> 0, token |-> 0, attempt |-> 0, stored |-> 0]

Fresh == {s \in Session : s <= world.sessions /\ link.session[s].status = "none"}
Unissued == {t \in Token : t <= world.tokens /\ provider.item[t] = "none"}

\* The button forgets the session as soon as Link ends, the page and the
\* native shell when the exchange is over.
Settled(phase) ==
  [client EXCEPT !.phase = phase, !.attempt = 0, !.stored = 0]

Start ==
  /\ client.phase \in {"idle", "cancelled", "error"} /\ ~client.page /\ Fresh # {}
  /\ client' = [client EXCEPT !.phase = "requesting"]
  /\ UNCHANGED <<world, home, link, provider, api, worker, bounds>>

\* The household must be active before and after the call to Plaid.  The
\* answer may get lost.
CreateLinkToken ==
  /\ client.phase = "requesting"
  /\ \/ /\ home.here[world.linker] /\ Active
        /\ \E s \in Fresh :
             /\ \A f \in Fresh : s <= f
             /\ link' = [link EXCEPT !.session[s].status = "created"]
             /\ client' \in {[client EXCEPT !.phase = "opening", !.session = s, !.stored = s],
                             [client EXCEPT !.phase = "error"]}
     \/ client' = [client EXCEPT !.phase = "error"] /\ link' = link
  /\ UNCHANGED <<world, home, provider, api, worker, bounds>>

\* The bank's own page is shown, and returns to plaid-oauth with the session
\* that is stored.
Redirect ==
  /\ client.phase = "opening" /\ ~client.page /\ ~world.native
  /\ client' = [client EXCEPT !.phase = "away", !.page = TRUE]
  /\ UNCHANGED <<world, home, link, provider, api, worker, bounds>>

ReadPending ==
  /\ client.phase = "away"
  /\ client' =
       IF client.stored # 0 /\ ~link.session[client.stored].expired
       THEN [client EXCEPT !.phase = "opening", !.session = client.stored]
       ELSE [client EXCEPT !.phase = "expired", !.stored = 0]
  /\ UNCHANGED <<world, home, link, provider, api, worker, bounds>>

LinkSucceeds ==
  /\ client.phase = "opening"
  /\ \E t \in Unissued :
       /\ \A o \in Unissued : t <= o
       /\ provider' = [provider EXCEPT !.item[t] = "issued", !.public[client.session] = t]
       /\ client' = [client EXCEPT !.phase = "exchanging", !.token = t,
                                   !.stored = IF client.page \/ world.native THEN @ ELSE 0]
  /\ UNCHANGED <<world, home, link, api, worker, bounds>>

\* The page keeps the session when Link is left.
LinkExits ==
  /\ client.phase = "opening"
  /\ \/ /\ ~client.page
        /\ \E phase \in {"error", "cancelled"} : client' = Settled(phase)
     \/ client.page /\ client' \in {[client EXCEPT !.phase = "error"], [Rest EXCEPT !.stored = client.stored]}
  /\ UNCHANGED <<world, home, link, provider, api, worker, bounds>>

\* The page is left, or the client starts again; what is stored stays.
StartAgain ==
  /\ \/ client.phase \in {"done", "error", "expired"} /\ bounds' = bounds
     \/ bounds.restarts < world.restarts /\ bounds' = [bounds EXCEPT !.restarts = @ + 1]
  /\ client' = [Rest EXCEPT !.stored = client.stored]
  /\ UNCHANGED <<world, home, link, provider, api, worker>>

\* The browser returns to the native shell, which completes the session it
\* has stored: the API asks Plaid for the session's public token.
ReturnToNative ==
  /\ world.native /\ client.phase = "idle" /\ client.stored # 0
  /\ client' =
       IF provider.public[client.stored] = 0
       THEN [client EXCEPT !.phase = "error", !.stored = 0]
       ELSE [client EXCEPT !.phase = "exchanging", !.session = client.stored,
                           !.token = provider.public[client.stored]]
  /\ UNCHANGED <<world, home, link, provider, api, worker, bounds>>

(***************************************************************************)
(* The exchange                                                            *)
(***************************************************************************)
NoAttempt == [step |-> "free", session |-> 0, token |-> 0, leaked |-> FALSE]

\* Whether a session may be exchanged now: it was created, or an exchange of
\* the same token began more than two minutes ago.
Exchangeable(s, t) ==
  /\ ~s.expired
  /\ \/ s.status = "created"
     \/ s.status = "exchanging" /\ s.token = t /\ ~s.recent

\* The connection a completed session has stored.
Persisted(s, t) ==
  s.status = "completed" /\ s.token = t /\ link.connection[t] \in Linked

Exchange ==
  /\ client.phase = "exchanging" /\ client.attempt = 0
  /\ \/ /\ home.here[world.linker] /\ Active
        /\ Persisted(link.session[client.session], client.token)
        /\ client' = Settled("done") /\ UNCHANGED <<link, api>>
     \/ /\ home.here[world.linker] /\ Active
        /\ Exchangeable(link.session[client.session], client.token)
        /\ \E a \in Attempt :
             /\ api[a] = NoAttempt /\ \A b \in Attempt : api[b] = NoAttempt => a <= b
             /\ api' = [api EXCEPT ![a] = [step |-> "calling", session |-> client.session,
                                           token |-> client.token, leaked |-> FALSE]]
             /\ client' = [client EXCEPT !.attempt = a]
        /\ link' = [link EXCEPT !.session[client.session].status = "exchanging",
                                !.session[client.session].token = client.token,
                                !.session[client.session].recent = TRUE]
     \/ client' = Settled("error") /\ UNCHANGED <<link, api>>  \* refused, or lost
  /\ UNCHANGED <<world, home, provider, worker, bounds>>

\* Plaid exchanges a token once.  A lost answer leaves an Item nobody knows.
ExchangePublicToken(a) ==
  /\ api[a].step = "calling"
  /\ \/ /\ provider.item[api[a].token] = "issued"
        /\ provider' = [provider EXCEPT !.item[api[a].token] = "present"]
        /\ api' = [api EXCEPT ![a].step = "exchanged"] /\ bounds' = bounds
     \/ /\ provider.item[api[a].token] = "issued"
        /\ provider' = [provider EXCEPT !.item[api[a].token] = "present"]
        /\ bounds.losses < world.losses /\ bounds' = [bounds EXCEPT !.losses = @ + 1]
        /\ api' = [api EXCEPT ![a].step = "marking", ![a].leaked = TRUE]
     \/ api' = [api EXCEPT ![a].step = "marking"] /\ UNCHANGED <<provider, bounds>>
  /\ UNCHANGED <<world, home, link, worker, client>>

Storable(s, t) ==
  /\ home.here[world.linker] /\ Active
  /\ s.status = "exchanging" /\ s.token = t

Store(a) ==
  /\ api[a].step = "exchanged"
  /\ \/ /\ Storable(link.session[api[a].session], api[a].token)
        /\ link' = [link EXCEPT !.connection[api[a].token] = "live",
                                !.session[api[a].session].status = "completed",
                                !.session[api[a].session].recent = FALSE]
        /\ api' = [api EXCEPT ![a].step = "succeeded"]
     \/ api' = [api EXCEPT ![a].step = "compensating"] /\ link' = link
  /\ UNCHANGED <<world, home, provider, worker, client, bounds>>

Compensate(a) ==
  /\ api[a].step = "compensating"
  /\ \/ /\ provider' = [provider EXCEPT !.item[api[a].token] = "removed"]
        /\ api' = [api EXCEPT ![a].step = "marking"]
     \/ api' = [api EXCEPT ![a].step = "marking", ![a].leaked = TRUE] /\ provider' = provider
  /\ UNCHANGED <<world, home, link, worker, client, bounds>>

\* Mutant: a session another attempt has completed is marked as failed.
MarkedFailedAlways(s) == [s EXCEPT !.status = "failed", !.recent = FALSE]

MarkedFailed(s) ==
  IF s.status \in {"created", "exchanging", "failed"}
  THEN [s EXCEPT !.status = "failed", !.recent = FALSE] ELSE s

\* An error of the mark itself is ignored.
MarkSessionFailed(a) ==
  /\ api[a].step = "marking"
  /\ api' = [api EXCEPT ![a].step = "failed"]
  /\ \/ link' = link
     \/ /\ home.here[world.linker]
        /\ link' = [link EXCEPT !.session[api[a].session] = MarkedFailed(@)]
  /\ UNCHANGED <<world, home, provider, worker, client, bounds>>

ApiStops(a) ==
  /\ api[a].step \in {"calling", "exchanged", "compensating", "marking"} /\ Stopped
  /\ api' = [api EXCEPT ![a].leaked = @ \/ api[a].step \in {"exchanged", "compensating"},
                        ![a].step = "failed"]
  /\ UNCHANGED <<world, home, link, provider, worker, client>>

ReceiveAnswer ==
  /\ client.attempt # 0 /\ api[client.attempt].step \in {"succeeded", "failed"}
  /\ client' = Settled(IF api[client.attempt].step = "succeeded" THEN "done" ELSE "error")
  /\ UNCHANGED <<world, home, link, provider, api, worker, bounds>>

\* The client gives the request up.
LoseAnswer ==
  /\ client.attempt # 0
  /\ client' = Settled("error")
  /\ UNCHANGED <<world, home, link, provider, api, worker, bounds>>

TwoMinutesPass(s) ==
  /\ link.session[s].recent
  /\ link' = [link EXCEPT !.session[s].recent = FALSE]
  /\ UNCHANGED <<world, home, provider, api, worker, client, bounds>>

Expire(s) ==
  /\ world.expires /\ link.session[s].status # "none" /\ ~link.session[s].expired
  /\ link' = [link EXCEPT !.session[s].expired = TRUE]
  /\ UNCHANGED <<world, home, provider, api, worker, client, bounds>>

Init ==
  /\ world \in Worlds
  /\ home = [lifecycle |-> "active", order |-> <<>>,
             role |-> [u \in Member |-> IF u = 1 THEN "owner" ELSE "member"],
             here |-> [u \in Member |-> u <= world.members],
             asked |-> [u \in Member |-> "none"], receipt |-> [u \in Member |-> "none"]]
  /\ link = [session |-> [s \in Session |-> [status |-> "none", token |-> 0, recent |-> FALSE, expired |-> FALSE]],
             connection |-> [i \in Item |-> IF i = 0 /\ world.linked THEN "live" ELSE "none"]]
  /\ provider = [identity |-> [u \in Member |-> TRUE], public |-> [s \in Session |-> 0],
                 item |-> [i \in Item |-> IF i = 0 /\ world.linked THEN "present" ELSE "none"]]
  /\ api = [a \in Attempt |-> NoAttempt]
  /\ worker = [w \in Workers |-> NoDeletion]
  /\ client = Rest
  /\ bounds = [crashes |-> 0, losses |-> 0, restarts |-> 0]

Next ==
  \/ \E u \in Member :
       \/ RequestDeletion(u) \/ RemoveIdentity(u) \/ ReceiveUserDeleted(u) \/ FiveMinutesPass(u)
       \/ \E i \in Item : Disconnect(u, i)
  \/ \E i \in Item : Revoke(i) \/ RevocationFails(i)
  \/ \E w \in Workers :
       Claim(w) \/ DeleteIdentity(w) \/ DeleteIdentityFails(w) \/ Finalize(w) \/ WorkerStops(w)
  \/ Start \/ CreateLinkToken \/ Redirect \/ ReadPending \/ LinkSucceeds \/ LinkExits
  \/ StartAgain \/ ReturnToNative \/ Exchange \/ ReceiveAnswer \/ LoseAnswer
  \/ \E a \in Attempt :
       ExchangePublicToken(a) \/ Store(a) \/ Compensate(a) \/ MarkSessionFailed(a) \/ ApiStops(a)
  \/ \E s \in Session : TwoMinutesPass(s) \/ Expire(s)

\* The workers run, Clerk answers one of their calls in the end and delivers
\* its events, and time passes.  A queued revocation ends, in one way or the
\* other (PlaidSync, JobsEnd); that one ever succeeds is not assumed, and nothing
\* of people or of the API.
Fairness ==
  /\ \A u \in Member : WF_vars(ReceiveUserDeleted(u)) /\ WF_vars(FiveMinutesPass(u))
  /\ \A i \in Item : WF_vars(Revoke(i) \/ RevocationFails(i))
  /\ \A w \in Workers : WF_vars(Claim(w)) /\ SF_vars(DeleteIdentity(w)) /\ WF_vars(Finalize(w))

Spec == Init /\ [][Next]_vars
FairSpec == Spec /\ Fairness

(***************************************************************************)
(* Properties                                                              *)
(***************************************************************************)
Home ==
  [lifecycle : {"active", "deleting", "deleted"}, order : Seq(Member),
   role : [Member -> {"owner", "member"}], here : [Member -> BOOLEAN],
   asked : [Member -> {"none", "ready", "revoking", "finalizing", "overdue", "completed"}],
   receipt : [Member -> {"none", "ignored", "queued", "processed"}]]
LinkSession ==
  [status : {"none", "created", "exchanging", "completed", "failed", "erased"}, token : Item,
   recent : BOOLEAN, expired : BOOLEAN]
Link ==
  [session : [Session -> LinkSession],
   connection : [Item -> {"none", "revoked", "erased"} \cup Linked]]
Provider ==
  [identity : [Member -> BOOLEAN], public : [Session -> Item],
   item : [Item -> {"none", "issued", "present", "removed"}]]
Exchanges ==
  {NoAttempt} \cup
  [step : {"calling", "exchanged", "compensating", "marking", "succeeded", "failed"},
   session : Session, token : Token, leaked : BOOLEAN]
Deletion == {NoDeletion} \cup [user : Member, step : {"claimed", "identity deleted"}]
Client ==
  [phase : {"idle", "requesting", "opening", "away", "expired", "exchanging", "done", "error", "cancelled"},
   page : BOOLEAN, session : 0 .. MaxSessions, token : Item, attempt : 0 .. MaxAttempts,
   stored : 0 .. MaxSessions]

\* The state has the types the code gives it; a client in the middle of a
\* link has a session, and in the middle of an exchange a token.
TypeOK ==
  /\ world \in Worlds
  /\ home \in Home /\ link \in Link /\ provider \in Provider
  /\ api \in [Attempt -> Exchanges] /\ worker \in [Workers -> Deletion]
  /\ client \in Client
  /\ client.phase \in {"opening", "exchanging"} => client.session # 0
  /\ client.phase = "exchanging" => client.token # 0
  /\ bounds \in [crashes : Nat, losses : Nat, restarts : Nat]

\* The Item of an exchange whose answer, or whose compensating removal, was
\* lost, or which has yet to end (README.md:113 of the repository).
Unaccounted(i) ==
  \E a \in Attempt :
    api[a].token = i /\ (api[a].leaked \/ api[a].step \in {"exchanged", "compensating"})

\* When a household's data has been erased nobody is a member of it, and
\* Plaid grants no access to an Item that it has known: account deletion
\* "finalizes only after provider access is revoked"
\* (docs/PRODUCT_ARCHITECTURE.md:71; 027:393-404, plaid 400-440, 1616).
ErasedHasNoAccess ==
  home.lifecycle = "deleted" =>
    /\ \A u \in Member : ~home.here[u]
    /\ \A i \in Item : provider.item[i] = "present" => Unaccounted(i)

\* An Item that exists at Plaid is that of one connection, whose session is
\* completed, or one the API has yet to put right; and a connection in use
\* has its Item: neither a late first attempt nor its retry removes the
\* Item the other has stored (plaid 352-366, 416-440, 499-511, 1377-1400).
LinkedIsUsable ==
  \A i \in Item :
    /\ link.connection[i] \in InUse => provider.item[i] = "present"
    /\ provider.item[i] = "present" => link.connection[i] \in Linked \/ Unaccounted(i)
    /\ link.connection[i] \in Linked \cup {"revoked"} /\ i # 0 =>
         Cardinality({s \in Session : link.session[s].status = "completed" /\ link.session[s].token = i}) = 1

\* A link session ends once: after the person was told to start a new
\* connection no late attempt completes the old one, and a completed session
\* is not marked as failed (plaid 368-370, 423-440, 1396).
SessionEndsOnce ==
  [][\A s \in Session :
       link.session[s].status \in {"completed", "failed"} =>
         link'.session[s].status \in {link.session[s].status, "erased"}]_vars

\* One departure never leaves the members who stay without an owner
\* (020:139-150, 023:90-110).
OneDepartureKeepsOwner ==
  LET owners == {u \in Member : home.role[u] = "owner"}
  IN (\E u \in Member : home.here[u]) =>
       (\E u \in owners : home.here[u]) \/ Cardinality(owners) > 1

\* What a departure leaves behind: erased data grants nothing, and one person
\* who goes leaves an owner to those who stay.
DepartureIsClean == TypeOK /\ ErasedHasNoAccess /\ OneDepartureKeepsOwner

\* Both: no attempt, late or repeated, takes a step that spoils what another one
\* has stored.
AttemptsAgree == [][LinkedIsUsable']_vars /\ SessionEndsOnce

\* Behind them: LifecycleInv is inductive.  Who has asked is still a member,
\* and with the last member everything is gone.
DeletionsGoOn ==
  /\ \A u \in Member : Pending(u) => home.here[u]
  /\ home.lifecycle = "deleted" =>
       /\ \A u \in Member : ~home.here[u]
       /\ \A i \in Item : link.connection[i] \in {"none", "erased"}

\* An owner who leaves others behind has made one of them an owner before.
OwnersHandOver ==
  \/ \E u, v \in Member : u # v /\ home.role[u] = "owner" /\ home.role[v] = "owner"
  \/ \E u \in Member :
       /\ home.role[u] = "owner"
       /\ \A v \in Member \ {u} : home.role[v] # "owner" /\ (home.here[v] => home.here[u])
       /\ Pending(u) => Others(u) = {}

\* An Item is one attempt's until it is a connection's.
Exchanged(a) == api[a].step \in {"exchanged", "compensating"}

ItemsHaveOneHolder ==
  /\ \A a \in Attempt : Exchanged(a) =>
       /\ provider.item[api[a].token] = "present" /\ link.connection[api[a].token] = "none"
       /\ \A b \in Attempt : Exchanged(b) /\ api[b].token = api[a].token => b = a
  /\ \A i \in Item :
       /\ link.connection[i] \in InUse => provider.item[i] = "present"
       /\ link.connection[i] \in {"pending", "failed"} => provider.item[i] \in {"present", "removed"}
       /\ link.connection[i] \in {"revoked", "erased"} => provider.item[i] = "removed"
       /\ provider.item[i] = "present" => link.connection[i] \in Linked \/ Unaccounted(i)

\* A connection is that of one session, the one that was completed with it.
Completed(i) == {s \in Session : link.session[s].status = "completed" /\ link.session[s].token = i}

ConnectionsHaveOneSession ==
  \A i \in Token :
    /\ link.connection[i] = "none" => Completed(i) = {}
    /\ link.connection[i] \in Linked \cup {"revoked"} => \E s \in Session : Completed(i) = {s}

LifecycleInv ==
  /\ TypeOK /\ DeletionsGoOn /\ OwnersHandOver /\ ItemsHaveOneHolder /\ ConnectionsHaveOneSession

\* The last member asked while another was a member too, that one is gone,
\* and a bank is linked: no worker claims the request (again), because the
\* connection is not revoked, and none revokes the connection.
Stranded(u) ==
  home.here[u] /\ Active /\ Others(u) = {} /\ Granted # {} /\ home.asked[u] \in {"ready", "revoking", "overdue"}

\* A revocation was dead-lettered, and nobody has queued it again.
RevocationFailed == \E i \in Item : link.connection[i] \in {"failed", "locked"}

\* Who asked for the deletion of the account, or whose identity was removed
\* at Clerk, has left in the end, whatever the worker, Clerk and the other
\* members do meanwhile, unless stranded or kept by a revocation that failed;
\* and when either is mended, the departure goes on (019:135-170, 027:386-447,
\* worker/src/main.ts:226-265).
DeparturesEnd ==
  \A u \in Member :
    (u <= world.members /\ (Pending(u) \/ ~provider.identity[u])) ~>
      (~home.here[u] \/ Stranded(u) \/ RevocationFailed)

\* docs/PRODUCT_ARCHITECTURE.md:71, "Account deletion transfers household
\* ownership before revoking a departing owner": who stays has an owner.
OwnerRemains ==
  (\E u \in Member : home.here[u]) => \E u \in Member : home.here[u] /\ home.role[u] = "owner"

\* Further definitions that do not hold (see the README).  A departure ends,
\* stranded or not.
DeparturesAlwaysEnd ==
  \A u \in Member : Pending(u) ~> ~home.here[u] \/ RevocationFailed

\* A departure ends although a revocation has failed for good: the claim waits
\* for every connection to be revoked (019:160-164), a dead letter is not taken
\* up again (plaid.service.ts 1240-1262), and a repeated request queues nothing.
DeparturesOutliveFailures ==
  \A u \in Member : Pending(u) ~> ~home.here[u] \/ Stranded(u)

\* plaid-link-button.tsx:232, "The bank connection was not completed.
\* Nothing was added.".
NothingWasAdded ==
  (client.phase = "error" /\ client.token # 0) => link.connection[client.token] = "none"
=============================================================================
