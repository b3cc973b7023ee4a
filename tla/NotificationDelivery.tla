------------------------ MODULE NotificationDelivery ------------------------
(***************************************************************************)
(* The reminder of one planned occurrence, from the sweep that generates   *)
(* its events to the provider that accepts them.                           *)
(*                                                                         *)
(* An event is pinned to a revision of the occurrence and a version of the *)
(* user's preferences; every enabled target (the e-mail address, each      *)
(* device) has one delivery of it.  Workers lease deliveries, call the     *)
(* provider outside any transaction, and finish with a compare-and-swap on *)
(* the lease token.                                                        *)
(***************************************************************************)
EXTENDS Naturals, FiniteSets

CONSTANTS
    Workers,        \* maintenance workers
    Devices,        \* push endpoints a user may register
    Email,          \* the user's e-mail address
    NoDelivery,     \* what an idle worker holds
    MaxAttempts,    \* claims after which a delivery is dead (6)
    MaxRevision,    \* bound on plan_occurrences.version
    MaxVersion      \* bound on notification_preferences.version

Targets == Devices \cup {Email}

\* The dedupe key of an event.
Event == [revision : 1 .. MaxRevision, version : 1 .. MaxVersion]

Delivery == [event : Event, target : Targets]

ASSUME EmailAssumption == Email \notin Devices
ASSUME NoDeliveryAssumption == NoDelivery \notin Delivery
ASSUME BoundsAssumption == {MaxAttempts, MaxRevision, MaxVersion} \subseteq Nat \ {0}

VARIABLES
    occurrence,     \* plan_occurrences: its version and whether it is still due
    preference,     \* notification_preferences
    device,         \* notification_endpoints
    elapsed,        \* events whose scheduled instant is more than 24 hours old
    delivery,       \* notification_deliveries
    worker,         \* what each worker process holds in memory
    accepted        \* deliveries the provider has accepted

userVars == <<occurrence, preference, device>>
vars == <<userVars, elapsed, delivery, worker, accepted>>

\* Every claim writes a new lease token and counts an attempt, so the number of
\* attempts stands for the token.  due: available_at has passed for a waiting
\* delivery, the lease for one that is being sent.
Row == [state : {"none", "queued", "sending", "retry", "sent", "dead", "suppressed"},
        due : BOOLEAN, attempts : 0 .. MaxAttempts]

Idle == [stage |-> "idle", holds |-> NoDelivery, token |-> 0]

TypeOK ==
    /\ occurrence \in [revision : 1 .. MaxRevision, expected : BOOLEAN]
    /\ preference \in [version : 1 .. MaxVersion, push : BOOLEAN, email : BOOLEAN,
                       reminders : BOOLEAN]
    /\ device \in [Devices -> {"absent", "enabled", "disabled"}]
    /\ elapsed \subseteq Event
    /\ delivery \in [Delivery -> Row]
    /\ worker \in [Workers ->
          [stage : {"idle", "claimed", "accepted", "refused", "unwanted", "disabled"},
           holds : Delivery \cup {NoDelivery}, token : 0 .. MaxAttempts]]
    /\ accepted \subseteq Delivery

Init ==
    /\ occurrence = [revision |-> 1, expected |-> TRUE]
    /\ preference \in [version : {1}, push : BOOLEAN, email : BOOLEAN, reminders : {TRUE}]
    /\ device = [d \in Devices |-> "absent"]
    /\ elapsed = {}
    /\ delivery = [d \in Delivery |-> [state |-> "none", due |-> FALSE, attempts |-> 0]]
    /\ worker = [w \in Workers |-> Idle]
    /\ accepted = {}

------------------------------------------------------------------------------
(* The user.                                                               *)

\* A payment is matched or verified, the occurrence is skipped or rescheduled,
\* or the match is reversed: every change appends a revision.
ChangeOccurrence ==
    /\ occurrence.revision < MaxRevision
    /\ \E expected \in BOOLEAN :
        occurrence' = [revision |-> occurrence.revision + 1, expected |-> expected]
    /\ UNCHANGED <<preference, device, elapsed, delivery, worker, accepted>>

\* Every update of the row bumps its version.
UpdatePreferences ==
    /\ preference.version < MaxVersion
    /\ \E push, email, reminders \in BOOLEAN :
        preference' = [version |-> preference.version + 1, push |-> push,
                       email |-> email, reminders |-> reminders]
    /\ UNCHANGED <<occurrence, device, elapsed, delivery, worker, accepted>>

\* An endpoint that was disabled is not enabled again: the device registers
\* under a new id.
RegisterEndpoint(d) ==
    /\ device[d] = "absent"
    /\ device' = [device EXCEPT ![d] = "enabled"]
    /\ UNCHANGED <<occurrence, preference, elapsed, delivery, worker, accepted>>

DisableEndpoint(d) ==
    /\ device[d] = "enabled"
    /\ device' = [device EXCEPT ![d] = "disabled"]
    /\ UNCHANGED <<occurrence, preference, elapsed, delivery, worker, accepted>>

------------------------------------------------------------------------------
(* generate_notification_events.                                           *)

Current == [revision |-> occurrence.revision, version |-> preference.version]

\* A reminder of this revision went out, under whatever version.
SentBefore == \E d \in Delivery : /\ d.event.revision = occurrence.revision
                                  /\ delivery[d].state = "sent"

Reachable(t) == IF t = Email THEN preference.email
                ELSE preference.push /\ device[t] = "enabled"

Generate ==
    /\ preference.reminders /\ occurrence.expected
    /\ Current \notin elapsed
    /\ ~SentBefore
    /\ delivery' = [d \in Delivery |->
          IF d.event = Current /\ Reachable(d.target) /\ delivery[d].state = "none"
          THEN [state |-> "queued", due |-> TRUE, attempts |-> 0] ELSE delivery[d]]
    /\ UNCHANGED <<userVars, elapsed, worker, accepted>>

------------------------------------------------------------------------------
(* claim_notification_delivery.                                            *)

IsWaiting(row) == row.state \in {"queued", "retry"}

\* Mutant: a lease that ran out is not taken back.
RecoveredNever(row) == row

\* A lease of five minutes has run out.
Recovered(row) == IF row.state = "sending" /\ row.due
                  THEN [row EXCEPT !.state = "retry"] ELSE row

\* Stale work, other preferences, a channel that is off, or an occurrence that
\* changed.
IsStale(d) ==
    \/ d.event \in elapsed
    \/ d.event.version # preference.version
    \/ ~preference.reminders
    \/ ~Reachable(d.target)
    \/ d.event.revision # occurrence.revision
    \/ ~occurrence.expected

Reviewed(d) ==
    LET row == Recovered(delivery[d])
    IN  IF ~IsWaiting(row) THEN row
        ELSE IF IsStale(d) THEN [row EXCEPT !.state = "suppressed"]
        ELSE IF row.attempts >= MaxAttempts THEN [row EXCEPT !.state = "dead"]
        ELSE row

\* The whole table is reviewed; then one delivery that is due is leased.
Claim(w) ==
    /\ worker[w].stage = "idle"
    /\ LET table == [d \in Delivery |-> Reviewed(d)]
           ready == {d \in Delivery : IsWaiting(table[d]) /\ table[d].due}
       IN  \/ /\ ready = {}
              /\ delivery' = table
              /\ UNCHANGED worker
           \/ \E d \in ready :
              /\ delivery' = [table EXCEPT ![d].state = "sending", ![d].due = FALSE,
                                           ![d].attempts = @ + 1]
              /\ worker' = [worker EXCEPT ![w] =
                    [stage |-> "claimed", holds |-> d, token |-> table[d].attempts + 1]]
    /\ UNCHANGED <<userVars, elapsed, accepted>>

\* The backoff of a retry, or the lease of a delivery, runs out.
TimePasses(d) ==
    /\ delivery[d].state \in {"retry", "sending"} /\ ~delivery[d].due
    /\ delivery' = [delivery EXCEPT ![d].due = TRUE]
    /\ UNCHANGED <<userVars, elapsed, worker, accepted>>

\* A day has passed since the scheduled instant of the current event.
Elapse ==
    /\ Current \notin elapsed
    /\ elapsed' = elapsed \cup {Current}
    /\ UNCHANGED <<userVars, delivery, worker, accepted>>

------------------------------------------------------------------------------
(* deliverOne.                                                             *)

Move(w, stage) == worker' = [worker EXCEPT ![w].stage = stage]

\* The provider takes the message; the answer may be lost on the way.
ProviderAccepts(w) ==
    /\ worker[w].stage = "claimed"
    /\ accepted' = accepted \cup {worker[w].holds}
    /\ \E stage \in {"accepted", "refused"} : Move(w, stage)
    /\ UNCHANGED <<userVars, elapsed, delivery>>

\* "unwanted": the provider answers that the message can never be delivered.
ProviderRefuses(w) ==
    /\ worker[w].stage = "claimed"
    /\ \E stage \in {"refused", "unwanted"} : Move(w, stage)
    /\ UNCHANGED <<userVars, elapsed, delivery, accepted>>

\* disable_notification_endpoint, a transaction of its own.
DisableRefused(w) ==
    /\ worker[w].stage = "unwanted"
    /\ device' = [d \in Devices |-> IF d = worker[w].holds.target THEN "disabled" ELSE device[d]]
    /\ Move(w, "disabled")
    /\ UNCHANGED <<occurrence, preference, elapsed, delivery, accepted>>

\* Mutant: the delivery is found by its id.
HoldsLeaseById(w) == delivery[worker[w].holds].attempts >= worker[w].token

\* The compare-and-swap of finish_notification_delivery.
HoldsLease(w) == /\ delivery[worker[w].holds].state = "sending"
                 /\ delivery[worker[w].holds].attempts = worker[w].token

\* A retry at the last attempt is written as dead.
Ended(row, state) ==
    IF state = "retry" /\ row.attempts >= MaxAttempts THEN "dead" ELSE state

Written(w, state) ==
    IF HoldsLease(w)
    THEN [delivery EXCEPT ![worker[w].holds].state = Ended(delivery[worker[w].holds], state),
                          ![worker[w].holds].due = FALSE]
    ELSE delivery

Outcome(stage) == CASE stage = "accepted" -> "sent"
                    [] stage = "refused" -> "retry"
                    [] stage = "disabled" -> "dead"

Finish(w) ==
    /\ worker[w].stage \in {"accepted", "refused", "disabled"}
    /\ delivery' = Written(w, Outcome(worker[w].stage))
    /\ worker' = [worker EXCEPT ![w] = Idle]
    /\ UNCHANGED <<userVars, elapsed, accepted>>

\* The call that writes "sent" throws, before or after its transaction commits;
\* the catch block goes on as if the provider had refused.
FinishThrows(w) ==
    /\ worker[w].stage = "accepted"
    /\ delivery' \in {delivery, Written(w, "sent")}
    /\ Move(w, "refused")
    /\ UNCHANGED <<userVars, elapsed, accepted>>

\* The process ends, or the last call throws: nothing more is written.
Crash(w) ==
    /\ worker[w].stage # "idle"
    /\ worker' = [worker EXCEPT ![w] = Idle]
    /\ UNCHANGED <<userVars, elapsed, delivery, accepted>>

------------------------------------------------------------------------------
Advance(w) == ProviderAccepts(w) \/ ProviderRefuses(w) \/ DisableRefused(w)
              \/ Finish(w) \/ FinishThrows(w)

Next ==
    \/ ChangeOccurrence \/ UpdatePreferences
    \/ \E d \in Devices : RegisterEndpoint(d) \/ DisableEndpoint(d)
    \/ Generate \/ Elapse
    \/ \E d \in Delivery : TimePasses(d)
    \/ \E w \in Workers : Claim(w) \/ Advance(w) \/ Crash(w)

Spec == Init /\ [][Next]_vars

\* Time passes, workers go on, and a worker that polls keeps polling.  Providers
\* and the database may fail at every call, and workers may be lost.
Fairness ==
    /\ \A d \in Delivery : WF_vars(TimePasses(d))
    /\ \A w \in Workers : WF_vars(Advance(w)) /\ WF_vars(Claim(w))

FairSpec == Spec /\ Fairness

------------------------------------------------------------------------------
Terminal == {"sent", "dead", "suppressed"}

\* No late worker, retry or review changes a delivery that has ended.
TerminalIsFinal ==
    [][\A d \in Delivery :
          delivery[d].state \in Terminal => delivery'[d].state = delivery[d].state]_vars

\* While its lease lasts, nobody but the worker that claimed a delivery ends or
\* releases it: a worker whose lease ran out finds another token (033:546-549).
LeaseIsKept ==
    [][\A w \in Workers, d \in Delivery :
          /\ worker[w].holds = d /\ worker[w].token = delivery[d].attempts
          /\ delivery[d].state = "sending" /\ ~delivery[d].due
          => delivery'[d].state = "sending" \/ worker'[w] # worker[w]]_vars

\* Both: a worker undoes neither what has ended nor what another one works on.
OthersWorkStands == TerminalIsFinal /\ LeaseIsKept

\* What the database calls sent, the provider has accepted: no lost answer,
\* retry or catch block writes it otherwise.
SentWasAccepted == \A d \in Delivery : delivery[d].state = "sent" => d \in accepted

\* Behind them: a busy worker holds a delivery that was claimed, under a token
\* that no other worker has and that no later claim has reached yet.
ClaimInv(w) ==
    LET h == worker[w] IN
    /\ h.stage = "idle" => h = Idle
    /\ h.stage # "idle" => /\ h.holds \in Delivery
                           /\ delivery[h.holds].state # "none"
                           /\ h.token <= delivery[h.holds].attempts
    /\ h.stage = "accepted" => h.holds \in accepted

TokensDiffer ==
    \A v, w \in Workers :
        /\ v # w /\ worker[v].holds = worker[w].holds
        /\ worker[v].stage # "idle" /\ worker[w].stage # "idle"
        => worker[v].token # worker[w].token

DeliveryInv ==
    /\ TypeOK
    /\ \A w \in Workers : ClaimInv(w)
    /\ TokensDiffer
    /\ SentWasAccepted

\* Every delivery ends, although calls fail, answers are lost and workers are
\* lost between the claim and the end: none is left in the end, and what has
\* ended stays so.  (One formula for all, since the occurrence and the
\* preferences change a limited number of times.)
DeliveriesEnd ==
    []<>(\A d \in Delivery : delivery[d].state \in Terminal \cup {"none"})

\* What docs/PRODUCT_ARCHITECTURE.md says: "paid, verified, skipped, or changed
\* occurrences are suppressed before send".
SendFollowsOccurrence ==
    [][\A d \in accepted' \ accepted :
          occurrence.expected /\ d.event.revision = occurrence.revision]_vars
=============================================================================
